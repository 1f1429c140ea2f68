---------------------------- MODULE RoutingProofs ----------------------------
(***************************************************************************)
(* Proofs about what a request is routed by: an attempt of engine v2       *)
(* (LayeredRouting), for any credentials, providers, fallback models,      *)
(* resolutions and cooldowns of other requests; and what says whether a    *)
(* model is available: the registry of models (ModelRegistry), its lock    *)
(* (FirstAvailableModel) and the cooldowns of a credential (AuthCooldown), *)
(* which implement those CooldownSpec promises, for any numbers of         *)
(* clients, models, requests and goroutines and for all durations.         *)
(***************************************************************************)
EXTENDS LayeredRouting, ModelRegistry, FirstAvailableModel, AuthCooldown,
        FiniteSetTheorems, WellFoundedInduction, TLAPS

-----------------------------------------------------------------------------
(* LayeredRouting. *)

\* There is a provider, and as many as the offset may count to.
LEMMA ProvidersCount ==
    ASSUME NEW p \in Providers
    PROVE  Cardinality(Providers) \in Nat \ {0}
<1>1. IsFiniteSet(Providers)
  BY RoutingAssumption
<1>2. Cardinality(Providers) \in Nat
  BY <1>1, FS_CardinalityType
<1>3. Cardinality(Providers) # 0
  BY <1>1, FS_EmptySet
<1> QED
  BY <1>2, <1>3

LEMMA OffsetInRange ==
    ASSUME NEW n \in Nat \ {0}, NEW o \in 0 .. n - 1
    PROVE  (o + 1) % n \in 0 .. n - 1
  OBVIOUS

\* The routes of the model are typed.
LEMMA NameTyped == ASSUME TypeOK PROVE Name \in Names
  BY DEF TypeOK, Name, Names

-----------------------------------------------------------------------------
(* The type invariant. *)

LEMMA TypeInit == Init => TypeOK
<1> SUFFICES ASSUME Init PROVE TypeOK
  OBVIOUS
<1>1. 1 \in DOMAIN ModelCandidates
  BY RoutingAssumption
<1>2. cooling \subseteq Auths \X Models
  BY RoutingAssumption DEF Init, Models
<1> QED
  BY <1>1, <1>2 DEF Init, TypeOK, NoRoute

\* What a step does to the history of cooldowns.
LEMMA ThrottledTyped ==
    ASSUME TypeOK, cooling' \subseteq Auths \X Models, Watch
    PROVE  throttled' \subseteq Auths \X Models
  BY DEF TypeOK, Watch

LEMMA TypeStep == TypeOK /\ RouteOpen /\ [Next]_vars => TypeOK'
<1> SUFFICES ASSUME TypeOK, RouteOpen, [Next]_vars PROVE TypeOK'
  OBVIOUS
<1>n. Name \in Names
  BY NameTyped
<1>1. CASE NextProvider
  <2>1. throttled' \subseteq Auths \X Models /\ cooling' = cooling
    BY <1>1, ThrottledTyped DEF NextProvider, TypeOK
  <2>2. provider' \in Providers
    BY <1>1 DEF NextProvider, Usable, TypeOK
  <2>3. offset' \in 0 .. Cardinality(Providers) - 1 /\ chosen' \in BOOLEAN
    <3>1. CASE provider \in Usable
      BY <1>1, <3>1 DEF NextProvider, plan, TypeOK
    <3>2. CASE provider \notin Usable
      <4>1. Cardinality(Providers) \in Nat \ {0}
        BY <2>2, ProvidersCount
      <4>2. Advance(offset) \in 0 .. Cardinality(Providers) - 1
        BY <4>1, OffsetInRange DEF Advance, TypeOK
      <4> QED
        BY <1>1, <3>2, <4>2 DEF NextProvider, TypeOK
    <3> QED
      BY <3>1, <3>2
  <2> QED
    BY <1>1, <2>1, <2>2, <2>3 DEF NextProvider, TypeOK
<1>2. CASE NoProvider
  <2>1. throttled' \subseteq Auths \X Models /\ cooling' = cooling
    BY <1>2, ThrottledTyped DEF NoProvider, TypeOK
  <2>2. depth' \in DOMAIN ModelCandidates
    BY <1>2, RoutingAssumption DEF NoProvider, CanFallBack, TypeOK
  <2> QED
    BY <1>2, <2>1, <2>2 DEF NoProvider, plan, TypeOK
<1>3. CASE NoAuth
  <2>1. throttled' \subseteq Auths \X Models /\ cooling' = cooling
    BY <1>3, ThrottledTyped DEF NoAuth, TypeOK
  <2>2. provider \in Providers
    BY <1>3 DEF NoAuth, RouteOpen, Usable
  <2>3. blockedPM' \subseteq Providers \X Names
    BY <1>3, <1>n, <2>2 DEF NoAuth, TypeOK
  <2> QED
    BY <1>3, <2>1, <2>3 DEF NoAuth, plan, TypeOK
<1>4. CASE Succeed
  <2>1. cooling' \subseteq Auths \X Models
    BY <1>4 DEF Succeed, TypeOK
  <2>2. throttled' \subseteq Auths \X Models
    BY <1>4, <2>1, ThrottledTyped DEF Succeed
  <2> QED
    BY <1>4, <2>1, <2>2 DEF Succeed, plan, attempt, TypeOK
<1>5. CASE Abort
  <2>1. cooling' \subseteq Auths \X Models
    BY <1>5 DEF Abort, TypeOK
  <2>2. throttled' \subseteq Auths \X Models
    BY <1>5, <2>1, ThrottledTyped DEF Abort
  <2> QED
    BY <1>5, <2>1, <2>2 DEF Abort, plan, attempt, TypeOK
<1>6. ASSUME NEW a \in Auths, Skip(a) PROVE TypeOK'
  <2>1. throttled' \subseteq Auths \X Models /\ cooling' = cooling
    BY <1>6, ThrottledTyped DEF Skip, TypeOK
  <2>2. Resolve[a][Name] \in Upstream \cup {None}
    BY <1>n, RoutingAssumption
  <2>3. tried' \subseteq Auths \X Models
    BY <1>6, <1>n, <2>2 DEF Skip, Models, TypeOK
  <2> QED
    BY <1>6, <2>1, <2>3 DEF Skip, plan, TypeOK
<1>7. ASSUME NEW a \in Auths, Choose(a) PROVE TypeOK'
  <2>1. throttled' \subseteq Auths \X Models /\ cooling' = cooling
    BY <1>7, ThrottledTyped DEF Choose, TypeOK
  <2>2. Resolve[a][Name] \in Upstream
    BY <1>7, <1>n, RoutingAssumption DEF Choose, Refused
  <2>3. route' \in [auth : Auths, model : Upstream, name : Names]
    BY <1>7, <1>n, <2>2 DEF Choose
  <2> QED
    BY <1>7, <2>1, <2>3 DEF Choose, plan, attempt, TypeOK
<1>8. ASSUME NEW code \in Codes, Fail(code) PROVE TypeOK'
  <2>1. route \in [auth : Auths, model : Upstream, name : Names]
    BY <1>8 DEF Fail, RouteOpen
  <2>2. Used \in Auths \X Models /\ <<route.auth, route.name>> \in Auths \X Models
    BY <2>1 DEF Used, Models
  <2>3. cooling' \subseteq Auths \X Models /\ tried' \subseteq Auths \X Models
    BY <1>8, <2>2 DEF Fail, Marks, TypeOK
  <2>4. throttled' \subseteq Auths \X Models
    BY <1>8, <2>3, ThrottledTyped DEF Fail
  <2>5. ProviderOf[route.auth] \in Providers
    BY <2>1, RoutingAssumption
  <2>6. blockedA' \subseteq Auths /\ blockedPM' \subseteq Providers \X Names
    BY <1>8, <2>1, <2>5 DEF Fail, TypeOK
  <2>7. failures' \subseteq [route : [auth : Auths, model : Upstream, name : Names], code : Codes]
    BY <1>8, <2>1 DEF Fail, TypeOK
  <2> QED
    BY <1>8, <2>3, <2>4, <2>6, <2>7 DEF Fail, plan, TypeOK
<1>9. ASSUME NEW c \in Contended, Cool(c) PROVE TypeOK'
  <2>1. cooling' \subseteq Auths \X Models
    BY <1>9, RoutingAssumption DEF Cool, Models, TypeOK
  <2>2. throttled' \subseteq Auths \X Models
    BY <1>9, <2>1, ThrottledTyped DEF Cool
  <2> QED
    BY <1>9, <2>1, <2>2 DEF Cool, plan, attempt, TypeOK
<1>10. CASE UNCHANGED vars
  BY <1>10 DEF vars, plan, attempt, TypeOK
<1> QED
  BY <1>1, <1>2, <1>3, <1>4, <1>5, <1>6, <1>7, <1>8, <1>9, <1>10 DEF Next, Step

-----------------------------------------------------------------------------
(* What failures leave behind stays: each step adds to what is tried, blocked
   and seen, and to nothing else does it add. *)

\* The three records of an attempt only grow.
LEMMA Growing ==
    ASSUME [Next]_vars
    PROVE  /\ tried \subseteq tried' /\ blockedA \subseteq blockedA'
           /\ blockedPM \subseteq blockedPM' /\ failures \subseteq failures'
           /\ throttled \subseteq throttled'
<1>1. CASE NextProvider \/ NoProvider \/ NoAuth \/ Succeed \/ Abort
  BY <1>1 DEF NextProvider, NoProvider, NoAuth, Succeed, Abort, Watch, attempt
<1>2. ASSUME NEW a \in Auths, Skip(a) \/ Choose(a)
      PROVE  /\ tried \subseteq tried' /\ blockedA \subseteq blockedA'
             /\ blockedPM \subseteq blockedPM' /\ failures \subseteq failures'
             /\ throttled \subseteq throttled'
  BY <1>2 DEF Skip, Choose, Watch, attempt
<1>3. ASSUME NEW code \in Codes, Fail(code)
      PROVE  /\ tried \subseteq tried' /\ blockedA \subseteq blockedA'
             /\ blockedPM \subseteq blockedPM' /\ failures \subseteq failures'
             /\ throttled \subseteq throttled'
  BY <1>3 DEF Fail, Watch
<1>4. ASSUME NEW c \in Contended, Cool(c)
      PROVE  /\ tried \subseteq tried' /\ blockedA \subseteq blockedA'
             /\ blockedPM \subseteq blockedPM' /\ failures \subseteq failures'
             /\ throttled \subseteq throttled'
  BY <1>4 DEF Cool, Watch, attempt
<1>5. CASE UNCHANGED vars
  BY <1>5 DEF vars, attempt
<1> QED
  BY <1>1, <1>2, <1>3, <1>4, <1>5 DEF Next, Step

\* Only a failure adds to the failures.
LEMMA FailuresFrom ==
    ASSUME [Next]_vars
    PROVE  failures' = failures \/ \E code \in Codes : Fail(code)
  BY DEF Next, Step, NextProvider, NoProvider, NoAuth, Succeed, Abort, Skip, Choose, Cool,
         vars, attempt

LEMMA MarkedStep ==
    TypeOK /\ FailuresMarked /\ [Next]_vars => FailuresMarked'
<1> SUFFICES ASSUME TypeOK, FailuresMarked, [Next]_vars PROVE FailuresMarked'
  OBVIOUS
<1>1. CASE failures' = failures
  BY <1>1, Growing DEF FailuresMarked
<1>2. ASSUME NEW code \in Codes, Fail(code) PROVE FailuresMarked'
  <2> DEFINE new == [route |-> route, code |-> code]
  <2>1. failures' = failures \cup {new}
    BY <1>2 DEF Fail
  <2>2. Used \in tried'
    BY <1>2 DEF Fail, Marks
  <2>3. code \in {"unauthorized", "forbidden"} => route.auth \in blockedA'
    BY <1>2 DEF Fail, BlocksAuth
  <2>4. BlocksProvider(code) => <<ProviderOf[route.auth], route.name>> \in blockedPM'
    BY <1>2 DEF Fail
  <2>5. new.route = route /\ new.code = code
    OBVIOUS
  <2>6. SUFFICES ASSUME NEW f \in failures'
                 PROVE  /\ <<f.route.auth, f.route.model>> \in tried'
                        /\ f.code \in {"unauthorized", "forbidden"} => f.route.auth \in blockedA'
                        /\ BlocksProvider(f.code) =>
                              <<ProviderOf[f.route.auth], f.route.name>> \in blockedPM'
    BY DEF FailuresMarked, BlocksProvider
  <2>7. CASE f \in failures
    BY <2>7, Growing DEF FailuresMarked
  <2>8. CASE f = new
    BY <2>2, <2>3, <2>4, <2>5, <2>8 DEF Used
  <2> QED
    BY <2>1, <2>7, <2>8
<1> QED
  BY <1>1, <1>2, FailuresFrom

LEMMA OpenStep == TypeOK /\ RouteOpen /\ [Next]_vars => RouteOpen'
<1> SUFFICES ASSUME TypeOK, RouteOpen, [Next]_vars PROVE RouteOpen'
  OBVIOUS
<1>n. Name \in Names
  BY NameTyped
<1>1. CASE NextProvider
  <2>1. provider' \in Usable /\ Usable' = Usable /\ pc' = "auth"
    BY <1>1 DEF NextProvider, Usable, Name
  <2> QED
    BY <2>1 DEF RouteOpen
<1>2. CASE NoProvider \/ NoAuth \/ Succeed \/ Abort
  BY <1>2 DEF NoProvider, NoAuth, Succeed, Abort, RouteOpen
<1>3. ASSUME NEW a \in Auths, Skip(a) PROVE RouteOpen'
  BY <1>3 DEF Skip, RouteOpen
<1>4. ASSUME NEW a \in Auths, Choose(a) PROVE RouteOpen'
  <2>1. Resolve[a][Name] \in Upstream /\ <<a, Resolve[a][Name]>> \notin tried
    BY <1>4, <1>n, RoutingAssumption DEF Choose, Refused
  <2>2. route' = [auth |-> a, model |-> Resolve[a][Name], name |-> Name] /\ pc' = "upstream"
    BY <1>4 DEF Choose
  <2>3. a \notin blockedA /\ ProviderOf[a] = provider
    BY <1>4 DEF Choose, Ready, Candidates
  <2>4. <<provider, Name>> \notin blockedPM
    BY <1>4 DEF Choose, RouteOpen, Usable
  <2>5. UNCHANGED <<tried, blockedA, blockedPM>>
    BY <1>4 DEF Choose, attempt
  <2> QED
    BY <1>n, <2>1, <2>2, <2>3, <2>4, <2>5 DEF RouteOpen, Used
<1>5. ASSUME NEW code \in Codes, Fail(code) PROVE RouteOpen'
  BY <1>5 DEF Fail, RouteOpen
<1>6. ASSUME UNCHANGED <<attempt, pc, route>> PROVE RouteOpen'
  BY <1>6 DEF attempt, RouteOpen, Usable, Name, Used
<1> QED
  BY <1>1, <1>2, <1>3, <1>4, <1>5, <1>6 DEF Next, Step, Cool, vars

\* A provider once excused for a model stays so.
LEMMA ExcusedStays ==
    ASSUME NEW p \in Providers, NEW n \in Names, Excused(p, n), [Next]_vars
    PROVE  Excused(p, n)'
  BY Growing DEF Excused, BlocksProvider

LEMMA JustifiedStep ==
    TypeOK /\ FailuresMarked /\ RouteOpen /\ BlocksJustified /\ [Next]_vars => BlocksJustified'
<1> SUFFICES ASSUME TypeOK, RouteOpen, BlocksJustified, [Next]_vars
             PROVE  BlocksJustified'
  OBVIOUS
<1>1. cooling' \subseteq throttled'
  <2>1. CASE Next
    BY <2>1 DEF Next, Step, NextProvider, NoProvider, NoAuth, Succeed, Abort, Skip, Choose,
                Fail, Cool, Watch
  <2>2. CASE UNCHANGED vars
    BY <2>2 DEF vars, BlocksJustified
  <2> QED
    BY <2>1, <2>2
<1>2. SUFFICES ASSUME NEW p \in Providers, NEW n \in Names, <<p, n>> \in blockedPM'
               PROVE  Excused(p, n)'
  BY <1>1 DEF BlocksJustified
<1>3. CASE <<p, n>> \in blockedPM
  BY <1>3, ExcusedStays DEF BlocksJustified
<1>4. CASE NoAuth /\ <<p, n>> \notin blockedPM
  <2>1. p = provider /\ n = Name
    BY <1>2, <1>4 DEF NoAuth
  <2>2. ASSUME NEW a \in Supports[n], ProviderOf[a] = p
        PROVE  a \in blockedA \/ <<a, n>> \in tried \cup throttled
    BY <1>4, <2>1, <2>2 DEF NoAuth, Ready, Candidates, BlocksJustified
  <2>3. Excused(p, n)
    BY <2>2 DEF Excused
  <2> QED
    BY <2>3, ExcusedStays
<1>5. ASSUME NEW code \in Codes, Fail(code), <<p, n>> \notin blockedPM
      PROVE  Excused(p, n)'
  <2> DEFINE new == [route |-> route, code |-> code]
  <2>1. new \in failures' /\ new.route = route /\ new.code = code
    BY <1>5 DEF Fail
  <2>2. BlocksProvider(code) /\ p = ProviderOf[route.auth] /\ n = route.name
    BY <1>2, <1>5 DEF Fail
  <2> HIDE DEF new
  <2> QED
    BY <2>1, <2>2 DEF Excused, BlocksProvider
<1>6. blockedPM' = blockedPM \/ NoAuth \/ \E code \in Codes : Fail(code)
  BY DEF Next, Step, NextProvider, NoProvider, Succeed, Abort, Skip, Choose, Cool, vars, attempt
<1> QED
  BY <1>2, <1>3, <1>4, <1>5, <1>6

-----------------------------------------------------------------------------

\* IInv is inductive: it holds in every reachable state.
THEOREM Inductive == Spec => []IInv
<1>1. Init => IInv
  <2>1. Init => FailuresMarked /\ RouteOpen /\ BlocksJustified
    BY DEF Init, FailuresMarked, RouteOpen, BlocksJustified
  <2> QED
    BY <2>1, TypeInit DEF IInv
<1>2. IInv /\ [Next]_vars => IInv'
  BY TypeStep, MarkedStep, OpenStep, JustifiedStep DEF IInv
<1> QED
  BY <1>1, <1>2, PTL DEF Spec

\* The type invariant of LayeredRouting.
THEOREM TypeCorrect == Spec => []TypeOK
<1>1. IInv => TypeOK
  BY DEF IInv
<1> QED
  BY <1>1, Inductive, PTL

\* A route that failed is never called again in the attempt, whatever names
\* lead to its upstream model.
THEOREM RoutesCalledOnce == Spec => []NoRouteTwice
<1>1. IInv => NoRouteTwice
  BY DEF IInv, FailuresMarked, RouteOpen, NoRouteTwice, Used
<1> QED
  BY <1>1, Inductive, PTL

\* What a failure rules out by its class stays ruled out for the attempt.
THEOREM PolicyHolds == Spec => []FailuresRespected
<1>1. IInv => FailuresRespected
  <2> SUFFICES ASSUME IInv, pc = "upstream", NEW f \in failures
               PROVE  /\ f.code \in {"unauthorized", "forbidden"} => f.route.auth # route.auth
                      /\ f.code = "protocol" \/ (f.code = "quota" /\ ~SwitchProject) =>
                            \/ ProviderOf[f.route.auth] # ProviderOf[route.auth]
                            \/ f.route.name # route.name
    BY DEF FailuresRespected
  <2>1. f.code = "protocol" \/ (f.code = "quota" /\ ~SwitchProject) => BlocksProvider(f.code)
    BY DEF BlocksProvider
  <2> QED
    BY <2>1 DEF IInv, FailuresMarked, RouteOpen
<1> QED
  BY <1>1, Inductive, PTL

\* A fallback model is used only when no credential of the model before it is
\* left without a reason.
THEOREM FallbackOnlyLast == Spec => FallbackIsLast
<1> DEFINE Last ==
      depth' > depth =>
          \A a \in Supports[Name] :
              \/ a \in blockedA
              \/ <<a, Name>> \in tried \cup throttled
              \/ \E f \in failures : /\ ProviderOf[f.route.auth] = ProviderOf[a]
                                     /\ f.route.name = Name
                                     /\ BlocksProvider(f.code)
<1>1. IInv /\ [Next]_vars => [Last]_vars
  <2> SUFFICES ASSUME IInv, Next, depth' > depth, NEW a \in Supports[Name]
               PROVE  \/ a \in blockedA
                      \/ <<a, Name>> \in tried \cup throttled
                      \/ \E f \in failures : /\ ProviderOf[f.route.auth] = ProviderOf[a]
                                             /\ f.route.name = Name
                                             /\ BlocksProvider(f.code)
    OBVIOUS
  <2>1. depth \in Nat
    BY RoutingAssumption DEF IInv, TypeOK
  <2>2. Usable = {}
    <3>1. depth' = depth \/ NoProvider
      BY DEF Next, Step, NextProvider, NoAuth, Succeed, Abort, Skip, Choose, Fail, Cool, attempt
    <3> QED
      BY <2>1, <3>1 DEF NoProvider
  <2>3. Name \in Names
    BY NameTyped DEF IInv
  <2>4. a \in Auths /\ ProviderOf[a] \in Providers
    BY <2>3, RoutingAssumption
  <2>5. <<ProviderOf[a], Name>> \in blockedPM
    BY <2>2, <2>4 DEF Usable
  <2>6. Excused(ProviderOf[a], Name)
    BY <2>3, <2>4, <2>5 DEF IInv, BlocksJustified
  <2> QED
    BY <2>6 DEF Excused
<1> QED
  BY <1>1, Inductive, PTL DEF Spec, FallbackIsLast

-----------------------------------------------------------------------------
(* The copies of a model in the lists f of some clients. *)

CopiesIn(f, m, S) == Cardinality({x \in S \X (1 .. MaxCopies) : x[2] <= f[x[1]][m]})

LEMMA CopiesFinite ==
    ASSUME NEW f, NEW m, NEW S \in SUBSET Clients
    PROVE  /\ IsFiniteSet({x \in S \X (1 .. MaxCopies) : x[2] <= f[x[1]][m]})
           /\ CopiesIn(f, m, S) \in Nat
<1> DEFINE E == {x \in S \X (1 .. MaxCopies) : x[2] <= f[x[1]][m]}
<1>1. IsFiniteSet(S)
  BY FS_Subset, RegistryAssumption
<1>2. IsFiniteSet(1 .. MaxCopies)
  BY FS_Interval, RegistryAssumption
<1>3. IsFiniteSet(S \X (1 .. MaxCopies))
  BY <1>1, <1>2, FS_Product
<1>4. E \subseteq S \X (1 .. MaxCopies)
  OBVIOUS
<1>5. IsFiniteSet(E)
  BY <1>3, <1>4, FS_Subset
<1>6. Cardinality(E) \in Nat
  BY <1>5, FS_CardinalityType
<1> QED
  BY <1>5, <1>6 DEF CopiesIn

\* A client adds the copies of its own list.
LEMMA CopiesSplit ==
    ASSUME NEW f \in [Clients -> Lists], NEW m \in Supplied, NEW S \in SUBSET Clients,
           NEW c \in S
    PROVE  CopiesIn(f, m, S) = CopiesIn(f, m, S \ {c}) + f[c][m]
<1> DEFINE R == S \ {c}
           n == f[c][m]
           A == {x \in R \X (1 .. MaxCopies) : x[2] <= f[x[1]][m]}
           B == {c} \X (1 .. n)
           E == {x \in S \X (1 .. MaxCopies) : x[2] <= f[x[1]][m]}
<1>1. n \in Nat /\ n <= MaxCopies
  BY RegistryAssumption DEF Lists
<1>2. E = A \cup B
  <2>1. ASSUME NEW x \in E PROVE x \in A \cup B
    <3>1. x = <<x[1], x[2]>> /\ x[1] \in S /\ x[2] \in 1 .. MaxCopies /\ x[2] <= f[x[1]][m]
      BY <2>1
    <3>2. CASE x[1] = c
      BY <3>1, <3>2, <1>1
    <3>3. CASE x[1] # c
      BY <3>1, <3>3
    <3> QED
      BY <3>2, <3>3
  <2>2. A \subseteq E
    OBVIOUS
  <2>3. ASSUME NEW x \in B PROVE x \in E
    <3>1. x = <<x[1], x[2]>> /\ x[1] = c /\ x[2] \in 1 .. n
      BY <2>3
    <3>2. x[2] \in 1 .. MaxCopies
      BY <3>1, <1>1, RegistryAssumption
    <3> QED
      BY <3>1, <3>2
  <2> QED
    BY <2>1, <2>2, <2>3
<1>3. A \cap B = {}
  OBVIOUS
<1>4. IsFiniteSet(A) /\ Cardinality(A) = CopiesIn(f, m, R) /\ Cardinality(A) \in Nat
  BY CopiesFinite DEF CopiesIn
<1>5. IsFiniteSet(B) /\ Cardinality(B) = n
  <2>1. IsFiniteSet({c}) /\ Cardinality({c}) = 1
    BY FS_Singleton
  <2> HIDE DEF n
  <2>2. n \in Int /\ 1 \in Int /\ (1 > n => n = 0)
    BY <1>1
  <2>3. IsFiniteSet(1 .. n) /\ Cardinality(1 .. n) = IF 1 > n THEN 0 ELSE n - 1 + 1
    BY <2>2, FS_Interval
  <2>4. Cardinality(1 .. n) = n
    BY <1>1, <2>3
  <2>5. IsFiniteSet(B) /\ Cardinality(B) = Cardinality({c}) * Cardinality(1 .. n)
    BY <2>1, <2>3, FS_Product
  <2>6. 1 * n = n
    BY <1>1
  <2> QED
    BY <2>1, <2>4, <2>5, <2>6
<1>6. Cardinality(A \cap B) = 0
  BY <1>3, FS_EmptySet
<1>7. Cardinality(E) = Cardinality(A) + Cardinality(B) - Cardinality(A \cap B)
  <2> HIDE DEF A, B, E
  <2> QED
    BY <1>2, <1>4, <1>5, FS_Union
<1>8. Cardinality(E) = CopiesIn(f, m, S)
  BY DEF CopiesIn
<1> HIDE DEF A, B, E, R, n
<1>9. CopiesIn(f, m, S) = CopiesIn(f, m, R) + n
  BY <1>1, <1>4, <1>5, <1>6, <1>7, <1>8
<1> QED
  BY <1>9 DEF R, n

\* Other clients' lists do not matter.
LEMMA CopiesSame ==
    ASSUME NEW f, NEW g, NEW m, NEW S, \A c \in S : f[c] = g[c]
    PROVE  CopiesIn(f, m, S) = CopiesIn(g, m, S)
<1>1. {x \in S \X (1 .. MaxCopies) : x[2] <= f[x[1]][m]}
        = {x \in S \X (1 .. MaxCopies) : x[2] <= g[x[1]][m]}
  OBVIOUS
<1> QED
  BY <1>1 DEF CopiesIn

LEMMA CopiesMonotone ==
    ASSUME NEW f, NEW m, NEW T \in SUBSET Clients, NEW S \in SUBSET T
    PROVE  CopiesIn(f, m, S) <= CopiesIn(f, m, T)
<1> DEFINE A == {x \in S \X (1 .. MaxCopies) : x[2] <= f[x[1]][m]}
           B == {x \in T \X (1 .. MaxCopies) : x[2] <= f[x[1]][m]}
<1>1. A \subseteq B
  OBVIOUS
<1>2. IsFiniteSet(B)
  BY CopiesFinite
<1>3. Cardinality(A) <= Cardinality(B)
  <2> HIDE DEF A, B
  <2> QED
    BY <1>1, <1>2, FS_Subset
<1> QED
  BY <1>3 DEF CopiesIn

-----------------------------------------------------------------------------
(* The registry of models. *)

LEMMA LessTyped ==
    ASSUME NEW i \in Nat, NEW j \in Nat
    PROVE  Less(i, j) \in Nat /\ Smaller(i, j) \in Nat
  BY DEF Less, Smaller

LEMMA ReconcileTyped ==
    ASSUME RegistryTypeOK, NEW c \in Clients, NEW new \in Lists,
           NEW np \in Suppliers \cup {NoSupplier}, Reconcile(c, new, np)
    PROVE  /\ count' \in [Supplied -> Nat]
           /\ provs' \in [Supplied -> [Suppliers -> Nat]]
           /\ quota' \in [Supplied -> SUBSET Clients]
           /\ suspended' \in [Supplied -> [Clients -> Reasons \cup {"none"}]]
           /\ supply' \in [Clients -> Lists]
           /\ supplier' \in [Clients -> Suppliers \cup {NoSupplier}]
<1>1. \A m \in Supplied : supply[c][m] \in Nat /\ new[m] \in Nat /\ count[m] \in Nat
  BY RegistryAssumption DEF RegistryTypeOK, Lists
<1>2. count' \in [Supplied -> Nat]
  <2>1. ASSUME NEW m \in Supplied
        PROVE  Counting(m, supply[c][m], new[m]) \in Nat
    <3>1. /\ Less(supply[c][m], new[m]) \in Nat
          /\ Less(new[m], supply[c][m]) \in Nat
      BY <1>1, LessTyped
    <3>2. Less(count[m], Less(supply[c][m], new[m])) \in Nat
      BY <1>1, <3>1, LessTyped
    <3> QED
      BY <3>1, <3>2 DEF Counting
  <2> QED
    BY <2>1 DEF Reconcile
<1>3. provs' \in [Supplied -> [Suppliers -> Nat]]
  <2>1. ASSUME NEW m \in Supplied
        PROVE  Providing(m, supply[c][m], new[m], supplier[c], np) \in [Suppliers -> Nat]
    <3> DEFINE old == supply[c][m]
               moved == IF supplier[c] # np THEN Smaller(old, new[m]) ELSE 0
               taken(p) == IF p = supplier[c] THEN moved + Less(old, new[m]) ELSE 0
               added(p) == IF p = np THEN moved + Less(new[m], old) ELSE 0
    <3>1. moved \in Nat /\ Less(old, new[m]) \in Nat /\ Less(new[m], old) \in Nat
      BY <1>1, LessTyped
    <3>2. \A p \in Suppliers : taken(p) \in Nat /\ added(p) \in Nat
      <4> HIDE DEF moved
      <4> QED
        BY <3>1
    <3>3. \A p \in Suppliers : provs[m][p] \in Nat
      BY DEF RegistryTypeOK
    <3>4. ASSUME NEW p \in Suppliers
          PROVE  Less(provs[m][p], taken(p)) + added(p) \in Nat
      <4> HIDE DEF taken, added
      <4>1. Less(provs[m][p], taken(p)) \in Nat
        BY <3>2, <3>3, LessTyped
      <4> QED
        BY <3>2, <4>1
    <3>5. Providing(m, old, new[m], supplier[c], np)
            = [p \in Suppliers |-> Less(provs[m][p], taken(p)) + added(p)]
      BY DEF Providing
    <3> HIDE DEF taken, added
    <3> QED
      BY <3>4, <3>5
  <2>2. [p \in Suppliers |-> 0] \in [Suppliers -> Nat]
    OBVIOUS
  <2>3. provs' = [m \in Supplied |->
                    IF count'[m] = 0 THEN [p \in Suppliers |-> 0]
                    ELSE Providing(m, supply[c][m], new[m], supplier[c], np)]
    BY DEF Reconcile
  <2> QED
    BY <2>1, <2>2, <2>3
<1>4. quota' \in [Supplied -> SUBSET Clients]
  BY DEF Reconcile, RegistryTypeOK
<1>5. suspended' \in [Supplied -> [Clients -> Reasons \cup {"none"}]]
  <2>1. NoReason \in [Clients -> Reasons \cup {"none"}]
    BY DEF NoReason
  <2>2. \A m \in Supplied :
          [suspended[m] EXCEPT ![c] = "none"] \in [Clients -> Reasons \cup {"none"}]
    BY DEF RegistryTypeOK
  <2> QED
    BY <2>1, <2>2 DEF Reconcile, RegistryTypeOK
<1>6. supply' \in [Clients -> Lists] /\ supplier' \in [Clients -> Suppliers \cup {NoSupplier}]
  BY DEF Reconcile, RegistryTypeOK
<1> QED
  BY <1>2, <1>3, <1>4, <1>5, <1>6

\* The results on their way.
Errands == [client : Clients, model : Supplied, outcome : Outcomes \cup {"none"},
            step : {"upstream", "quota", "suspend"}]

\* The registrations: what RegisterClient and UnregisterClient do.
Registering ==
    \E c \in Clients, new \in Lists, np \in Suppliers \cup {NoSupplier} :
        Reconcile(c, new, np) /\ UNCHANGED inflight

LEMMA RegisteringOnly ==
    ASSUME NEW c \in Clients,
           \/ UnregisterClient(c)
           \/ \E new \in Lists, np \in Suppliers \cup {NoSupplier} : RegisterClient(c, new, np)
    PROVE  Registering
<1>1. Nothing \in Lists
  BY RegistryAssumption DEF Nothing, Lists
<1> QED
  BY <1>1 DEF Registering, UnregisterClient, RegisterClient

\* What is published is a success or a failure with a reason.
Worded == \A w \in Workers :
             inflight[w].step \in {"quota", "suspend"} => inflight[w].outcome \in {"success"} \cup Reasons

LEMMA RegistryTypeStep ==
    RegistryTypeOK /\ Worded /\ [RegistryNext]_registryVars => RegistryTypeOK' /\ Worded'
<1> SUFFICES ASSUME RegistryTypeOK, Worded, [RegistryNext]_registryVars
             PROVE  RegistryTypeOK' /\ Worded'
  OBVIOUS
<1> USE DEF Errands
<1>0. inflight \in [Workers -> {Idle} \cup Errands] /\ Idle \notin Errands
  BY DEF RegistryTypeOK, Idle
<1>1. ASSUME Registering PROVE RegistryTypeOK'
  <2>1. PICK c \in Clients, new \in Lists, np \in Suppliers \cup {NoSupplier} :
           Reconcile(c, new, np) /\ UNCHANGED inflight
    BY <1>1 DEF Registering
  <2>2. inflight' \in [Workers -> {Idle} \cup Errands]
    BY <1>0, <2>1
  <2>3. /\ count' \in [Supplied -> Nat]
        /\ provs' \in [Supplied -> [Suppliers -> Nat]]
        /\ quota' \in [Supplied -> SUBSET Clients]
        /\ suspended' \in [Supplied -> [Clients -> Reasons \cup {"none"}]]
        /\ supply' \in [Clients -> Lists]
        /\ supplier' \in [Clients -> Suppliers \cup {NoSupplier}]
    BY <2>1, ReconcileTyped
  <2> QED
    BY <2>2, <2>3 DEF RegistryTypeOK
<1>2. ASSUME NEW w \in Workers, NEW c \in Clients, NEW m \in Supplied, Start(w, c, m)
      PROVE  RegistryTypeOK'
  <2>1. [client |-> c, model |-> m, outcome |-> "none", step |-> "upstream"] \in Errands
    OBVIOUS
  <2> QED
    BY <1>2, <2>1 DEF Start, RegistryTypeOK, registry, clients
<1>3. ASSUME NEW w \in Workers, NEW o \in Outcomes, Record(w, o)
      PROVE  RegistryTypeOK'
  <2>1. inflight[w] \in Errands
    BY <1>0, <1>3 DEF Record, Idle
  <2>2. [inflight[w] EXCEPT !.outcome = o, !.step = IF o = "other" THEN "suspend" ELSE "quota"]
          \in Errands
    BY <2>1
  <2> QED
    BY <1>0, <1>3, <2>2 DEF Record, RegistryTypeOK, registry, clients
<1>4. ASSUME NEW w \in Workers, PublishQuota(w)
      PROVE  RegistryTypeOK'
  <2>1. inflight[w] \in Errands
    BY <1>0, <1>4 DEF PublishQuota, Idle
  <2>2. [inflight[w] EXCEPT !.step = "suspend"] \in Errands
    BY <2>1
  <2>3. inflight' \in [Workers -> {Idle} \cup Errands]
    BY <1>0, <1>4, <2>2 DEF PublishQuota
  <2>4. quota' \in [Supplied -> SUBSET Clients]
    BY <1>4, <2>1 DEF PublishQuota, RegistryTypeOK
  <2> QED
    BY <1>4, <2>3, <2>4 DEF PublishQuota, RegistryTypeOK, clients
<1>5. ASSUME NEW w \in Workers, PublishSuspend(w)
      PROVE  RegistryTypeOK'
  <2>1. inflight[w] \in Errands
    BY <1>0, <1>5 DEF PublishSuspend, Idle
  <2> DEFINE i == inflight[w]
             mark == IF i.outcome = "success" THEN "none"
                     ELSE IF count[i.model] > 0 /\ suspended[i.model][i.client] = "none"
                          THEN i.outcome ELSE suspended[i.model][i.client]
  <2>2. suspended' = [suspended EXCEPT ![i.model][i.client] = mark]
    BY <1>5 DEF PublishSuspend
  <2>3. mark \in Reasons \cup {"none"}
    <3>1. i.outcome \in {"success"} \cup Reasons
      BY <1>5 DEF Worded, PublishSuspend
    <3>2. i.model \in Supplied /\ i.client \in Clients
      BY <2>1
    <3>3. suspended[i.model][i.client] \in Reasons \cup {"none"}
      BY <3>2 DEF RegistryTypeOK
    <3> HIDE DEF i
    <3> QED
      BY <3>1, <3>3
  <2>4. suspended' \in [Supplied -> [Clients -> Reasons \cup {"none"}]]
    <3> HIDE DEF mark
    <3> QED
      BY <2>1, <2>2, <2>3 DEF RegistryTypeOK
  <2>5. inflight' \in [Workers -> {Idle} \cup Errands]
    BY <1>0, <1>5 DEF PublishSuspend
  <2> QED
    BY <1>5, <2>4, <2>5 DEF PublishSuspend, RegistryTypeOK, clients
<1>6. ASSUME NEW m \in Supplied, NEW c \in Clients, QuotaExpires(m, c)
      PROVE  RegistryTypeOK'
  <2>1. quota' \in [Supplied -> SUBSET Clients]
    BY <1>6 DEF QuotaExpires, RegistryTypeOK
  <2>2. UNCHANGED <<count, provs, suspended, supply, supplier, inflight>>
    BY <1>6 DEF QuotaExpires, clients
  <2> QED
    BY <2>1, <2>2 DEF RegistryTypeOK
<1>7. ASSUME UNCHANGED registryVars PROVE RegistryTypeOK'
  BY <1>7 DEF RegistryTypeOK, registryVars, registry, clients
<1>8. RegistryTypeOK'
  <2>1. ASSUME NEW c \in Clients,
               \/ UnregisterClient(c)
               \/ \E new \in Lists, np \in Suppliers \cup {NoSupplier} : RegisterClient(c, new, np)
        PROVE  RegistryTypeOK'
    BY <2>1, <1>1, RegisteringOnly
  <2> QED
    BY <2>1, <1>2, <1>3, <1>4, <1>5, <1>6, <1>7 DEF RegistryNext, Publish
<1>9. Worded'
  <2>1. ASSUME NEW w \in Workers, NEW o \in Outcomes, Record(w, o)
        PROVE  Worded'
    BY <1>0, <2>1 DEF Record, Worded, Idle, Outcomes
  <2>2. ASSUME NEW w \in Workers, Publish(w)
        PROVE  Worded'
    BY <1>0, <2>2 DEF Publish, PublishQuota, PublishSuspend, Worded, Idle
  <2>3. ASSUME NEW w \in Workers, NEW c \in Clients, NEW m \in Supplied, Start(w, c, m)
        PROVE  Worded'
    BY <1>0, <2>3 DEF Start, Worded, Idle
  <2>4. CASE UNCHANGED inflight
    BY <2>4 DEF Worded
  <2> QED
    BY <2>1, <2>2, <2>3, <2>4
       DEF RegistryNext, RegisterClient, UnregisterClient, QuotaExpires, registryVars
<1> QED
  BY <1>8, <1>9

\* A client's new list leaves every model's count, and its count under every
\* provider, at the copies listed.
LEMMA ReconcileExact ==
    ASSUME RegistryTypeOK, RegistryTypeOK', CountsExact, NEW c \in Clients,
           NEW new \in Lists, NEW np \in Suppliers \cup {NoSupplier},
           Reconcile(c, new, np)
    PROVE  CountsExact'
<1> SUFFICES ASSUME NEW m \in Supplied
             PROVE  /\ count'[m] = CopiesIn(supply', m, Clients)
                    /\ \A p \in Suppliers :
                          provs'[m][p] = CopiesIn(supply', m, {d \in Clients : supplier'[d] = p})
  BY DEF CountsExact, Copies, CopiesIn
<1> DEFINE old == supply[c][m]
           fresh == new[m]
           others == CopiesIn(supply, m, Clients \ {c})
<1>1. supply \in [Clients -> Lists] /\ supply' \in [Clients -> Lists]
  BY DEF RegistryTypeOK
<1>2. old \in Nat /\ fresh \in Nat
  BY <1>1, RegistryAssumption DEF Lists
<1>3. supply'[c] = new /\ \A d \in Clients : d # c => supply'[d] = supply[d]
  BY <1>1 DEF Reconcile
<1>4. supplier'[c] = np /\ \A d \in Clients : d # c => supplier'[d] = supplier[d]
  BY DEF Reconcile, RegistryTypeOK
<1>5. others \in Nat /\ count[m] = others + old
  <2>1. CopiesIn(supply, m, Clients) = others + old
    BY <1>1, CopiesSplit
  <2>2. count[m] = CopiesIn(supply, m, Clients)
    BY DEF CountsExact, Copies, CopiesIn
  <2>3. Clients \ {c} \in SUBSET Clients
    OBVIOUS
  <2>4. others \in Nat
    BY <2>3, CopiesFinite
  <2> QED
    BY <2>1, <2>2, <2>4
<1>6. CopiesIn(supply', m, Clients) = others + fresh
  <2>1. CopiesIn(supply', m, Clients) = CopiesIn(supply', m, Clients \ {c}) + supply'[c][m]
    BY <1>1, CopiesSplit
  <2>2. CopiesIn(supply', m, Clients \ {c}) = others
    BY <1>3, CopiesSame
  <2> QED
    BY <1>3, <2>1, <2>2
<1>7. count'[m] = others + fresh
  <2>1. count'[m] = Counting(m, old, fresh)
    BY DEF Reconcile
  <2> HIDE DEF old, fresh, others
  <2>2. Counting(m, old, fresh) = others + fresh
    BY <1>2, <1>5 DEF Counting, Less
  <2> QED
    BY <2>1, <2>2
<1>8. ASSUME NEW p \in Suppliers
      PROVE  provs'[m][p] = CopiesIn(supply', m, {d \in Clients : supplier'[d] = p})
  <2> DEFINE S == {d \in Clients : supplier[d] = p}
             N == {d \in Clients : supplier'[d] = p}
             rest == CopiesIn(supply, m, S \ {c})
             before == IF supplier[c] = p THEN old ELSE 0
             after == IF np = p THEN fresh ELSE 0
  <2>1. S \ {c} = N \ {c}
    BY <1>4
  <2>2. rest \in Nat /\ rest <= others
    <3>1. S \ {c} \in SUBSET (Clients \ {c}) /\ Clients \ {c} \in SUBSET Clients
      OBVIOUS
    <3> QED
      BY <3>1, CopiesFinite, CopiesMonotone
  <2>3. CopiesIn(supply, m, S) = rest + before
    <3>1. CASE supplier[c] = p
      BY <1>1, <3>1, CopiesSplit
    <3>2. CASE supplier[c] # p
      <4>1. S \ {c} = S
        BY <3>2
      <4>2. CopiesIn(supply, m, S) = rest
        BY <4>1
      <4> HIDE DEF rest, S
      <4> QED
        BY <2>2, <3>2, <4>2
    <3> QED
      BY <3>1, <3>2
  <2>4. CopiesIn(supply', m, N) = rest + after
    <3>1. CopiesIn(supply', m, N \ {c}) = rest
      <4>1. \A d \in N \ {c} : supply'[d] = supply[d]
        BY <1>3
      <4> QED
        BY <2>1, <4>1, CopiesSame
    <3>2. CASE np = p
      <4>1. c \in N
        BY <1>4, <3>2
      <4>2. CopiesIn(supply', m, N) = CopiesIn(supply', m, N \ {c}) + supply'[c][m]
        BY <1>1, <4>1, CopiesSplit
      <4> QED
        BY <1>3, <3>1, <3>2, <4>2
    <3>3. CASE np # p
      <4>1. N \ {c} = N
        BY <1>4, <3>3
      <4> QED
        BY <2>2, <3>1, <3>3, <4>1
    <3> QED
      BY <3>2, <3>3
  <2>5. provs[m][p] = rest + before
    BY <2>3 DEF CountsExact, Copies, CopiesIn
  <2>6. CASE count'[m] = 0
    <3>1. provs'[m][p] = 0
      BY <2>6 DEF Reconcile
    <3>2. rest + after = 0
      <4> HIDE DEF old, fresh, others, rest
      <4> QED
        BY <1>2, <1>5, <1>7, <2>2, <2>6
    <3> QED
      BY <2>4, <3>1, <3>2
  <2>7. CASE count'[m] # 0
    <3>1. provs'[m][p] = Providing(m, old, fresh, supplier[c], np)[p]
      BY <2>7 DEF Reconcile
    <3> HIDE DEF old, fresh, others, rest
    <3>2. Providing(m, old, fresh, supplier[c], np)[p] = rest + after
      BY <1>2, <2>2, <2>5 DEF Providing, Less, Smaller
    <3> QED
      BY <2>4, <3>1, <3>2
  <2> QED
    BY <2>6, <2>7
<1> QED
  BY <1>6, <1>7, <1>8

\* A model's entry takes its marks along, and none is made without an entry.
LEMMA OrphansStep ==
    ASSUME RegistryTypeOK, NoOrphanMarks, [RegistryNext]_registryVars
    PROVE  NoOrphanMarks'
<1> SUFFICES ASSUME NEW m \in Supplied, count'[m] = 0
             PROVE  quota'[m] = {} /\ \A c \in Clients : suspended'[m][c] = "none"
  BY DEF NoOrphanMarks, Reported
<1>0. count[m] = 0 => quota[m] = {} /\ \A c \in Clients : suspended[m][c] = "none"
  BY DEF NoOrphanMarks, Reported
<1>1. CASE Registering
  BY <1>1 DEF Registering, Reconcile, NoReason
<1>2. ASSUME NEW w \in Workers, PublishQuota(w)
      PROVE  quota'[m] = {} /\ \A c \in Clients : suspended'[m][c] = "none"
  BY <1>0, <1>2 DEF PublishQuota, RegistryTypeOK
<1>3. ASSUME NEW w \in Workers, PublishSuspend(w)
      PROVE  quota'[m] = {} /\ \A c \in Clients : suspended'[m][c] = "none"
  BY <1>0, <1>3 DEF PublishSuspend, RegistryTypeOK
<1>4. ASSUME NEW q \in Supplied, NEW c \in Clients, QuotaExpires(q, c)
      PROVE  quota'[m] = {} /\ \A d \in Clients : suspended'[m][d] = "none"
  BY <1>0, <1>4 DEF QuotaExpires, RegistryTypeOK
<1>5. CASE UNCHANGED registry
  BY <1>0, <1>5 DEF registry
<1>6. ASSUME NEW c \in Clients,
             \/ UnregisterClient(c)
             \/ \E new \in Lists, np \in Suppliers \cup {NoSupplier} : RegisterClient(c, new, np)
      PROVE  quota'[m] = {} /\ \A d \in Clients : suspended'[m][d] = "none"
  BY <1>1, <1>6, RegisteringOnly
<1> QED
  BY <1>2, <1>3, <1>4, <1>5, <1>6 DEF RegistryNext, Publish, Start, Record, registryVars

RegistryInv == RegistryTypeOK /\ Worded /\ CountsExact /\ NoOrphanMarks

LEMMA RegistryInvInit == RegistryInit => RegistryInv
<1> SUFFICES ASSUME RegistryInit PROVE RegistryInv
  OBVIOUS
<1>1. Nothing \in Lists
  BY RegistryAssumption DEF Nothing, Lists
<1>2. RegistryTypeOK
  BY <1>1 DEF RegistryInit, RegistryTypeOK, NoReason
<1>3. Worded /\ NoOrphanMarks
  BY DEF RegistryInit, Worded, Idle, NoOrphanMarks, Reported, NoReason
<1>4. ASSUME NEW m \in Supplied, NEW S \in SUBSET Clients
      PROVE  Copies(m, S) = 0
  <2>1. {x \in S \X (1 .. MaxCopies) : x[2] <= supply[x[1]][m]} = {}
    BY RegistryAssumption DEF RegistryInit, Nothing
  <2> QED
    BY <2>1, FS_EmptySet DEF Copies
<1>5. CountsExact
  <2>1. \A m \in Supplied : count[m] = 0 /\ \A p \in Suppliers : provs[m][p] = 0
    BY DEF RegistryInit
  <2> QED
    BY <1>4, <2>1 DEF CountsExact
<1> QED
  BY <1>2, <1>3, <1>5 DEF RegistryInv

LEMMA RegistryInvStep == RegistryInv /\ [RegistryNext]_registryVars => RegistryInv'
<1> SUFFICES ASSUME RegistryInv, [RegistryNext]_registryVars
             PROVE  RegistryInv'
  OBVIOUS
<1>1. RegistryTypeOK /\ RegistryTypeOK' /\ Worded' /\ NoOrphanMarks'
  BY RegistryTypeStep, OrphansStep DEF RegistryInv
<1>2. CASE UNCHANGED <<count, provs, supply, supplier>>
  <2>1. CountsExact'
    BY <1>2 DEF RegistryInv, CountsExact, Copies
  <2> QED
    BY <1>1, <2>1 DEF RegistryInv
<1>3. ASSUME NEW c \in Clients,
             \/ UnregisterClient(c)
             \/ \E new \in Lists, np \in Suppliers \cup {NoSupplier} : RegisterClient(c, new, np)
      PROVE  RegistryInv'
  <2>1. PICK d \in Clients, new \in Lists, np \in Suppliers \cup {NoSupplier} :
           Reconcile(d, new, np)
    BY <1>3, RegisteringOnly DEF Registering
  <2>2. CountsExact'
    BY <1>1, <2>1, ReconcileExact DEF RegistryInv
  <2> QED
    BY <1>1, <2>2 DEF RegistryInv
<1> QED
  BY <1>2, <1>3 DEF RegistryNext, Publish, PublishQuota, PublishSuspend, QuotaExpires,
     Start, Record, registryVars, registry, clients

LEMMA RegistryInvAlways == RegistrySpec => []RegistryInv
  BY RegistryInvInit, RegistryInvStep, PTL DEF RegistrySpec

\* Every variable of the registry keeps its type.
THEOREM RegistryTyped == RegistrySpec => []RegistryTypeOK
<1>1. RegistryInv => RegistryTypeOK
  BY DEF RegistryInv
<1> QED
  BY <1>1, RegistryInvAlways, PTL

\* However lists, copies and providers change, RegisterClient and
\* UnregisterClient leave the counts at what the clients list.
THEOREM CountsNeverDrift == RegistrySpec => []CountsExact
<1>1. RegistryInv => CountsExact
  BY DEF RegistryInv
<1> QED
  BY <1>1, RegistryInvAlways, PTL

\* The quota mark and the suspension that MarkResult publishes after its lock
\* is released never outlive the model's entry, whenever they arrive: there are none
\* once no client is registered for the model.  Of single clients it says nothing.
THEOREM LateMarksAreDropped == RegistrySpec => []NoOrphanMarks
<1>1. RegistryInv => NoOrphanMarks
  BY DEF RegistryInv
<1> QED
  BY <1>1, RegistryInvAlways, PTL

-----------------------------------------------------------------------------
(* The registry's lock under a request for "auto". *)

CallerSteps == {"idle", "list", "listed", "scan", "counted", "found", "done"}
WriterSteps == {"idle", "locking", "writing"}

\* The read locks a caller holds at each step of GetFirstAvailableModel: the
\* outer one throughout, and one more inside the functions it calls.
Nesting(s) ==
    IF s \in {"idle", "done"} THEN 0 ELSE IF s \in {"list", "scan", "found"} THEN 1 ELSE 2

LEMMA NestingIs ==
    /\ Nesting("idle") = 0 /\ Nesting("done") = 0
    /\ Nesting("list") = 1 /\ Nesting("scan") = 1 /\ Nesting("found") = 1
    /\ Nesting("listed") = 2 /\ Nesting("counted") = 2
    /\ \A s : Nesting(s) \in 0 .. 2
  BY DEF Nesting

\* A caller goes from one step to another, and has the locks of the latter.
Moves(c, from, to) ==
    /\ step[c] = from /\ step' = [step EXCEPT ![c] = to]
    /\ held' = [held EXCEPT ![c] = Nesting(to)]
    /\ Nesting(to) > Nesting(from) => owner = Nil

Places ==
    /\ step \in [Callers \cup Writers -> CallerSteps \cup WriterSteps]
    /\ \A w \in Writers : step[w] # "idle" => written[w] < Writes
    /\ \A c \in Callers : step[c] \in CallerSteps
    /\ \A w \in Writers : step[w] \in WriterSteps

\* Readers and a writer exclude each other.
Exclusion ==
    /\ \A c \in Callers : held[c] = Nesting(step[c])
    /\ \A w \in Writers : step[w] = "writing" <=> owner = w
    /\ owner # Nil => \A c \in Callers : held[c] = 0

\* A model found with a client keeps it while the caller holds the lock.
FoundIsUp ==
    \A c \in Callers :
        /\ step[c] = "counted" => answer[c] = Nil \/ state[answer[c]] = "up"
        /\ step[c] = "found" => answer[c] \in Resolvable /\ state[answer[c]] = "up"

LockInv == LockTypeOK /\ Places /\ Exclusion /\ FoundIsUp

LEMMA CallerMoves ==
    ASSUME LockInv, NEW c \in Callers, CallerStep(c)
    PROVE  \E from \in CallerSteps, to \in CallerSteps : Moves(c, from, to)
<1>0. held[c] = Nesting(step[c]) /\ held[c] \in 0 .. 2
  BY DEF LockInv, Exclusion, LockTypeOK
<1>1. CASE EnterFirst(c)
  <2>1. /\ step[c] = "idle" /\ step' = [step EXCEPT ![c] = "list"]
        /\ held' = [held EXCEPT ![c] = held[c] + 1] /\ owner = Nil
    BY <1>1 DEF EnterFirst, RLock
  <2>2. held[c] + 1 = Nesting("list")
    BY <1>0, <2>1, NestingIs
  <2>3. Moves(c, "idle", "list")
    BY <2>1, <2>2 DEF Moves
  <2> QED
    BY <2>3 DEF CallerSteps
<1>2. CASE ListModels(c)
  <2>1. /\ step[c] = "list" /\ step' = [step EXCEPT ![c] = "listed"]
        /\ held' = [held EXCEPT ![c] = held[c] + 1] /\ owner = Nil
    BY <1>2 DEF ListModels, RLock
  <2>2. held[c] + 1 = Nesting("listed")
    BY <1>0, <2>1, NestingIs
  <2>3. Moves(c, "list", "listed")
    BY <2>1, <2>2 DEF Moves
  <2> QED
    BY <2>3 DEF CallerSteps
<1>3. CASE ListDone(c)
  <2>1. /\ step[c] = "listed" /\ step' = [step EXCEPT ![c] = "scan"]
        /\ held' = [held EXCEPT ![c] = held[c] - 1]
    BY <1>3 DEF ListDone, RUnlock
  <2>2. held[c] - 1 = Nesting("scan") /\ ~(Nesting("scan") > Nesting("listed"))
    BY <1>0, <2>1, NestingIs
  <2>3. Moves(c, "listed", "scan")
    BY <2>1, <2>2 DEF Moves
  <2> QED
    BY <2>3 DEF CallerSteps
<1>4. CASE Count(c)
  <2>1. /\ step[c] = "scan" /\ step' = [step EXCEPT ![c] = "counted"]
        /\ held' = [held EXCEPT ![c] = held[c] + 1] /\ owner = Nil
    BY <1>4 DEF Count, RLock
  <2>2. held[c] + 1 = Nesting("counted")
    BY <1>0, <2>1, NestingIs
  <2>3. Moves(c, "scan", "counted")
    BY <2>1, <2>2 DEF Moves
  <2> QED
    BY <2>3 DEF CallerSteps
<1>5. CASE Counted(c)
  <2>1. PICK to \in {"scan", "found"} :
           /\ step[c] = "counted" /\ step' = [step EXCEPT ![c] = to]
           /\ held' = [held EXCEPT ![c] = held[c] - 1]
    BY <1>5 DEF Counted, RUnlock
  <2>2. held[c] - 1 = Nesting(to) /\ ~(Nesting(to) > Nesting("counted"))
    BY <1>0, <2>1, NestingIs
  <2>3. Moves(c, "counted", to)
    BY <2>1, <2>2 DEF Moves
  <2> QED
    BY <2>3 DEF CallerSteps
<1>6. CASE Return(c)
  <2>1. PICK from \in {"scan", "found"} :
           /\ step[c] = from /\ step' = [step EXCEPT ![c] = "done"]
           /\ held' = [held EXCEPT ![c] = held[c] - 1]
    BY <1>6 DEF Return, RUnlock
  <2>2. held[c] - 1 = Nesting("done") /\ ~(Nesting("done") > Nesting(from))
    BY <1>0, <2>1, NestingIs
  <2>3. Moves(c, from, "done")
    BY <2>1, <2>2 DEF Moves
  <2> QED
    BY <2>3 DEF CallerSteps
<1> QED
  BY <1>1, <1>2, <1>3, <1>4, <1>5, <1>6 DEF CallerStep

LEMMA CallerStepKeeps ==
    ASSUME LockInv, NEW c \in Callers, CallerStep(c)
    PROVE  LockInv'
<1>0. LockTypeOK /\ Places /\ Exclusion /\ FoundIsUp
  BY DEF LockInv
<1> USE <1>0
<1>1. UNCHANGED <<state, waiting, owner, written>>
  BY DEF CallerStep, EnterFirst, ListModels, ListDone, Count, Counted, Return
<1>3. /\ list' \in [Callers -> SUBSET Resolvable]
      /\ answer' \in [Callers -> Resolvable \cup {Nil}]
      /\ \A d \in Callers : d # c => answer'[d] = answer[d]
  <2>1. CASE Count(c)
    <3>1. PICK m \in list[c] :
             /\ list' = [list EXCEPT ![c] = @ \ {m}]
             /\ answer' = [answer EXCEPT ![c] = IF state[m] = "up" THEN m ELSE Nil]
      BY <2>1 DEF Count
    <3>2. m \in Resolvable
      BY DEF LockTypeOK
    <3> QED
      BY <3>1, <3>2 DEF LockTypeOK
  <2>2. CASE ListModels(c)
    BY <2>2 DEF LockTypeOK, ListModels
  <2>3. CASE UNCHANGED <<list, answer>>
    BY <2>3 DEF LockTypeOK
  <2> QED
    BY <2>1, <2>2, <2>3 DEF CallerStep, EnterFirst, ListDone, Counted, Return
<1>4. PICK from \in CallerSteps, to \in CallerSteps : Moves(c, from, to)
  BY CallerMoves
<1>5. step'[c] = to /\ held'[c] = Nesting(to)
  BY <1>4 DEF Moves, Places, LockTypeOK
<1>6. /\ \A p \in Callers \cup Writers : p # c => step'[p] = step[p]
      /\ \A d \in Callers : d # c => held'[d] = held[d]
      /\ \A w \in Writers : w # c
  BY <1>4, LockAssumption DEF Moves, Places, LockTypeOK
<1>7. Places'
  BY <1>1, <1>4, <1>5, <1>6 DEF Moves, Places
<1>8. LockTypeOK'
  <2>1. Nesting(to) \in 0 .. 2
    BY NestingIs
  <2>2. held' \in [Callers -> 0 .. 2]
    BY <1>4, <2>1 DEF Moves, LockTypeOK
  <2> QED
    BY <1>1, <1>3, <1>7, <2>2 DEF LockTypeOK, Places, CallerSteps, WriterSteps
<1>9. Exclusion'
  <2>1. owner # Nil => held'[c] = 0
    <3>1. owner # Nil => held[c] = 0 /\ held[c] = Nesting(from)
      BY <1>4 DEF Moves, Exclusion
    <3>2. Nesting(to) \in 0 .. 2
      BY NestingIs
    <3> QED
      BY <1>4, <1>5, <3>1, <3>2 DEF Moves
  <2> QED
    BY <1>1, <1>5, <1>6, <2>1 DEF Exclusion
<1>10. FoundIsUp'
  <2>1. ASSUME NEW d \in Callers, d # c
        PROVE  /\ step'[d] = "counted" => answer'[d] = Nil \/ state[answer'[d]] = "up"
               /\ step'[d] = "found" => answer'[d] \in Resolvable /\ state[answer'[d]] = "up"
    BY <1>3, <1>6, <2>1 DEF FoundIsUp
  <2>2. CASE Count(c)
    <3>1. PICK m \in Resolvable :
             answer' = [answer EXCEPT ![c] = IF state[m] = "up" THEN m ELSE Nil]
      BY <2>2 DEF Count, LockTypeOK
    <3>2. step'[c] = "counted"
      BY <2>2 DEF Count, Places
    <3>3. answer'[c] = Nil \/ state[answer'[c]] = "up"
      BY <3>1 DEF LockTypeOK
    <3> QED
      BY <1>1, <2>1, <3>2, <3>3 DEF FoundIsUp
  <2>3. CASE Counted(c)
    <3>1. /\ step'[c] = IF answer[c] = Nil THEN "scan" ELSE "found"
          /\ step[c] = "counted" /\ answer' = answer
      BY <2>3 DEF Counted, Places
    <3>2. answer[c] \in Resolvable \cup {Nil}
      BY DEF LockTypeOK
    <3>3. step'[c] = "found" => answer[c] \in Resolvable /\ state[answer[c]] = "up"
      BY <3>1, <3>2 DEF FoundIsUp
    <3> QED
      BY <1>1, <2>1, <3>1, <3>3 DEF FoundIsUp
  <2>4. CASE EnterFirst(c) \/ ListModels(c) \/ ListDone(c) \/ Return(c)
    <3>1. step'[c] \notin {"counted", "found"}
      BY <2>4 DEF EnterFirst, ListModels, ListDone, Return, Places
    <3> QED
      BY <1>1, <2>1, <3>1 DEF FoundIsUp
  <2> QED
    BY <2>2, <2>3, <2>4 DEF CallerStep
<1> QED
  BY <1>7, <1>8, <1>9, <1>10 DEF LockInv

LEMMA WriterStepKeeps ==
    ASSUME LockInv, NEW w \in Writers, WriterStep(w)
    PROVE  LockInv'
<1>0. LockTypeOK /\ Places /\ Exclusion /\ FoundIsUp
  BY DEF LockInv
<1> USE <1>0
<1>1. UNCHANGED <<held, list, answer>>
  BY DEF WriterStep, Announce, Acquire, Write
<1>2. /\ \A c \in Callers : step'[c] = step[c]
      /\ \A v \in Writers : v # w => step'[v] = step[v]
  BY LockAssumption DEF WriterStep, Announce, Acquire, Write, Places
<1>3. ASSUME NEW s \in WriterSteps, step' = [step EXCEPT ![w] = s],
             written' \in [Writers -> 0 .. Writes],
             s # "idle" => written'[w] < Writes,
             \A v \in Writers : v # w => written'[v] = written[v]
      PROVE  Places'
  <2>1. step'[w] = s
    BY <1>3 DEF Places
  <2>2. step' \in [Callers \cup Writers -> CallerSteps \cup WriterSteps]
    BY <1>3 DEF Places
  <2> QED
    BY <1>2, <1>3, <2>1, <2>2 DEF Places
<1>4. CASE Announce(w)
  <2>1. /\ step' = [step EXCEPT ![w] = "locking"] /\ step'[w] = "locking" /\ step[w] = "idle"
        /\ UNCHANGED <<state, owner, written>> /\ waiting' = waiting \cup {w}
        /\ written[w] < Writes
    BY <1>4 DEF Announce, Places
  <2>2. Places'
    BY <1>3, <2>1 DEF WriterSteps, LockTypeOK
  <2>3. LockTypeOK'
    BY <1>1, <2>1, <2>2 DEF LockTypeOK, Places, CallerSteps, WriterSteps
  <2>4. Exclusion'
    BY <1>1, <1>2, <2>1 DEF Exclusion
  <2>5. FoundIsUp'
    BY <1>1, <1>2, <2>1 DEF FoundIsUp
  <2> QED
    BY <2>2, <2>3, <2>4, <2>5 DEF LockInv
<1>5. CASE Acquire(w)
  <2>1. /\ step' = [step EXCEPT ![w] = "writing"] /\ step'[w] = "writing" /\ step[w] = "locking"
        /\ owner = Nil /\ owner' = w
        /\ UNCHANGED <<state, written>> /\ waiting' = waiting \ {w}
        /\ \A c \in Callers : held[c] = 0
    BY <1>5 DEF Acquire, Places
  <2>2. Places'
    BY <1>3, <2>1 DEF Places, WriterSteps, LockTypeOK
  <2>3. LockTypeOK'
    BY <1>1, <2>1, <2>2 DEF LockTypeOK, Places, CallerSteps, WriterSteps
  <2>4. Exclusion'
    BY <1>1, <1>2, <2>1, LockAssumption DEF Exclusion
  <2>5. FoundIsUp'
    BY <1>1, <1>2, <2>1 DEF FoundIsUp
  <2> QED
    BY <2>2, <2>3, <2>4, <2>5 DEF LockInv
<1>6. CASE Write(w)
  <2>1. /\ step' = [step EXCEPT ![w] = "idle"] /\ step'[w] = "idle" /\ step[w] = "writing"
        /\ owner' = Nil /\ UNCHANGED waiting
        /\ written' = [written EXCEPT ![w] = written[w] + 1]
    BY <1>6 DEF Write, Places
  <2>2. owner = w /\ \A c \in Callers : held[c] = 0
    BY <2>1, LockAssumption DEF Exclusion
  <2>3. \A c \in Callers : step[c] \notin {"counted", "found"}
    BY <2>2, NestingIs DEF Exclusion
  <2>4. state' \in [Resolvable -> {"up", "cooling", "gone"}]
    <3>1. PICK m \in Resolvable, s \in {"up", "cooling", "gone"} : state' = [state EXCEPT ![m] = s]
      BY <1>6 DEF Write
    <3> QED
      BY <3>1 DEF LockTypeOK
  <2>5. written' \in [Writers -> 0 .. Writes]
    <3>1. written \in [Writers -> 0 .. Writes] /\ written[w] < Writes
      BY <2>1 DEF LockTypeOK, Places
    <3>2. written[w] + 1 \in 0 .. Writes
      BY <3>1, LockAssumption
    <3> QED
      BY <2>1, <3>1, <3>2
  <2>6. Places'
    <3>1. \A v \in Writers : v # w => written'[v] = written[v]
      BY <2>1 DEF LockTypeOK
    <3> QED
      BY <1>3, <2>1, <2>5, <3>1 DEF WriterSteps
  <2>7. LockTypeOK'
    BY <1>1, <2>1, <2>4, <2>5, <2>6 DEF LockTypeOK, Places, CallerSteps, WriterSteps
  <2>8. Exclusion'
    BY <1>1, <1>2, <2>1, <2>2, LockAssumption DEF Exclusion
  <2>9. FoundIsUp'
    BY <1>1, <1>2, <2>3 DEF FoundIsUp
  <2> QED
    BY <2>6, <2>7, <2>8, <2>9 DEF LockInv
<1> QED
  BY <1>4, <1>5, <1>6 DEF WriterStep

LEMMA LockInvInit == LockInit => LockInv
<1> SUFFICES ASSUME LockInit PROVE LockInv
  OBVIOUS
<1>1. Places
  BY DEF LockInit, Places, CallerSteps, WriterSteps
<1>2. LockTypeOK
  BY <1>1, LockAssumption DEF LockInit, LockTypeOK
<1>3. Exclusion
  BY NestingIs, LockAssumption DEF LockInit, Exclusion
<1>4. FoundIsUp
  BY DEF LockInit, FoundIsUp
<1> QED
  BY <1>1, <1>2, <1>3, <1>4 DEF LockInv

LEMMA LockInvAlways == LockSpec => []LockInv
<1>1. LockInv /\ [LockNext]_lockVars => LockInv'
  <2>1. LockInv /\ UNCHANGED lockVars => LockInv'
    BY DEF LockInv, LockTypeOK, Places, Exclusion, FoundIsUp, lockVars
  <2> QED
    BY <2>1, CallerStepKeeps, WriterStepKeeps DEF LockNext
<1> QED
  BY <1>1, LockInvInit, PTL DEF LockSpec

\* Every variable of the lock keeps its type: no more than two read locks are
\* nested, and none is released that is not held.
THEOREM LockTyped == LockSpec => []LockTypeOK
<1>1. LockInv => LockTypeOK
  BY DEF LockInv
<1> QED
  BY <1>1, LockInvAlways, PTL

\* The model GetFirstAvailableModel is about to return still has an available
\* client, whatever the writers do: they are kept out by its outer read lock
\* from the count that found the model until the return.
THEOREM FoundStaysAvailable == LockSpec => []AnswerStillAvailable
<1>1. LockInv => AnswerStillAvailable
  BY DEF LockInv, FoundIsUp, AnswerStillAvailable
<1> QED
  BY <1>1, LockInvAlways, PTL

-----------------------------------------------------------------------------
(* The numbers a cooldown is made of. *)

LEMMA EarliestIs ==
    ASSUME NEW T \in SUBSET Nat, T # {}
    PROVE  Earliest(T) \in T /\ \A u \in T : Earliest(T) <= u
<1>1. \E t \in T : \A u \in T : ~(<<u, t>> \in OpToRel(<, Nat))
  BY NatLessThanWellFounded, WFMin
<1>2. PICK t \in T : \A u \in T : ~(<<u, t>> \in OpToRel(<, Nat))
  BY <1>1
<1>3. ASSUME NEW u \in T PROVE t <= u
  <2>1. u \in Nat /\ t \in Nat
    OBVIOUS
  <2>2. ~(u < t)
    <3>1. ~(<<u, t>> \in {ss \in Nat \X Nat : ss[1] < ss[2]})
      BY <1>2 DEF OpToRel
    <3> QED
      BY <2>1, <3>1
  <2> QED
    BY <2>1, <2>2
<1>4. \E v \in T : \A u \in T : v <= u
  BY <1>3
<1> QED
  BY <1>4 DEF Earliest

LEMMA HighestIs ==
    ASSUME NEW T \in SUBSET Nat, T # {}, NEW n \in Nat, \A t \in T : t <= n
    PROVE  Highest(T) \in T /\ \A u \in T : u <= Highest(T)
<1> DEFINE D == {n - t : t \in T}
<1>1. D \in SUBSET Nat /\ D # {}
  <2>1. ASSUME NEW t \in T PROVE n - t \in Nat
    <3>1. t \in Nat /\ t <= n
      OBVIOUS
    <3> QED
      BY <3>1
  <2> QED
    BY <2>1
<1>2. Earliest(D) \in D /\ \A d \in D : Earliest(D) <= d
  <2> HIDE DEF D
  <2> QED
    BY <1>1, EarliestIs
<1>3. PICK t \in T : Earliest(D) = n - t
  BY <1>2
<1>4. \A u \in T : n - u \in D
  OBVIOUS
<1>5. \A u \in T : n - t <= n - u
  BY <1>2, <1>3, <1>4
<1>6. \A u \in T : u <= t
  BY <1>5
<1>7. \E v \in T : \A u \in T : v >= u
  BY <1>6
<1> HIDE DEF D
<1> QED
  BY <1>7 DEF Highest

\* The cooldowns of fixed length.
Lengths == {Unauthorized, Payment, NotFound, Transient, Transport, Day, BackoffMax}

LEMMA MaxBlockIs ==
    /\ MaxBlock \in Nat
    /\ \A d \in Lengths \cup RetryAfters : d <= MaxBlock
<1> DEFINE T == Lengths \cup RetryAfters
<1>1. Lengths \subseteq Nat /\ RetryAfters \subseteq Nat
  BY CooldownAssumption DEF Lengths
<1>2. \E n \in Nat : \A d \in RetryAfters : d <= n
  BY <1>1, CooldownAssumption
<1>3. PICK n \in Nat : \A d \in RetryAfters : d <= n
  BY <1>2
<1> DEFINE b == n + Unauthorized + Payment + NotFound + Transient + Transport + Day + BackoffMax
<1>4. b \in Nat /\ n <= b /\ \A d \in Lengths : d <= b
  <2>1. /\ Unauthorized \in Nat /\ Payment \in Nat /\ NotFound \in Nat /\ Transient \in Nat
        /\ Transport \in Nat /\ Day \in Nat /\ BackoffMax \in Nat
    BY CooldownAssumption
  <2> QED
    BY <2>1 DEF Lengths
<1>5. \A t \in T : t <= b
  <2> HIDE DEF b
  <2> QED
    BY <1>1, <1>3, <1>4
<1>6. T \in SUBSET Nat /\ T # {}
  BY <1>1 DEF Lengths
<1>7. Highest(T) \in T /\ \A u \in T : u <= Highest(T)
  <2> HIDE DEF b, T
  <2> QED
    BY <1>4, <1>5, <1>6, HighestIs
<1> QED
  BY <1>1, <1>7 DEF MaxBlock, Lengths

\* The next midnight is at most a day away.
LEMMA MidnightIs ==
    ASSUME now \in Nat
    PROVE  NextMidnight \in Nat /\ NextMidnight > now /\ NextMidnight <= now + Day
<1>1. Day \in Nat \ {0}
  BY CooldownAssumption
<1>2. /\ now \div Day \in Nat /\ now % Day \in 0 .. Day - 1
      /\ now = Day * (now \div Day) + (now % Day)
  BY <1>1
<1>3. (now \div Day + 1) * Day = Day * (now \div Day) + Day
  BY <1>1, <1>2
<1>4. Day * (now \div Day) \in Int
  BY <1>1, <1>2
<1> QED
  BY <1>1, <1>2, <1>3, <1>4 DEF NextMidnight

\* The level stays one whose backoff can be computed, and never falls.
LEMMA BackoffIs ==
    ASSUME NEW n \in 0 .. MaxLevel
    PROVE  /\ Backoff(n).delay \in 0 .. BackoffMax
           /\ Backoff(n).level \in 0 .. MaxLevel
           /\ n <= Backoff(n).level
<1> DEFINE d == BackoffBase * Pow2[n]
<1>1. BackoffBase \in Nat /\ BackoffMax \in Nat /\ MaxLevel \in Nat
  BY CooldownAssumption
<1>2. Pow2[n] \in Nat
  BY CooldownAssumption
<1>3. d \in Nat
  BY <1>1, <1>2
<1>4. d < BackoffMax => n < MaxLevel
  BY <1>1, CooldownAssumption
<1>5. CASE CoolingDisabled
  BY <1>1, <1>5 DEF Backoff
<1>6. CASE ~CoolingDisabled /\ d >= BackoffMax
  BY <1>1, <1>6 DEF Backoff
<1>7. CASE ~CoolingDisabled /\ ~(d >= BackoffMax)
  <2>1. Backoff(n) = [delay |-> d, level |-> n + 1]
    BY <1>7 DEF Backoff
  <2> HIDE DEF d
  <2> QED
    BY <1>1, <1>3, <1>4, <1>7, <2>1
<1> QED
  BY <1>5, <1>6, <1>7

-----------------------------------------------------------------------------
(* What updateAggregatedAvailability makes of the states of the models. *)

StateType == [present : BOOLEAN, unavailable : BOOLEAN, status : {"active", "error"},
              retry : Times, err : BOOLEAN, quota : QuotaType]
AuthType == [unavailable : BOOLEAN, status : {"active", "error"}, retry : Times,
             err : BOOLEAN, quota : QuotaType]
StatesTyped(st) == st \in [Graded -> StateType] /\ \A m \in Graded : ~st[m].present => st[m] = Fresh

LEMMA FreshTyped ==
    /\ NoQuota \in QuotaType /\ Fresh \in StateType /\ Active \in StateType
    /\ FreshAuth \in AuthType
<1>1. NoQuota \in QuotaType
  BY CooldownAssumption DEF NoQuota, QuotaType, Times
<1>2. Fresh \in StateType /\ FreshAuth \in AuthType
  BY <1>1 DEF Fresh, FreshAuth, StateType, AuthType, Times
<1>3. Active \in StateType
  BY <1>2 DEF Active, StateType
<1> QED
  BY <1>1, <1>2, <1>3

\* What has run out stops blocking, and nothing else changes.
LEMMA ExpireIs ==
    ASSUME now \in Nat, NEW s \in StateType
    PROVE  /\ Expire(s) \in StateType
           /\ Expire(s).quota = s.quota /\ Expire(s).err = s.err
           /\ Expire(s).present = s.present /\ Expire(s).status = s.status
           /\ Expire(s).unavailable /\ Expire(s).retry # 0 => Expire(s).retry > now
           /\ Waiting(Expire(s)) <=> Waiting(s)
           /\ Waiting(s) => Expire(s) = s
<1>1. s.retry \in Nat /\ s.unavailable \in BOOLEAN
  BY DEF StateType, Times
<1>2. CASE s.unavailable /\ s.retry # 0 /\ s.retry <= now
  <2>1. Expire(s) = [s EXCEPT !.unavailable = FALSE, !.retry = 0]
    BY <1>2 DEF Expire
  <2>2. Expire(s) \in StateType
    <3>1. 0 \in Times /\ FALSE \in BOOLEAN
      BY DEF Times
    <3> QED
      BY <2>1, <3>1 DEF StateType
  <2>3. /\ Expire(s).quota = s.quota /\ Expire(s).err = s.err
        /\ Expire(s).present = s.present /\ Expire(s).status = s.status
        /\ ~Expire(s).unavailable
    BY <2>1 DEF StateType
  <2>4. ~Waiting(s)
    BY <1>1, <1>2 DEF Waiting
  <2> QED
    BY <2>2, <2>3, <2>4 DEF Waiting
<1>3. CASE ~(s.unavailable /\ s.retry # 0 /\ s.retry <= now)
  <2>1. Expire(s) = s
    BY <1>3 DEF Expire
  <2> QED
    BY <1>1, <1>3, <2>1
<1> QED
  BY <1>2, <1>3

Expired(st) == [m \in Graded |-> IF st[m].present THEN Expire(st[m]) ELSE st[m]]

LEMMA ExpiredIs ==
    ASSUME now \in Nat, NEW st, StatesTyped(st)
    PROVE  /\ StatesTyped(Expired(st)) /\ Known(Expired(st)) = Known(st)
           /\ \A m \in Graded : /\ Expired(st)[m] = Expire(st[m])
                                /\ Expired(st)[m].quota = st[m].quota
                                /\ Expired(st)[m].err = st[m].err
<1>1. ASSUME NEW m \in Graded
      PROVE  Expired(st)[m] = Expire(st[m])
  BY DEF Expired, StatesTyped, Expire, Fresh
<1>2. ASSUME NEW m \in Graded
      PROVE  /\ Expired(st)[m] \in StateType
             /\ Expired(st)[m].present = st[m].present
             /\ Expired(st)[m].quota = st[m].quota
             /\ Expired(st)[m].err = st[m].err
             /\ ~st[m].present => Expired(st)[m] = Fresh
  <2>1. st[m] \in StateType /\ (~st[m].present => st[m] = Fresh)
    BY DEF StatesTyped
  <2>2. ~st[m].present => Expired(st)[m] = Fresh
    BY <2>1 DEF Expired
  <2> QED
    BY <1>1, <2>1, <2>2, ExpireIs
<1>3. Expired(st) \in [Graded -> StateType]
  <2>1. Expired(st) = [m \in Graded |-> Expired(st)[m]]
    BY DEF Expired
  <2> QED
    BY <1>2, <2>1
<1>4. StatesTyped(Expired(st))
  BY <1>2, <1>3 DEF StatesTyped
<1>5. Known(Expired(st)) = Known(st)
  BY <1>2 DEF Known
<1> QED
  BY <1>1, <1>2, <1>4, <1>5

\* The credential's own block is that of its models, at the time it is computed.
AgreedWith(a, st) ==
    IF a.unavailable
    THEN /\ \A m \in Known(st) : st[m].unavailable /\ a.retry <= st[m].retry
         /\ \E m \in Known(st) : a.retry = st[m].retry /\ a.retry # 0
    ELSE \E m \in Known(st) : ~st[m].unavailable \/ st[m].retry = 0

LEMMA AggregateAuthIs ==
    ASSUME now \in Nat, NEW st, StatesTyped(st), NEW a \in AuthType
    PROVE  /\ AggregateAuth(a, st) \in AuthType
           /\ AggregateAuth(a, st).status = a.status
           /\ AggregateAuth(a, st).unavailable <=> \A m \in Known(st) : Waiting(st[m])
           /\ AggregateAuth(a, st).unavailable /\ Known(st) # {} =>
                /\ \A m \in Known(st) : AggregateAuth(a, st).retry <= st[m].retry
                /\ \E m \in Known(st) : AggregateAuth(a, st).retry = st[m].retry
<1> DEFINE blocked == {m \in Known(st) : Waiting(st[m])}
           over == {m \in Known(st) : st[m].quota.exceeded}
           all == blocked = Known(st)
           times == {st[m].retry : m \in blocked}
           recovers == {st[m].quota.recover : m \in over} \ {0}
           levels == {st[m].quota.level : m \in over}
           r == IF all THEN Earliest(times) ELSE 0
           q == IF over = {} THEN NoQuota
                ELSE [exceeded |-> TRUE, recover |-> Earliest(recovers), level |-> Highest(levels)]
<1>1. AggregateAuth(a, st) = [a EXCEPT !.unavailable = all, !.retry = r, !.quota = q]
  BY DEF AggregateAuth
<1>2. \A m \in Known(st) : /\ st[m] \in StateType /\ st[m].retry \in Nat
                           /\ st[m].quota.recover \in Nat /\ st[m].quota.level \in 0 .. MaxLevel
  BY DEF Known, StatesTyped, StateType, QuotaType, Times
<1>3. times \in SUBSET Nat
  BY <1>2
<1>4. r \in Nat
  <2> HIDE DEF times, all
  <2>1. times # {} => Earliest(times) \in Nat
    BY <1>3, EarliestIs
  <2>2. times = {} => Earliest(times) = 0
    BY DEF Earliest
  <2> QED
    BY <2>1, <2>2
<1>5. q \in QuotaType
  <2>1. recovers \in SUBSET Nat
    BY <1>2
  <2>2. levels \in SUBSET Nat /\ \A l \in levels : l \in 0 .. MaxLevel
    BY <1>2
  <2>3. over # {} => levels # {}
    OBVIOUS
  <2> HIDE DEF recovers, levels, over
  <2>4. Earliest(recovers) \in Nat
    <3>1. recovers # {} => Earliest(recovers) \in Nat
      BY <2>1, EarliestIs
    <3>2. recovers = {} => Earliest(recovers) = 0
      BY DEF Earliest
    <3> QED
      BY <3>1, <3>2
  <2>5. over # {} => Highest(levels) \in 0 .. MaxLevel
    <3>1. MaxLevel \in Nat /\ \A l \in levels : l <= MaxLevel
      BY <2>2, CooldownAssumption
    <3> QED
      BY <2>2, <2>3, <3>1, HighestIs
  <2> QED
    BY <2>4, <2>5, FreshTyped DEF QuotaType, Times
<1>6. AggregateAuth(a, st) \in AuthType
  <2> HIDE DEF all, r, q
  <2>1. all \in BOOLEAN
    BY DEF all
  <2> QED
    BY <1>1, <1>4, <1>5, <2>1 DEF AuthType, Times
<1>7. /\ AggregateAuth(a, st).unavailable = all /\ AggregateAuth(a, st).retry = r
      /\ AggregateAuth(a, st).status = a.status
  <2> HIDE DEF all, r, q
  <2> QED
    BY <1>1 DEF AuthType
<1>8. all <=> \A m \in Known(st) : Waiting(st[m])
  OBVIOUS
<1>9. ASSUME all, Known(st) # {}
      PROVE  (\A m \in Known(st) : r <= st[m].retry) /\ \E m \in Known(st) : r = st[m].retry
  <2>1. times # {} /\ \A m \in Known(st) : st[m].retry \in times
    BY <1>9
  <2>2. r = Earliest(times)
    BY <1>9
  <2>3. \A t \in times : \E m \in Known(st) : t = st[m].retry
    OBVIOUS
  <2> HIDE DEF times, all, r
  <2>4. Earliest(times) \in times /\ \A t \in times : Earliest(times) <= t
    BY <1>3, <2>1, EarliestIs
  <2> QED
    BY <2>1, <2>2, <2>3, <2>4
<1> QED
  BY <1>6, <1>7, <1>8, <1>9

LEMMA AggregateIs ==
    ASSUME now \in Nat, NEW st, StatesTyped(st), NEW a \in AuthType, Aggregate(st, a)
    PROVE  /\ states' = Expired(st) /\ StatesTyped(states') /\ Known(states') = Known(st)
           /\ auth' \in AuthType /\ auth'.status = a.status
           /\ Known(st) # {} => AgreedWith(auth', states')
<1>1. states' = Expired(st) /\ auth' = AggregateAuth(a, states')
  BY DEF Aggregate, Expired
<1>2. StatesTyped(states') /\ Known(states') = Known(st)
  BY <1>1, ExpiredIs
<1>3. /\ auth' \in AuthType /\ auth'.status = a.status
      /\ auth'.unavailable <=> \A m \in Known(states') : Waiting(states'[m])
      /\ auth'.unavailable /\ Known(states') # {} =>
           /\ \A m \in Known(states') : auth'.retry <= states'[m].retry
           /\ \E m \in Known(states') : auth'.retry = states'[m].retry
  <2> DEFINE new == states'
  <2>1. StatesTyped(new) /\ auth' = AggregateAuth(a, new)
    BY <1>1, <1>2
  <2> HIDE DEF new
  <2>2. /\ auth' \in AuthType /\ auth'.status = a.status
        /\ auth'.unavailable <=> \A m \in Known(new) : Waiting(new[m])
        /\ auth'.unavailable /\ Known(new) # {} =>
             /\ \A m \in Known(new) : auth'.retry <= new[m].retry
             /\ \E m \in Known(new) : auth'.retry = new[m].retry
    BY <2>1, AggregateAuthIs
  <2> QED
    BY <2>2 DEF new
<1>4. ASSUME NEW m \in Graded
      PROVE  /\ states'[m].retry \in Nat
             /\ states'[m].unavailable /\ states'[m].retry # 0 => states'[m].retry > now
  <2>1. st[m] \in StateType /\ states'[m] = Expire(st[m])
    BY <1>1, ExpiredIs DEF StatesTyped
  <2>2. Expire(st[m]) \in StateType
    BY <2>1, ExpireIs
  <2> QED
    BY <2>1, <2>2, ExpireIs DEF StateType, Times
<1>5. ASSUME Known(st) # {} PROVE AgreedWith(auth', states')
  <2>1. \A m \in Known(states') : m \in Graded
    BY DEF Known
  <2>2. CASE auth'.unavailable
    <3>1. \A m \in Known(states') : states'[m].unavailable /\ states'[m].retry # 0
      BY <1>3, <1>4, <2>1, <2>2 DEF Waiting
    <3> QED
      BY <1>2, <1>3, <1>5, <2>2, <3>1 DEF AgreedWith
  <2>3. CASE ~auth'.unavailable
    <3>1. PICK m \in Known(states') : ~Waiting(states'[m])
      BY <1>3, <2>3
    <3>2. ~states'[m].unavailable \/ states'[m].retry = 0
      BY <1>4, <2>1, <3>1 DEF Waiting
    <3> QED
      BY <2>3, <3>2 DEF AgreedWith
  <2> QED
    BY <2>2, <2>3
<1> QED
  BY <1>1, <1>2, <1>3, <1>5

-----------------------------------------------------------------------------
(* What MarkResult makes of a failure. *)

LEMMA QuotaAfterIs ==
    ASSUME now \in Nat, NEW n \in 0 .. MaxLevel, NEW ra \in RetryAfters \cup {NoRetryAfter}
    PROVE  /\ QuotaAfter(n, ra) \in QuotaType
           /\ QuotaAfter(n, ra).recover <= now + MaxBlock
           /\ n <= QuotaAfter(n, ra).level
<1>0. MaxBlock \in Nat /\ BackoffMax <= MaxBlock /\ BackoffMax \in Nat
  BY MaxBlockIs, CooldownAssumption DEF Lengths
<1>1. CASE ra # NoRetryAfter
  <2>1. ra \in Nat /\ ra <= MaxBlock
    BY <1>1, MaxBlockIs, CooldownAssumption
  <2>2. QuotaAfter(n, ra) = [exceeded |-> TRUE, recover |-> now + ra, level |-> n]
    BY <1>1 DEF QuotaAfter
  <2> QED
    BY <1>0, <2>1, <2>2 DEF QuotaType, Times
<1>2. CASE ra = NoRetryAfter
  <2> DEFINE b == Backoff(n)
  <2>1. b.delay \in 0 .. BackoffMax /\ b.level \in 0 .. MaxLevel /\ n <= b.level
    BY BackoffIs
  <2>2. QuotaAfter(n, ra) = [exceeded |-> TRUE, recover |-> After(b.delay), level |-> b.level]
    BY <1>2 DEF QuotaAfter
  <2> HIDE DEF b
  <2>3. After(b.delay) \in Nat /\ After(b.delay) <= now + MaxBlock
    BY <1>0, <2>1 DEF After
  <2> QED
    BY <2>1, <2>2, <2>3 DEF QuotaType, Times
<1> QED
  BY <1>1, <1>2

LEMMA RetryTimeIs ==
    ASSUME now \in Nat, NEW k \in Failures \ {"quota", "daily_quota"}
    PROVE  RetryTime(k) \in Nat /\ RetryTime(k) <= now + MaxBlock
<1>1. /\ Unauthorized \in Nat /\ Payment \in Nat /\ NotFound \in Nat
      /\ Transient \in Nat /\ Transport \in Nat
  BY CooldownAssumption
<1>2. /\ MaxBlock \in Nat /\ Unauthorized <= MaxBlock /\ Payment <= MaxBlock
      /\ NotFound <= MaxBlock /\ Transient <= MaxBlock /\ Transport <= MaxBlock
  BY MaxBlockIs DEF Lengths
<1>3. k \in {"unauthorized", "payment", "not_found", "transient", "transport", "other"}
  BY DEF Failures
<1> QED
  BY <1>1, <1>2, <1>3 DEF RetryTime

\* The quota fields after a failure, of a model or of the credential.
QuotaOf(q, k, ra) == IF k = "quota" THEN QuotaAfter(q.level, ra)
                     ELSE IF k = "daily_quota"
                          THEN [exceeded |-> TRUE, recover |-> NextMidnight, level |-> 0]
                     ELSE q

LEMMA FailedStateIs ==
    ASSUME now \in Nat, NEW s \in StateType, NEW k \in Failures, NEW ra \in RetryAfterOf(k)
    PROVE  /\ FailedState(s, k, ra) \in StateType
           /\ FailedState(s, k, ra).present
           /\ FailedState(s, k, ra).retry <= now + MaxBlock
           /\ \/ s.quota.level <= FailedState(s, k, ra).quota.level
              \/ FailedState(s, k, ra).quota.recover = NextMidnight
<1> DEFINE q == QuotaOf(s.quota, k, ra)
           r == IF k \in {"quota", "daily_quota"} THEN q.recover ELSE RetryTime(k)
<1>1. FailedState(s, k, ra)
        = [present |-> TRUE, unavailable |-> TRUE, status |-> "error", err |-> TRUE,
           retry |-> r, quota |-> q]
  BY DEF FailedState, QuotaOf
<1>2. s.quota \in QuotaType /\ s.quota.level \in 0 .. MaxLevel /\ MaxLevel \in Nat
  BY CooldownAssumption DEF StateType, QuotaType
<1>3. CASE k = "quota"
  <2>1. ra \in RetryAfters \cup {NoRetryAfter}
    BY <1>3 DEF RetryAfterOf
  <2>2. q = QuotaAfter(s.quota.level, ra) /\ r = q.recover
    BY <1>3 DEF QuotaOf
  <2> HIDE DEF q, r
  <2>3. q \in QuotaType /\ q.recover <= now + MaxBlock /\ s.quota.level <= q.level
    BY <1>2, <2>1, <2>2, QuotaAfterIs
  <2> QED
    BY <1>1, <2>2, <2>3 DEF StateType, QuotaType, Times
<1>4. CASE k = "daily_quota"
  <2>1. q = [exceeded |-> TRUE, recover |-> NextMidnight, level |-> 0] /\ r = q.recover
    BY <1>4 DEF QuotaOf
  <2>2. Day <= MaxBlock /\ Day \in Nat /\ MaxBlock \in Nat
    BY MaxBlockIs, CooldownAssumption DEF Lengths
  <2>3. NextMidnight \in Nat /\ NextMidnight <= now + MaxBlock
    BY <2>2, MidnightIs
  <2> HIDE DEF q, r
  <2>4. q \in QuotaType /\ q.recover = NextMidnight
    BY <1>2, <2>1, <2>3 DEF QuotaType, Times
  <2> QED
    BY <1>1, <2>1, <2>3, <2>4 DEF StateType, Times
<1>5. CASE k \notin {"quota", "daily_quota"}
  <2>1. q = s.quota /\ r = RetryTime(k)
    BY <1>5 DEF QuotaOf
  <2>2. RetryTime(k) \in Nat /\ RetryTime(k) <= now + MaxBlock
    BY <1>5, RetryTimeIs
  <2> HIDE DEF q, r
  <2> QED
    BY <1>1, <1>2, <2>1, <2>2 DEF StateType, Times
<1> QED
  BY <1>3, <1>4, <1>5

-----------------------------------------------------------------------------
(* The record of a credential. *)

RecordTyped == now \in Nat \ {0} /\ StatesTyped(states) /\ auth \in AuthType
Agreed == scope = "model" /\ Known(states) # {} => AgreedWith(auth, states)
CooldownInv == RecordTyped /\ scope \in {"model", NoModel} /\ Agreed

LEMMA RecordIsTyped == CooldownInv => CooldownTypeOK
  BY DEF CooldownInv, RecordTyped, CooldownTypeOK, StatesTyped, StateType, AuthType

\* A result of a model: only its own state is written, then aggregated.
LEMMA SuccessIs ==
    ASSUME CooldownInv, NEW m \in Graded, MarkSuccess(m)
    PROVE  /\ states' = Expired([states EXCEPT ![m] = Active])
           /\ StatesTyped([states EXCEPT ![m] = Active])
           /\ CooldownInv'
           /\ \/ auth'.status = auth.status
              \/ \A x \in Graded : ~states'[x].err
<1> DEFINE st == [states EXCEPT ![m] = Active]
           a == IF HasModelError([x \in Graded |-> Expire(st[x])]) THEN auth
                ELSE [auth EXCEPT !.err = FALSE, !.status = "active"]
<1>1. Aggregate(st, a) /\ scope' = "model" /\ now' = now
  BY DEF MarkSuccess
<1>2. StatesTyped(st)
  BY FreshTyped DEF CooldownInv, RecordTyped, StatesTyped, Active, Fresh
<1>3. a \in AuthType
  BY DEF CooldownInv, RecordTyped, AuthType
<1>4. now \in Nat \ {0}
  BY DEF CooldownInv, RecordTyped
<1>5. m \in Known(st)
  BY DEF Known, CooldownInv, RecordTyped, StatesTyped, Active
<1>6. ASSUME ~HasModelError([x \in Graded |-> Expire(st[x])]), NEW x \in Graded
      PROVE  ~Expired(st)[x].err
  <2> HIDE DEF st
  <2>1. StatesTyped(Expired(st)) /\ Expired(st)[x] = Expire(st[x])
    BY <1>2, <1>4, ExpiredIs
  <2>2. CASE Expired(st)[x].present
    <3>1. ~Expire(st[x]).err
      BY <1>6, <2>1, <2>2 DEF HasModelError, Known
    <3> QED
      BY <2>1, <3>1
  <2>3. CASE ~Expired(st)[x].present
    BY <2>1, <2>3 DEF StatesTyped, Fresh
  <2> QED
    BY <2>2, <2>3
<1>7. auth.status = a.status \/ ~HasModelError([x \in Graded |-> Expire(st[x])])
  OBVIOUS
<1> HIDE DEF st, a
<1>8. /\ states' = Expired(st) /\ StatesTyped(states') /\ auth' \in AuthType
      /\ auth'.status = a.status /\ AgreedWith(auth', states')
  BY <1>1, <1>2, <1>3, <1>4, <1>5, AggregateIs
<1>9. CooldownInv'
  BY <1>1, <1>4, <1>8 DEF CooldownInv, RecordTyped, Agreed
<1>10. auth'.status = auth.status \/ \A x \in Graded : ~states'[x].err
  BY <1>6, <1>7, <1>8
<1> QED
  BY <1>2, <1>8, <1>9, <1>10 DEF st

LEMMA FailureIs ==
    ASSUME CooldownInv, NEW m \in Graded, NEW k \in Failures, NEW ra \in RetryAfterOf(k),
           MarkFailure(m, k, ra)
    PROVE  /\ states' = Expired([states EXCEPT ![m] = FailedState(states[m], k, ra)])
           /\ StatesTyped([states EXCEPT ![m] = FailedState(states[m], k, ra)])
           /\ CooldownInv' /\ auth'.status = "error"
<1> DEFINE s == FailedState(states[m], k, ra)
           st == [states EXCEPT ![m] = s]
           a == [auth EXCEPT !.err = TRUE, !.status = "error"]
<1>1. Aggregate(st, a) /\ scope' = "model" /\ now' = now
  BY DEF MarkFailure
<1>2. now \in Nat \ {0} /\ states[m] \in StateType
  BY DEF CooldownInv, RecordTyped, StatesTyped
<1>3. s \in StateType /\ s.present
  BY <1>2, FailedStateIs
<1>4. StatesTyped(st) /\ m \in Known(st)
  <2> HIDE DEF s
  <2> QED
    BY <1>3 DEF CooldownInv, RecordTyped, StatesTyped, Known
<1>5. a \in AuthType /\ a.status = "error"
  BY DEF CooldownInv, RecordTyped, AuthType
<1> HIDE DEF st, a
<1>6. /\ states' = Expired(st) /\ StatesTyped(states') /\ auth' \in AuthType
      /\ auth'.status = "error" /\ AgreedWith(auth', states')
  BY <1>1, <1>2, <1>4, <1>5, AggregateIs
<1>7. CooldownInv'
  BY <1>1, <1>2, <1>6 DEF CooldownInv, RecordTyped, Agreed
<1> QED
  BY <1>4, <1>6, <1>7 DEF st

LEMMA AuthFailureTyped ==
    ASSUME CooldownInv, NEW k \in Failures, NEW ra \in RetryAfterOf(k), MarkAuthFailure(k, ra)
    PROVE  auth' \in AuthType /\ auth'.status = "error"
<1>1. /\ now \in Nat \ {0} /\ auth \in AuthType /\ auth.quota \in QuotaType /\ auth.retry \in Nat
      /\ auth.quota.level \in 0 .. MaxLevel
  BY DEF CooldownInv, RecordTyped, AuthType, QuotaType, Times
<1> DEFINE q == IF k = "quota" THEN QuotaAfter(auth.quota.level, ra)
                ELSE IF k = "daily_quota"
                     THEN [auth.quota EXCEPT !.exceeded = TRUE, !.recover = NextMidnight]
                ELSE auth.quota
           r == IF k \in {"quota", "daily_quota"} THEN q.recover
                ELSE IF k = "other" THEN auth.retry ELSE RetryTime(k)
<1>2. auth' = [unavailable |-> TRUE, status |-> "error", err |-> TRUE, quota |-> q, retry |-> r]
  BY DEF MarkAuthFailure
<1>3. q \in QuotaType
  <2>1. CASE k = "quota"
    <3>1. ra \in RetryAfters \cup {NoRetryAfter}
      BY <2>1 DEF RetryAfterOf
    <3> QED
      BY <1>1, <2>1, <3>1, QuotaAfterIs
  <2>2. CASE k = "daily_quota"
    BY <1>1, <2>2, MidnightIs DEF QuotaType, Times
  <2>3. CASE k \notin {"quota", "daily_quota"}
    BY <1>1, <2>3
  <2> QED
    BY <2>1, <2>2, <2>3
<1>4. r \in Nat
  <2>1. q.recover \in Nat
    <3> HIDE DEF q
    <3> QED
      BY <1>3 DEF QuotaType, Times
  <2>2. k \notin {"quota", "daily_quota"} => RetryTime(k) \in Nat
    BY <1>1, RetryTimeIs
  <2> HIDE DEF q
  <2> QED
    BY <1>1, <2>1, <2>2
<1> HIDE DEF q, r
<1> QED
  BY <1>2, <1>3, <1>4 DEF AuthType, Times

LEMMA CooldownInvInit == CooldownInit => CooldownInv
<1> SUFFICES ASSUME CooldownInit PROVE CooldownInv
  OBVIOUS
<1>1. StatesTyped(states) /\ Known(states) = {}
  BY FreshTyped DEF CooldownInit, StatesTyped, Known, Fresh
<1> QED
  BY <1>1, FreshTyped DEF CooldownInit, CooldownInv, RecordTyped, Agreed

LEMMA CooldownInvStep == CooldownInv /\ [CooldownNext]_cooldownVars => CooldownInv'
<1> SUFFICES ASSUME CooldownInv, [CooldownNext]_cooldownVars PROVE CooldownInv'
  OBVIOUS
<1>1. ASSUME MarkAuthSuccess PROVE CooldownInv'
  BY <1>1, FreshTyped DEF MarkAuthSuccess, CooldownInv, RecordTyped, Agreed, NoModel
<1>2. ASSUME NEW k \in Failures, NEW ra \in RetryAfterOf(k), MarkAuthFailure(k, ra)
      PROVE  CooldownInv'
  <2>1. auth' \in AuthType
    BY <1>2, AuthFailureTyped
  <2> QED
    BY <1>2, <2>1 DEF MarkAuthFailure, CooldownInv, RecordTyped, Agreed, NoModel
<1>3. ASSUME Replace PROVE CooldownInv'
  <2>1. StatesTyped(states') /\ Known(states') = {}
    BY <1>3, FreshTyped DEF Replace, StatesTyped, Known, Fresh
  <2> QED
    BY <1>3, <2>1, FreshTyped DEF Replace, CooldownInv, RecordTyped, Agreed
<1>4. ASSUME Tick PROVE CooldownInv'
  BY <1>4 DEF Tick, CooldownInv, RecordTyped, Agreed
<1>5. ASSUME UNCHANGED cooldownVars PROVE CooldownInv'
  BY <1>5 DEF cooldownVars, CooldownInv, RecordTyped, Agreed
<1> QED
  BY <1>1, <1>2, <1>3, <1>4, <1>5, SuccessIs, FailureIs DEF CooldownNext

LEMMA CooldownInvAlways == ResultsSpec => []CooldownInv
  BY CooldownInvInit, CooldownInvStep, PTL DEF ResultsSpec

\* Every field of the record keeps its type: the backoff level stays one whose
\* backoff can be computed without overflow.
THEOREM CooldownTyped == ResultsSpec => []CooldownTypeOK
  BY CooldownInvAlways, RecordIsTyped, PTL

\* What updateAggregatedAvailability writes to the credential when a result
\* arrives agrees with the states of its models at every later instant.
THEOREM AggregateStaysHonest == ResultsSpec => []AggregateHonest
<1>1. CooldownInv => AggregateHonest
  <2> SUFFICES ASSUME CooldownInv, scope = "model", Known(states) # {}
               PROVE  auth.unavailable /\ auth.retry > now
                        <=> \A m \in Known(states) : Waiting(states[m])
    BY DEF AggregateHonest
  <2>1. AgreedWith(auth, states) /\ now \in Nat /\ auth.retry \in Nat
    BY DEF CooldownInv, Agreed, RecordTyped, AuthType, Times
  <2>2. \A m \in Known(states) : states[m].retry \in Nat
    BY DEF CooldownInv, RecordTyped, StatesTyped, StateType, Known, Times
  <2>3. CASE auth.unavailable
    <3>1. PICK first \in Known(states) : auth.retry = states[first].retry
      BY <2>1, <2>3 DEF AgreedWith
    <3> QED
      BY <2>1, <2>2, <2>3, <3>1 DEF AgreedWith, Waiting
  <2>4. CASE ~auth.unavailable
    <3>1. PICK m \in Known(states) : ~states[m].unavailable \/ states[m].retry = 0
      BY <2>1, <2>4 DEF AgreedWith
    <3>2. ~Waiting(states[m])
      BY <2>1, <3>1 DEF Waiting
    <3> QED
      BY <2>4, <3>2
  <2> QED
    BY <2>3, <2>4
<1> QED
  BY <1>1, CooldownInvAlways, PTL

\* MarkResult makes a failing credential "active" again only when none of its
\* models has failed since its own last success.
THEOREM ActiveIsClean == ResultsSpec => ActiveMeansClean
<1>1. ASSUME CooldownInv, [CooldownNext]_cooldownVars,
             auth.status = "error", auth'.status = "active", scope' = "model"
      PROVE  \A m \in Graded : ~states'[m].err
  <2>1. ASSUME NEW m \in Graded, MarkSuccess(m)
        PROVE  \A x \in Graded : ~states'[x].err
    BY <1>1, <2>1, SuccessIs
  <2>2. ASSUME NEW m \in Graded, NEW k \in Failures, NEW ra \in RetryAfterOf(k),
               MarkFailure(m, k, ra)
        PROVE  FALSE
    BY <1>1, <2>2, FailureIs
  <2>3. ASSUME MarkAuthSuccess \/ \E k \in Failures : \E ra \in RetryAfterOf(k) :
                                     MarkAuthFailure(k, ra)
        PROVE  FALSE
    BY <1>1, <2>3 DEF MarkAuthSuccess, MarkAuthFailure, NoModel
  <2>4. ASSUME Replace
        PROVE  \A x \in Graded : ~states'[x].err
    BY <2>4 DEF Replace, Fresh
  <2>5. ~Tick /\ ~UNCHANGED cooldownVars
    BY <1>1 DEF Tick, cooldownVars
  <2> QED
    BY <1>1, <2>1, <2>2, <2>3, <2>4, <2>5 DEF CooldownNext
<1>2. CooldownInv /\ [CooldownNext]_cooldownVars
        => [auth.status = "error" /\ auth'.status = "active" /\ scope' = "model"
              => \A m \in Graded : ~states'[m].err]_cooldownVars
  BY <1>1
<1> QED
  BY <1>2, CooldownInvAlways, PTL DEF ResultsSpec, ActiveMeansClean

\* The backoff of quota errors starts again only after a success, a daily quota
\* or with a new record.
THEOREM BackoffIsKept == ResultsSpec => BackoffKept
<1>1. ASSUME CooldownInv, [CooldownNext]_cooldownVars, NEW m \in Graded,
             states'[m].quota.level < states[m].quota.level
      PROVE  \/ states'[m].quota = NoQuota /\ ~states'[m].err
             \/ states'[m].quota.recover = NextMidnight
  <2>0. /\ now \in Nat /\ states \in [Graded -> StateType]
        /\ states[m].quota.level \in Nat
    <3>0. MaxLevel \in Nat
      BY CooldownAssumption
    <3>1. now \in Nat /\ states \in [Graded -> StateType]
      BY <1>1 DEF CooldownInv, RecordTyped, StatesTyped
    <3>2. states[m].quota \in QuotaType
      BY <3>1 DEF StateType
    <3>3. states[m].quota.level \in 0 .. MaxLevel
      BY <3>2 DEF QuotaType
    <3> QED
      BY <3>0, <3>1, <3>3
  <2>1. ASSUME NEW n \in Graded, MarkSuccess(n)
        PROVE  states'[m].quota = NoQuota /\ ~states'[m].err
    <3> DEFINE st == [states EXCEPT ![n] = Active]
    <3>1. states' = Expired(st) /\ StatesTyped(st)
      BY <1>1, <2>1, SuccessIs
    <3>2. m = n => st[m].quota = NoQuota /\ ~st[m].err
      BY <2>0 DEF Active, Fresh
    <3>3. m # n => st[m].quota = states[m].quota
      BY <2>0
    <3> HIDE DEF st
    <3>4. states'[m].quota = st[m].quota /\ states'[m].err = st[m].err
      BY <2>0, <3>1, ExpiredIs
    <3>5. m = n
      BY <1>1, <2>0, <3>3, <3>4
    <3> QED
      BY <3>2, <3>4, <3>5
  <2>2. ASSUME NEW n \in Graded, NEW k \in Failures, NEW ra \in RetryAfterOf(k),
               MarkFailure(n, k, ra)
        PROVE  states'[m].quota.recover = NextMidnight
    <3> DEFINE s == FailedState(states[n], k, ra)
               st == [states EXCEPT ![n] = s]
    <3>1. states' = Expired(st) /\ StatesTyped(st)
      BY <1>1, <2>2, FailureIs
    <3>2. /\ s \in StateType
          /\ states[n].quota.level <= s.quota.level \/ s.quota.recover = NextMidnight
      BY <2>0, FailedStateIs
    <3>3. s.quota.level \in Nat
      <4> HIDE DEF s
      <4> QED
        BY <3>2, CooldownAssumption DEF StateType, QuotaType
    <3>4. (m = n => st[m].quota = s.quota) /\ (m # n => st[m].quota = states[m].quota)
      <4> HIDE DEF s
      <4> QED
        BY <2>0
    <3> HIDE DEF s, st
    <3>5. states'[m].quota = st[m].quota
      BY <2>0, <3>1, ExpiredIs
    <3> QED
      BY <1>1, <2>0, <3>2, <3>3, <3>4, <3>5
  <2>3. ASSUME Replace
        PROVE  states'[m].quota = NoQuota /\ ~states'[m].err
    BY <2>3 DEF Replace, Fresh
  <2>4. ~UNCHANGED states
    BY <1>1, <2>0
  <2> QED
    BY <1>1, <2>1, <2>2, <2>3, <2>4
       DEF CooldownNext, MarkAuthSuccess, MarkAuthFailure, Tick, cooldownVars
<1>2. CooldownInv /\ [CooldownNext]_cooldownVars
        => [\A m \in Graded :
              states'[m].quota.level < states[m].quota.level =>
                 \/ states'[m].quota = NoQuota /\ ~states'[m].err
                 \/ states'[m].quota.recover = NextMidnight]_cooldownVars
  BY <1>1
<1> QED
  BY <1>2, CooldownInvAlways, PTL DEF ResultsSpec, BackoffKept

-----------------------------------------------------------------------------
(* The cooldowns that the rest of the proxy sees. *)

\* The end of model m's block by the states st, 0 if it is not blocked.
EndIn(st, m) == LET j == IF st[m].present THEN st[m] ELSE st[Base[m]]
                IN  IF Waiting(j) THEN j.retry ELSE 0
Ends == [m \in Graded |-> IF Blocked(m) THEN Judged(m).retry ELSE 0]

LEMMA EndsIs == Ends = [m \in Graded |-> EndIn(states, m)]
  BY DEF Ends, EndIn, Blocked, Judged

\* The models a result of m says something about.
ConcernedNow(m) == {m} \cup {v \in {x \in Graded : Base[x] = m} : ~states[v].present}

\* Expiry hides nothing from the selectors, and a result changes the blocks of
\* its model and of those that are judged by it.
LEMMA ResultSeen ==
    ASSUME CooldownInv, NEW m \in Graded, NEW s \in StateType, s.present,
           StatesTyped([states EXCEPT ![m] = s]),
           states' = Expired([states EXCEPT ![m] = s]), now' = now
    PROVE  /\ Ends' = [x \in Graded |-> IF x \in ConcernedNow(m)
                                       THEN (IF Waiting(s) THEN s.retry ELSE 0) ELSE Ends[x]]
           /\ ConcernedNow(m) \in Abstract!Concerned(m)
<1> DEFINE st == [states EXCEPT ![m] = s]
<1>1. now \in Nat /\ states \in [Graded -> StateType] /\ Base \in [Graded -> Graded]
  BY CooldownAssumption DEF CooldownInv, RecordTyped, StatesTyped
<1>2. \A x \in Graded : st[x] = IF x = m THEN s ELSE states[x]
  BY <1>1
<1>3. StatesTyped(st) /\ states' = Expired(st)
  OBVIOUS
<1> HIDE DEF st
<1>4. ASSUME NEW x \in Graded
      PROVE  Ends'[x] = EndIn(st, x)
  <2> DEFINE j == IF st[x].present THEN st[x] ELSE st[Base[x]]
  <2>1. Ends'[x] = IF Judged(x)'.unavailable /\ Judged(x)'.retry > now
                   THEN Judged(x)'.retry ELSE 0
    BY DEF Ends, Blocked, Waiting
  <2>2. /\ states'[x] = Expire(st[x]) /\ states'[Base[x]] = Expire(st[Base[x]])
        /\ st[x] \in StateType /\ st[Base[x]] \in StateType
    BY <1>1, <1>3, ExpiredIs DEF StatesTyped
  <2>3. states'[x].present = st[x].present
    BY <1>1, <2>2, ExpireIs
  <2>4. Judged(x)' = Expire(j) /\ j \in StateType
    BY <2>2, <2>3 DEF Judged
  <2> HIDE DEF j
  <2>5. (Waiting(Expire(j)) <=> Waiting(j)) /\ (Waiting(j) => Expire(j) = j)
    BY <1>1, <2>4, ExpireIs
  <2>6. Ends'[x] = IF Waiting(j) THEN j.retry ELSE 0
    BY <2>1, <2>4, <2>5 DEF Waiting
  <2> QED
    BY <2>6 DEF EndIn, j
<1>5. ASSUME NEW x \in Graded
      PROVE  EndIn(st, x) = IF x \in ConcernedNow(m) THEN (IF Waiting(s) THEN s.retry ELSE 0)
                            ELSE EndIn(states, x)
  <2>1. CASE x = m
    BY <1>2, <2>1 DEF EndIn, ConcernedNow
  <2>2. CASE x # m /\ ~states[x].present /\ Base[x] = m
    BY <1>2, <2>2 DEF EndIn, ConcernedNow
  <2>3. CASE x # m /\ ~(~states[x].present /\ Base[x] = m)
    <3>1. x \notin ConcernedNow(m)
      BY <2>3 DEF ConcernedNow
    <3>2. EndIn(st, x) = EndIn(states, x)
      <4>1. st[x] = states[x] /\ (states[x].present \/ st[Base[x]] = states[Base[x]])
        BY <1>1, <1>2, <2>3
      <4> QED
        BY <4>1 DEF EndIn
    <3> QED
      BY <3>1, <3>2
  <2> QED
    BY <2>1, <2>2, <2>3
<1>6. Ends' = [x \in Graded |-> IF x \in ConcernedNow(m)
                               THEN (IF Waiting(s) THEN s.retry ELSE 0) ELSE Ends[x]]
  <2>1. Ends' = [x \in Graded |-> Ends'[x]]
    BY DEF Ends
  <2>2. \A x \in Graded : Ends[x] = EndIn(states, x)
    BY EndsIs
  <2> QED
    BY <1>4, <1>5, <2>1, <2>2
<1>7. ConcernedNow(m) \in Abstract!Concerned(m)
  BY DEF ConcernedNow, Abstract!Concerned
<1> QED
  BY <1>6, <1>7

LEMMA NothingBlocked ==
    ASSUME states = [m \in Graded |-> Fresh]
    PROVE  Ends = [m \in Graded |-> 0]
  BY CooldownAssumption DEF Ends, Blocked, Judged, Waiting, Fresh

\* Each step is one of CooldownSpec, or nothing that it sees.
LEMMA CooldownStepSimulates ==
    CooldownInv /\ [CooldownNext]_cooldownVars => [Abstract!Next]_<<now, Ends>>
<1> SUFFICES ASSUME CooldownInv, [CooldownNext]_cooldownVars
             PROVE  [Abstract!Next]_<<now, Ends>>
  OBVIOUS
<1>0. now \in Nat /\ states \in [Graded -> StateType]
  BY DEF CooldownInv, RecordTyped, StatesTyped
<1>1. ASSUME NEW m \in Graded, MarkSuccess(m)
      PROVE  Abstract!Next
  <2>1. states' = Expired([states EXCEPT ![m] = Active])
        /\ StatesTyped([states EXCEPT ![m] = Active])
    BY <1>1, SuccessIs
  <2>2. now' = now /\ Active.present /\ ~Waiting(Active)
    BY <1>1 DEF MarkSuccess, Active, Fresh, Waiting
  <2>3. /\ Ends' = [x \in Graded |-> IF x \in ConcernedNow(m)
                                    THEN (IF Waiting(Active) THEN Active.retry ELSE 0) ELSE Ends[x]]
        /\ ConcernedNow(m) \in Abstract!Concerned(m)
    BY <2>1, <2>2, FreshTyped, ResultSeen
  <2>4. Abstract!Succeed(ConcernedNow(m))
    BY <2>2, <2>3 DEF Abstract!Succeed, Abstract!Put, Ends
  <2> QED
    BY <2>3, <2>4 DEF Abstract!Next
<1>2. ASSUME NEW m \in Graded, NEW k \in Failures, NEW ra \in RetryAfterOf(k),
             MarkFailure(m, k, ra)
      PROVE  Abstract!Next
  <2> DEFINE s == FailedState(states[m], k, ra)
             t == IF Waiting(s) THEN s.retry ELSE 0
  <2>1. s \in StateType /\ s.present /\ s.retry <= now + MaxBlock
    BY <1>0, FailedStateIs
  <2>2. /\ states' = Expired([states EXCEPT ![m] = s])
        /\ StatesTyped([states EXCEPT ![m] = s])
    BY <1>2, FailureIs
  <2>3. now' = now
    BY <1>2 DEF MarkFailure
  <2> HIDE DEF s
  <2>4. /\ Ends' = [x \in Graded |-> IF x \in ConcernedNow(m) THEN t ELSE Ends[x]]
        /\ ConcernedNow(m) \in Abstract!Concerned(m)
    BY <2>1, <2>2, <2>3, ResultSeen
  <2>5. t \in {0} \cup now + 1 .. now + MaxBlock
    <3>1. s.retry \in Nat /\ MaxBlock \in Nat
      BY <2>1, MaxBlockIs DEF StateType, Times
    <3> QED
      BY <1>0, <2>1, <3>1 DEF Waiting
  <2>6. Abstract!Fail(ConcernedNow(m))
    <3> HIDE DEF t
    <3> QED
      BY <2>3, <2>4, <2>5 DEF Abstract!Fail, Abstract!Put, Ends
  <2> QED
    BY <2>4, <2>6 DEF Abstract!Next
<1>3. ASSUME Replace
      PROVE  Abstract!Next
  <2>1. states' = [m \in Graded |-> Fresh] /\ now' = now
    BY <1>3 DEF Replace
  <2>2. Ends' = [m \in Graded |-> 0]
    BY <2>1, CooldownAssumption DEF Ends, Blocked, Judged, Waiting, Fresh
  <2> QED
    BY <2>1, <2>2 DEF Abstract!Next, Abstract!Reset, Ends
<1>4. ASSUME Tick
      PROVE  Abstract!Next
  <2>1. states' = states /\ now' = now + 1
    BY <1>4 DEF Tick
  <2>2. ASSUME NEW m \in Graded
        PROVE  Ends'[m] = IF Ends[m] > now + 1 THEN Ends[m] ELSE 0
    <3>1. Judged(m) \in StateType /\ Judged(m)' = Judged(m)
      BY <1>0, <2>1, CooldownAssumption DEF Judged
    <3>2. Judged(m).retry \in Nat
      BY <3>1 DEF StateType, Times
    <3>3. /\ Ends[m] = IF Waiting(Judged(m)) THEN Judged(m).retry ELSE 0
          /\ Ends'[m] = IF Judged(m).unavailable /\ Judged(m).retry > now + 1
                        THEN Judged(m).retry ELSE 0
      BY <2>1, <3>1 DEF Ends, Blocked, Waiting
    <3> QED
      BY <1>0, <3>2, <3>3 DEF Waiting
  <2>3. Ends' = [m \in Graded |-> IF Ends[m] > now' THEN Ends[m] ELSE 0]
    <3>1. Ends' = [m \in Graded |-> Ends'[m]]
      BY DEF Ends
    <3> QED
      BY <2>1, <2>2, <3>1
  <2> QED
    BY <2>1, <2>3 DEF Abstract!Next, Abstract!Tick, Ends
<1>5. ASSUME UNCHANGED <<now, states>>
      PROVE  UNCHANGED <<now, Ends>>
  BY <1>5 DEF Ends, Blocked, Judged, Waiting
<1> QED
  BY <1>1, <1>2, <1>3, <1>4, <1>5
     DEF CooldownNext, MarkAuthSuccess, MarkAuthFailure, cooldownVars

\* MarkResult's bookkeeping implements the cooldowns of CooldownSpec: as the
\* selectors see them, a model is blocked only by a failure of its own or of
\* the model it follows, for no longer than the longest cooldown, until a
\* success or the time it was given.
THEOREM CooldownsAreAbstract == ResultsSpec => AbstractSpec
<1>1. CooldownInit => Abstract!Init
  BY NothingBlocked DEF CooldownInit, Abstract!Init, Ends
<1>2. CooldownInv /\ [CooldownNext]_cooldownVars => [Abstract!Next]_<<now, Ends>>
  BY CooldownStepSimulates
<1> QED
  BY <1>1, <1>2, CooldownInvAlways, PTL DEF ResultsSpec, AbstractSpec, Abstract!Spec, Ends

=============================================================================
