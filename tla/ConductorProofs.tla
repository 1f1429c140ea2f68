--------------------------- MODULE ConductorProofs ---------------------------
(***************************************************************************)
(* Proofs about the two components of the conductor: AuthRefresh, for any  *)
(* numbers of goroutines and management calls, any durations and any       *)
(* number of tokens, and MixedExecute, for any numbers of requests,        *)
(* credentials and sessions, any retries, priorities and cooldowns.        *)
(***************************************************************************)
EXTENDS AuthRefresh, MixedExecute, FiniteSetTheorems, TLAPS

-----------------------------------------------------------------------------
(* AuthRefresh: the type invariant.                                          *)

USE RefreshAssumption

LEMMA FirstTyped == First \in Record
  BY DEF First, Record

LEMMA OlderTyped ==
    ASSUME NEW r \in Record
    PROVE  Older(r) \in Record
<1> DEFINE less(n) == IF n > 0 THEN n - 1 ELSE 0
<1>1. /\ r.next \in (0 .. PendingBackoff) \cup (0 .. FailureBackoff)
      /\ r.cooling \in 0 .. Cooldown
  BY DEF Record
<1>2. less(r.next) \in (0 .. PendingBackoff) \cup (0 .. FailureBackoff)
  BY <1>1
<1>3. less(r.cooling) \in 0 .. Cooldown
  BY <1>1
<1>4. Older(r) = [r EXCEPT !.next = less(r.next), !.cooling = less(r.cooling)]
  BY DEF Older
<1> HIDE DEF less
<1> QED
  BY <1>2, <1>3, <1>4 DEF Record

LEMMA FinishTyped ==
    ASSUME TypeOK, NEW p \in Actors, Finish(p)
    PROVE  /\ pc' \in [Actors -> {"idle", "start", "network", "update", "put"}]
           /\ clone' \in [Actors -> Record]
           /\ age' \in [Refreshers -> 0 .. CallTime] /\ overrun' \in BOOLEAN
  BY FirstTyped DEF TypeOK, Finish, Goto

LEMMA TypeInit == Init => TypeOK
<1> SUFFICES ASSUME Init PROVE TypeOK
  OBVIOUS
<1>0. outdated \in BOOLEAN /\ overrun \in BOOLEAN
  BY DEF Init
<1>1. issued \in 1 .. MaxToken
  BY DEF Init
<1>2. auth \in Record /\ clone \in [Actors -> Record]
  BY FirstTyped DEF Init
<1>3. /\ loop \in {"idle", "mark"}
      /\ pc \in [Actors -> {"idle", "start", "network", "update", "put"}]
      /\ age \in [Refreshers -> 0 .. CallTime]
  BY DEF Init
<1> QED
  BY <1>0, <1>1, <1>2, <1>3 DEF TypeOK

LEMMA TypeStep == TypeOK /\ [Next]_vars => TypeOK'
<1> SUFFICES ASSUME TypeOK, [Next]_vars PROVE TypeOK'
  OBVIOUS
<1>0. Refreshers \subseteq Actors /\ Operators \subseteq Actors
  BY DEF Actors
<1>1. CASE Check
  BY <1>1 DEF Check, TypeOK
<1>2. CASE Tick
  <2>1. auth' \in Record /\ clone' \in [Actors -> Record]
    BY <1>2, OlderTyped DEF Tick, TypeOK
  <2>2. age' \in [Refreshers -> 0 .. CallTime] /\ overrun' \in BOOLEAN
    BY <1>2, <1>0 DEF Tick, Running, TypeOK
  <2> QED
    BY <1>2, <2>1, <2>2 DEF Tick, TypeOK
<1>3. CASE Expire
  <2>1. auth' \in Record
    BY <1>3 DEF Expire, TypeOK, Record
  <2> QED
    BY <1>3, <2>1 DEF Expire, TypeOK
<1>4. ASSUME NEW f \in Refreshers, Mark(f) PROVE TypeOK'
  <2>1. auth' \in Record
    BY <1>4 DEF Mark, Claimed, TypeOK, Record
  <2> QED
    BY <1>4, <1>0, <2>1 DEF Mark, Goto, TypeOK
<1>5. ASSUME NEW f \in Refreshers, Start(f) PROVE TypeOK'
  <2>1. [auth EXCEPT !.fresh = TRUE, !.next = 0] \in Record
    <3>1. 0 \in 0 .. PendingBackoff
      BY RefreshAssumption
    <3> QED
      BY <3>1 DEF TypeOK, Record
  <2>2. clone' \in [Actors -> Record]
    BY <1>5, <1>0, <2>1 DEF Start, TypeOK
  <2> QED
    BY <1>5, <1>0, <2>2 DEF Start, Goto, TypeOK
<1>6. ASSUME NEW f \in Refreshers, Granted(f) PROVE TypeOK'
  <2>1. issued' \in 1 .. MaxToken
    BY <1>6 DEF Granted, TypeOK
  <2>2. [clone[f] EXCEPT !.token = issued + 1] \in Record
    <3>1. issued + 1 \in 1 .. MaxToken /\ clone[f] \in Record
      BY <1>6, <1>0 DEF Granted, TypeOK
    <3> QED
      BY <3>1 DEF Record
  <2>3. clone' \in [Actors -> Record]
    BY <1>6, <1>0, <2>2 DEF Granted, TypeOK
  <2> QED
    BY <1>6, <1>0, <2>1, <2>3 DEF Granted, Goto, TypeOK
<1>7. ASSUME NEW f \in Refreshers, Denied(f) PROVE TypeOK'
  <2>1. auth' \in Record
    BY <1>7 DEF Denied, AfterFailure, TypeOK, Record
  <2> QED
    BY <1>7, <1>0, <2>1, FinishTyped DEF Denied, TypeOK
<1>8. ASSUME NEW f \in Refreshers, Canceled(f) PROVE TypeOK'
  BY <1>8, <1>0, FinishTyped DEF Canceled, TypeOK
<1>9. ASSUME NEW f \in Refreshers, Update(f) PROVE TypeOK'
  <2>1. auth' \in Record
    BY <1>9, <1>0 DEF Update, Written, TypeOK, Record
  <2> QED
    BY <1>9, <1>0, <2>1, FinishTyped DEF Update, TypeOK
<1>10. ASSUME NEW cooling \in {0, Cooldown}, MarkResult(cooling) PROVE TypeOK'
  <2>1. auth' \in Record
    BY <1>10 DEF MarkResult, TypeOK, Record
  <2> QED
    BY <1>10, <2>1 DEF MarkResult, TypeOK
<1>11. ASSUME NEW o \in Operators, NEW off \in BOOLEAN, Get(o, off) PROVE TypeOK'
  <2>1. [auth EXCEPT !.disabled = off] \in Record
    BY DEF TypeOK, Record
  <2> QED
    BY <1>11, <1>0, <2>1 DEF Get, Goto, TypeOK
<1>12. ASSUME NEW o \in Operators, Put(o) PROVE TypeOK'
  <2>1. outdated' \in BOOLEAN
    BY <1>12 DEF Put
  <2> QED
    BY <1>12, <1>0, <2>1, FinishTyped DEF Put, TypeOK
<1>13. CASE UNCHANGED vars
  BY <1>13 DEF vars, TypeOK
<1> QED
  BY <1>1, <1>2, <1>3, <1>4, <1>5, <1>6, <1>7, <1>8, <1>9, <1>10, <1>11, <1>12, <1>13
     DEF Next, Refresh

\* AuthRefresh is type correct.
THEOREM TypeCorrect == Spec => []TypeOK
<1>1. Init => TypeOK
  BY TypeInit
<1>2. TypeOK /\ [Next]_vars => TypeOK'
  BY TypeStep
<1> QED
  BY <1>1, <1>2, PTL DEF Spec

-----------------------------------------------------------------------------
(* The inductive invariant: Exclusive and TokensHeld.                        *)

LEMMA InvInit == Init => IInv
<1> SUFFICES ASSUME Init PROVE IInv
  OBVIOUS
<1>1. TypeOK
  BY TypeInit
<1>2. \A p \in Actors : pc[p] = "idle"
  BY DEF Init
<1>3. auth.token = 1 /\ issued = 1
  BY DEF Init, First
<1> QED
  BY <1>1, <1>2, <1>3 DEF IInv, PlacesTyped, Exclusive, TokensHeld, Running, Actors

(* Exclusive.                                                                *)

\* When no refresh is left the next one has the credential for itself.
LEMMA NoneRuns ==
    ASSUME \A f \in Refreshers : ~Running(f)
    PROVE  Exclusive
  BY DEF Exclusive

\* Whoever ends leaves a refresh that has outlived its claim, or none.
LEMMA FinishExclusive ==
    ASSUME TypeOK, overrun \/ Exclusive, NEW p \in Actors, Finish(p),
           p \in Refreshers => Running(p), p \notin Refreshers => auth'.next = auth.next
    PROVE  overrun' \/ Exclusive'
<1>1. \A f \in Refreshers : /\ f # p => pc'[f] = pc[f] /\ age'[f] = age[f]
                            /\ f = p => pc'[f] = "idle"
  BY DEF Finish, Goto, TypeOK, Actors
<1>2. CASE \A f \in Refreshers : ~Running(f)'
  BY <1>2 DEF Exclusive
<1>3. CASE \E f \in Refreshers : Running(f)'
  <2>1. PICK f \in Refreshers : f # p /\ Running(f)
    BY <1>1, <1>3 DEF Running
  <2>2. CASE overrun
    BY <2>1, <2>2 DEF Finish
  <2>3. CASE Exclusive
    <3>1. p \notin Refreshers
      BY <2>1, <2>3 DEF Exclusive
    <3>2. \A g \in Refreshers : pc'[g] = pc[g] /\ age'[g] = age[g]
      BY <1>1, <3>1
    <3> QED
      BY <2>3, <3>1, <3>2 DEF Exclusive, Running
  <2> QED
    BY <2>2, <2>3
<1> QED
  BY <1>2, <1>3

LEMMA MarkExclusive ==
    ASSUME TypeOK, Exclusive, NEW f \in Refreshers, Mark(f)
    PROVE  Exclusive'
<1>1. CASE Unclaimed /\ auth' = Claimed /\ Goto(f, "start") /\ age' = [age EXCEPT ![f] = 0]
  <2>1. \A g \in Refreshers : ~Running(g)
    <3> SUFFICES ASSUME NEW g \in Refreshers, Running(g) PROVE FALSE
      OBVIOUS
    <3>1. age[g] \in Nat /\ age[g] < PendingBackoff /\ auth.next + age[g] >= PendingBackoff
      BY DEF Exclusive, TypeOK
    <3>2. auth.next = 0
      BY <1>1 DEF Unclaimed
    <3> QED
      BY <3>1, <3>2
  <2>2. /\ pc'[f] = "start" /\ age'[f] = 0
        /\ \A g \in Refreshers : g # f => pc'[g] = "idle"
    BY <1>1, <2>1 DEF Goto, TypeOK, Actors, Running
  <2>3. auth'.next = PendingBackoff
    BY <1>1 DEF Claimed, TypeOK, Record
  <2> QED
    BY <2>2, <2>3 DEF Exclusive, Running
<1>2. CASE UNCHANGED <<auth, pc, age>>
  BY <1>2 DEF Exclusive, Running
<1> QED
  BY <1>1, <1>2 DEF Mark

\* Steps that start and end no refresh and leave the claim alone.
LEMMA OthersExclusive ==
    ASSUME Exclusive, auth'.next = auth.next, age' = age,
           \A f \in Refreshers : Running(f)' <=> Running(f)
    PROVE  Exclusive'
  BY DEF Exclusive

LEMMA TickExclusive ==
    ASSUME TypeOK, Exclusive, Tick, ~overrun'
    PROVE  Exclusive'
<1>1. auth'.next = IF auth.next > 0 THEN auth.next - 1 ELSE 0
  BY DEF Tick, Older, TypeOK, Record
<1>2. \A f \in Refreshers : Running(f)' <=> Running(f)
  BY DEF Tick, Running
<1>3. ASSUME NEW f \in Refreshers, Running(f)
      PROVE  age'[f] < PendingBackoff /\ auth'.next + age'[f] >= PendingBackoff
  <2>1. age'[f] = age[f] + 1
    BY <1>3 DEF Tick
  <2>2. ~(age[f] + 1 >= PendingBackoff)
    BY <1>3 DEF Tick
  <2>3. auth.next \in Nat /\ age[f] \in Nat /\ auth.next + age[f] >= PendingBackoff
    BY <1>3 DEF Exclusive, TypeOK, Record
  <2> QED
    BY <1>1, <2>1, <2>2, <2>3
<1> QED
  BY <1>2, <1>3 DEF Exclusive

LEMMA ExclusiveStep ==
    ASSUME TypeOK, PlacesTyped, overrun \/ Exclusive, [Next]_vars
    PROVE  outdated' \/ overrun' \/ Exclusive'
<1>0. Refreshers \subseteq Actors /\ Operators \subseteq Actors
  BY DEF Actors
<1>1. ASSUME NEW f \in Refreshers, Denied(f) \/ Canceled(f) \/ Update(f)
      PROVE  overrun' \/ Exclusive'
  <2>1. Running(f) /\ Finish(f)
    BY <1>1 DEF Denied, Canceled, Update, Running
  <2> QED
    BY <1>0, <2>1, FinishExclusive
<1>2. ASSUME NEW o \in Operators, Put(o) PROVE outdated' \/ overrun' \/ Exclusive'
  <2>1. CASE clone[o].next = auth.next
    <3>1. Finish(o) /\ o \notin Refreshers /\ auth'.next = auth.next
      BY <1>2, <2>1 DEF Put
    <3> QED
      BY <1>0, <3>1, FinishExclusive
  <2>2. CASE clone[o].next # auth.next
    BY <1>2, <2>2 DEF Put
  <2> QED
    BY <2>1, <2>2
<1>3. CASE Tick
  <2>1. CASE overrun
    BY <1>3, <2>1 DEF Tick
  <2>2. CASE Exclusive
    BY <1>3, <2>2, TickExclusive
  <2> QED
    BY <2>1, <2>2
<1>4. ASSUME NEW f \in Refreshers, Mark(f) PROVE overrun' \/ Exclusive'
  <2>1. overrun' = overrun
    BY <1>4 DEF Mark
  <2> QED
    BY <1>4, <2>1, MarkExclusive
<1>5. ASSUME NEW f \in Refreshers, Start(f) \/ Granted(f) PROVE overrun' \/ Exclusive'
  <2>1. /\ overrun' = overrun /\ auth' = auth /\ age' = age
        /\ \A g \in Refreshers : Running(g)' <=> Running(g)
    BY <1>5 DEF Start, Granted, Goto, Running, TypeOK, Actors
  <2> QED
    BY <2>1, OthersExclusive
<1>6. ASSUME NEW o \in Operators, NEW off \in BOOLEAN, Get(o, off) PROVE overrun' \/ Exclusive'
  <2>1. /\ overrun' = overrun /\ auth' = auth /\ age' = age
        /\ \A g \in Refreshers : Running(g)' <=> Running(g)
    BY <1>6 DEF Get, Goto, Running, TypeOK, Actors
  <2> QED
    BY <2>1, OthersExclusive
<1>7. CASE Check \/ UNCHANGED vars \/ Expire \/ \E cooling \in {0, Cooldown} : MarkResult(cooling)
  <2>1. /\ overrun' = overrun /\ auth'.next = auth.next /\ age' = age
        /\ \A g \in Refreshers : Running(g)' <=> Running(g)
    BY <1>7 DEF Check, vars, Expire, MarkResult, Running, TypeOK, Record
  <2> QED
    BY <2>1, OthersExclusive
<1> QED
  BY <1>1, <1>2, <1>3, <1>4, <1>5, <1>6, <1>7 DEF Next, Refresh

(* TokensHeld.                                                               *)

\* Steps that leave the tokens and who holds them alone.
LEMMA OthersTokens ==
    ASSUME TokensHeld, auth'.token = auth.token, issued' = issued,
           \A f \in Refreshers :
               /\ pc'[f] \in {"network", "update"} => pc'[f] = pc[f] /\ clone'[f].token = clone[f].token
               /\ pc'[f] = "update" <=> pc[f] = "update"
    PROVE  TokensHeld'
  BY DEF TokensHeld

LEMMA StartTokens ==
    ASSUME TypeOK, TokensHeld, NEW f \in Refreshers, Start(f)
    PROVE  TokensHeld'
<1>1. clone'[f].token = auth.token
  BY DEF Start, TypeOK, Record, Actors
<1>2. /\ pc[f] = "start" /\ pc'[f] = "network" /\ auth' = auth /\ issued' = issued
      /\ \A g \in Refreshers : g # f => pc'[g] = pc[g] /\ clone'[g] = clone[g]
  BY DEF Start, Goto, TypeOK, Actors
<1> QED
  BY <1>1, <1>2 DEF TokensHeld

LEMMA GrantedTokens ==
    ASSUME TypeOK, TokensHeld, NEW f \in Refreshers, Granted(f)
    PROVE  TokensHeld'
<1>1. pc[f] = "network" /\ clone[f].token = issued
  BY DEF Granted
<1>2. \A g \in Refreshers : pc[g] # "update"
  BY <1>1 DEF TokensHeld
<1>3. /\ auth.token = issued /\ issued \in Nat
      /\ \A g \in Refreshers : pc[g] = "network" => clone[g].token <= issued
  BY <1>2 DEF TokensHeld, TypeOK
<1>4. /\ pc'[f] = "update" /\ auth' = auth /\ issued' = issued + 1
      /\ \A g \in Refreshers : g # f => pc'[g] = pc[g] /\ clone'[g] = clone[g]
  BY DEF Granted, Goto, TypeOK, Actors
<1>5. clone'[f].token = issued + 1
  BY DEF Granted, TypeOK, Actors, Record
<1>6. \A g \in Refreshers : clone[g].token \in Nat
  BY DEF TypeOK, Actors, Record
<1> QED
  BY <1>2, <1>3, <1>4, <1>5, <1>6 DEF TokensHeld

LEMMA EndTokens ==
    ASSUME TypeOK, TokensHeld, NEW f \in Refreshers, Denied(f) \/ Canceled(f) \/ Update(f)
    PROVE  TokensHeld'
<1>1. \A g \in Refreshers : IF g = f THEN pc'[g] = "idle"
                            ELSE pc'[g] = pc[g] /\ clone'[g] = clone[g]
  BY DEF Denied, Canceled, Update, Finish, Goto, TypeOK, Actors
<1>2. CASE Denied(f) \/ Canceled(f)
  <2>1. auth'.token = auth.token /\ issued' = issued /\ pc[f] = "network"
    BY <1>2 DEF Denied, Canceled, AfterFailure, TypeOK, Record
  <2> QED
    BY <1>1, <2>1, OthersTokens
<1>3. CASE Update(f)
  <2>1. clone[f].token = issued /\ issued' = issued
        /\ \A g \in Refreshers : g # f => pc[g] # "update"
    BY <1>3 DEF Update, TokensHeld
  <2>2. auth'.token = issued /\ issued \in Nat
    BY <1>3, <2>1 DEF Update, Written, TypeOK
  <2> QED
    BY <1>1, <2>1, <2>2 DEF TokensHeld
<1> QED
  BY <1>2, <1>3

LEMMA TokensStep ==
    ASSUME TypeOK, PlacesTyped, TokensHeld, [Next]_vars
    PROVE  outdated' \/ TokensHeld'
<1>1. CASE Check \/ UNCHANGED vars \/ Expire \/ \E cooling \in {0, Cooldown} : MarkResult(cooling)
  <2>1. /\ auth'.token = auth.token /\ issued' = issued /\ pc' = pc /\ clone' = clone
    BY <1>1 DEF Check, vars, Expire, MarkResult, TypeOK, Record
  <2> QED
    BY <2>1, OthersTokens
<1>2. CASE Tick
  <2>1. auth'.token = auth.token /\ \A f \in Refreshers : clone'[f].token = clone[f].token
    BY <1>2 DEF Tick, Older, TypeOK, Record, Actors
  <2> QED
    BY <1>2, <2>1, OthersTokens DEF Tick
<1>3. ASSUME NEW f \in Refreshers, Mark(f) PROVE TokensHeld'
  <2>1. auth'.token = auth.token
    BY <1>3 DEF Mark, Claimed, TypeOK, Record
  <2>2. \A g \in Refreshers : pc'[g] = pc[g] \/ (pc[g] = "idle" /\ pc'[g] = "start")
    BY <1>3 DEF Mark, Goto, TypeOK, Actors
  <2> QED
    BY <1>3, <2>1, <2>2, OthersTokens DEF Mark
<1>4. ASSUME NEW o \in Operators, NEW off \in BOOLEAN, Get(o, off) PROVE TokensHeld'
  <2>1. \A f \in Refreshers : pc'[f] = pc[f] /\ clone'[f] = clone[f]
    BY <1>4 DEF Get, Goto, TypeOK, Actors
  <2> QED
    BY <1>4, <2>1, OthersTokens DEF Get
<1>5. ASSUME NEW o \in Operators, Put(o) PROVE outdated' \/ TokensHeld'
  <2>1. \A f \in Refreshers : pc'[f] = pc[f] /\ clone'[f] = clone[f]
    BY <1>5 DEF Put, Finish, Goto, TypeOK, Actors
  <2>2. CASE clone[o].token = auth.token
    BY <1>5, <2>1, <2>2, OthersTokens DEF Put
  <2>3. CASE clone[o].token # auth.token
    BY <1>5, <2>3 DEF Put
  <2> QED
    BY <2>2, <2>3
<1> QED
  BY <1>1, <1>2, <1>3, <1>4, <1>5, StartTokens, GrantedTokens, EndTokens DEF Next, Refresh

LEMMA PlacesStep == TypeOK /\ PlacesTyped /\ [Next]_vars => PlacesTyped'
<1> SUFFICES ASSUME TypeOK, PlacesTyped, [Next]_vars PROVE PlacesTyped'
  OBVIOUS
<1>1. CASE Check \/ Tick \/ Expire \/ UNCHANGED vars
          \/ \E cooling \in {0, Cooldown} : MarkResult(cooling)
  BY <1>1 DEF Check, Tick, Expire, MarkResult, vars, PlacesTyped
<1>2. ASSUME NEW f \in Refreshers, Mark(f) \/ Refresh(f) PROVE PlacesTyped'
  BY <1>2 DEF Mark, Refresh, Start, Granted, Denied, Canceled, Update, Finish, Goto,
              PlacesTyped, TypeOK, Actors
<1>3. ASSUME NEW o \in Operators, Put(o) \/ \E off \in BOOLEAN : Get(o, off)
      PROVE  PlacesTyped'
  BY <1>3 DEF Put, Get, Finish, Goto, PlacesTyped, TypeOK, Actors
<1> QED
  BY <1>1, <1>2, <1>3 DEF Next

LEMMA InvStep == IInv /\ [Next]_vars => IInv'
<1> SUFFICES ASSUME IInv, [Next]_vars PROVE IInv'
  OBVIOUS
<1>1. TypeOK' /\ PlacesTyped'
  BY TypeStep, PlacesStep DEF IInv
<1>2. TypeOK /\ PlacesTyped
  BY DEF IInv
<1>3. CASE outdated
  <2>1. outdated'
    BY <1>3 DEF Next, vars, Check, Tick, Expire, Mark, Refresh, Start, Granted, Denied,
                Canceled, Update, MarkResult, Get, Put
  <2> QED
    BY <1>1, <2>1 DEF IInv
<1>4. CASE (overrun \/ Exclusive) /\ TokensHeld
  <2>1. outdated' \/ overrun' \/ Exclusive'
    BY <1>2, <1>4, ExclusiveStep
  <2>2. outdated' \/ TokensHeld'
    BY <1>2, <1>4, TokensStep
  <2> QED
    BY <1>1, <2>1, <2>2 DEF IInv
<1> QED
  BY <1>3, <1>4 DEF IInv

LEMMA InvAlways == Spec => []IInv
<1>1. Init => IInv
  BY InvInit
<1>2. IInv /\ [Next]_vars => IInv'
  BY InvStep
<1> QED
  BY <1>1, <1>2, PTL DEF Spec

-----------------------------------------------------------------------------

\* markRefreshPending is the lock that checkRefreshes does not hold: however long
\* refreshes take, two of a credential run beside each other only after one of
\* them has outlived its claim or a management call has put an older record back,
\* and once they have ended the next one is alone again.
THEOREM OneRefresh == Spec => []OneRefreshAtATime
<1>1. IInv => OneRefreshAtATime
  <2> SUFFICES ASSUME IInv, ~outdated, ~overrun
               PROVE  Cardinality({f \in Refreshers : Running(f)}) <= 1
    BY DEF OneRefreshAtATime
  <2> DEFINE A == {f \in Refreshers : Running(f)}
  <2>1. CASE A = {}
    BY <2>1, FS_EmptySet
  <2>2. CASE A # {}
    <3>1. PICK f \in Refreshers : Running(f)
      BY <2>2
    <3>2. A = {f}
      BY <3>1 DEF IInv, Exclusive
    <3> QED
      BY <3>2, FS_Singleton
  <2> QED
    BY <2>1, <2>2
<1> QED
  BY <1>1, InvAlways, PTL

\* The newest token is always in the record or with the refresh that writes it
\* next, also while a slow refresh and the one started beside it run: failures,
\* results, the loop and the writing of a refresh never bring a retired token back.
THEOREM NewestTokenKept == Spec => []TokenNotLost
<1>1. IInv => TokenNotLost
  BY DEF IInv, TokensHeld, TokenNotLost
<1> QED
  BY <1>1, InvAlways, PTL

-----------------------------------------------------------------------------
(* MixedExecute: the type invariant.                                         *)

HIDE RefreshAssumption
USE ExecuteAssumption

Stages == {"start", "pick", "choose", "upstream", "remember",
           "forget", "decide", "wait", "done"}
Errors == Codes \cup {"none", "invalid", "cooldown", "unavailable"}

\* The locals of the requests; the histories apart.
LocalsTyped ==
    /\ stage \in [Requests -> Stages]
    /\ attempt \in [Requests -> Nat]
    /\ tried \in [Requests -> SUBSET Auths]
    /\ seen \in [Requests -> [Auths -> Nat \cup {-1}]]
    /\ cur \in [Requests -> Auths \cup {None}]
    /\ wait \in [Requests -> 0 .. MaxWait]
    /\ result \in [Requests -> Errors]
    /\ calls \in [Requests -> [Auths -> Nat]]

SharedTyped ==
    /\ enabled \in [Auths -> BOOLEAN]
    /\ left \in [Auths -> Nat]
    /\ sticky \in [Sessions -> Auths \cup {None}]

LEMMA TypeParts ==
    ExecuteTypeOK <=> SharedTyped /\ LocalsTyped /\ excused \in [Requests -> SUBSET Auths]
  BY DEF ExecuteTypeOK, SharedTyped, LocalsTyped, Stages, Errors

LEMMA NoneTyped == NoSight \in [Auths -> Nat \cup {-1}] /\ NoCalls \in [Auths -> Nat]
  BY DEF NoSight, NoCalls

LEMMA ExcuseTyped ==
    ASSUME excused \in [Requests -> SUBSET Auths], Excuse
    PROVE  excused' \in [Requests -> SUBSET Auths]
  BY DEF Excuse

LEMMA ReturnTyped ==
    ASSUME LocalsTyped, NEW r \in Requests, Return(r)
    PROVE  LocalsTyped'
  BY NoneTyped DEF LocalsTyped, Return, Stages, Errors

LEMMA CallTyped ==
    ASSUME LocalsTyped, NEW r \in Requests, NEW a \in Auths, Call(r, a)
    PROVE  /\ cur' \in [Requests -> Auths \cup {None}]
           /\ tried' \in [Requests -> SUBSET Auths]
           /\ calls' \in [Requests -> [Auths -> Nat]]
           /\ stage' \in [Requests -> Stages]
           /\ result' \in [Requests -> Errors]
<1>1. calls' \in [Requests -> [Auths -> Nat]]
  <2>1. calls' = [calls EXCEPT ![r][a] = IF @ < MaxCalls THEN @ + 1 ELSE @]
    BY DEF Call
  <2>2. calls \in [Requests -> [Auths -> Nat]]
    BY DEF LocalsTyped
  <2> QED
    BY <2>1, <2>2
<1> QED
  BY <1>1 DEF LocalsTyped, Call, Stages

LEMMA StopTyped ==
    ASSUME LocalsTyped, NEW r \in Requests, NEW err \in Errors, Stop(r, err)
    PROVE  /\ stage' \in [Requests -> Stages]
           /\ result' \in [Requests -> Errors]
  BY DEF LocalsTyped, Stop, Stages

LEMMA SelectTyped ==
    ASSUME LocalsTyped, NEW r \in Requests, Select(r)
    PROVE  /\ cur' \in [Requests -> Auths \cup {None}]
           /\ tried' \in [Requests -> SUBSET Auths]
           /\ calls' \in [Requests -> [Auths -> Nat]]
           /\ stage' \in [Requests -> Stages]
           /\ result' \in [Requests -> Errors]
<1>1. ASSUME NEW a \in Available(r), Call(r, a)
      PROVE  /\ cur' \in [Requests -> Auths \cup {None}]
             /\ tried' \in [Requests -> SUBSET Auths]
             /\ calls' \in [Requests -> [Auths -> Nat]]
             /\ stage' \in [Requests -> Stages]
             /\ result' \in [Requests -> Errors]
  BY <1>1, CallTyped DEF Available
<1>2. CASE Stop(r, "cooldown") /\ UNCHANGED <<cur, tried, calls>>
  <2>1. "cooldown" \in Errors
    BY DEF Errors
  <2> QED
    BY <1>2, <2>1, StopTyped DEF LocalsTyped
<1> QED
  BY <1>1, <1>2 DEF Select

LEMMA AdvanceTyped ==
    ASSUME SharedTyped, LocalsTyped, NEW r \in Requests, Advance(r)
    PROVE  SharedTyped' /\ LocalsTyped'
<1> USE DEF SharedTyped, LocalsTyped, Stages
<1>1. CASE Begin(r)
  BY <1>1 DEF Begin, shared
<1>2. CASE Snapshot(r)
  <2> DEFINE cands == {a \in Auths : enabled[a] /\ a \notin tried[r]}
             view == [a \in Auths |-> IF a \in cands THEN left[a] ELSE -1]
  <2>1. view \in [Auths -> Nat \cup {-1}]
    OBVIOUS
  <2>2. "unavailable" \in Errors
    BY DEF Errors
  <2>3. CASE Stop(r, "unavailable") /\ UNCHANGED seen
    BY <1>2, <2>2, <2>3, StopTyped DEF Snapshot, shared
  <2>4. CASE /\ seen' = [seen EXCEPT ![r] = view]
             /\ stage' = [stage EXCEPT ![r] = "choose"]
             /\ UNCHANGED result
    <3> HIDE DEF view
    <3> QED
      BY <1>2, <2>1, <2>4 DEF Snapshot, shared
  <2> QED
    BY <1>2, <2>3, <2>4 DEF Snapshot
<1>3. CASE Choose(r)
  <2> DEFINE a == IF SessionOf[r] = NoSession THEN None ELSE sticky[SessionOf[r]]
  <2>1. seen' \in [Requests -> [Auths -> Nat \cup {-1}]]
    BY <1>3, NoneTyped DEF Choose
  <2>2. UNCHANGED <<enabled, left, attempt, wait>>
    BY <1>3 DEF Choose
  <2>3. sticky' \in [Sessions -> Auths \cup {None}]
    BY <1>3 DEF Choose
  <2>4. Select(r) \/ (a \in Available(r) /\ Call(r, a))
    BY <1>3 DEF Choose
  <2>5. CASE Select(r)
    BY <2>1, <2>2, <2>3, <2>5, SelectTyped
  <2>6. CASE a \in Available(r) /\ Call(r, a)
    <3>1. a \in Auths
      BY <2>6 DEF Available
    <3> QED
      BY <2>1, <2>2, <2>3, <2>6, <3>1, CallTyped
  <2> QED
    BY <2>4, <2>5, <2>6
<1>4. CASE Succeed(r)
  BY <1>4 DEF Succeed
<1>5. CASE Remember(r)
  <2>1. SharedTyped'
    BY <1>5 DEF Remember
  <2> QED
    BY <1>5, <2>1, ReturnTyped DEF Remember
<1>6. ASSUME NEW code \in Codes, Fail(r, code)
      PROVE  SharedTyped' /\ LocalsTyped'
  BY <1>6 DEF Fail, Errors
<1>7. CASE Forget(r)
  BY <1>7 DEF Forget
<1>8. CASE Reject(r)
  BY <1>8 DEF Reject, Errors
<1>9. CASE Cancel(r)
  BY <1>9, ReturnTyped DEF Cancel, shared
<1>10. CASE Decide(r)
  <2>1. CASE Return(r)
    BY <1>10, <2>1, ReturnTyped DEF Decide, shared
  <2>2. ASSUME NEW a \in Cooling(r), left[a] <= MaxWait,
               wait' = [wait EXCEPT ![r] = left[a]],
               stage' = [stage EXCEPT ![r] = "wait"],
               UNCHANGED <<attempt, tried, seen, cur, result, calls>>
        PROVE  SharedTyped' /\ LocalsTyped'
    <3>1. left[a] \in 0 .. MaxWait
      BY <2>2 DEF Cooling
    <3> QED
      BY <1>10, <2>2, <3>1 DEF Decide, shared
  <2> QED
    BY <1>10, <2>1, <2>2 DEF Decide
<1>11. CASE Wake(r)
  BY <1>11 DEF Wake, shared, Errors
<1> QED
  BY <1>1, <1>2, <1>3, <1>4, <1>5, <1>6, <1>7, <1>8, <1>9, <1>10, <1>11 DEF Advance

LEMMA PassTimeTyped ==
    ASSUME SharedTyped, LocalsTyped, PassTime
    PROVE  SharedTyped' /\ LocalsTyped'
<1> DEFINE less(n) == IF n > 0 THEN n - 1 ELSE n
<1>1. /\ \A n \in Nat : less(n) \in Nat
      /\ \A n \in Nat \cup {-1} : less(n) \in Nat \cup {-1}
      /\ \A n \in 0 .. MaxWait : less(n) \in 0 .. MaxWait
  OBVIOUS
<1>2. /\ left' = [a \in Auths |-> less(left[a])]
      /\ seen' = [r \in Requests |-> [a \in Auths |-> less(seen[r][a])]]
      /\ wait' = [r \in Requests |-> less(wait[r])]
  BY DEF PassTime
<1>3. UNCHANGED <<enabled, sticky, stage, attempt, tried, cur, result, calls>>
  BY DEF PassTime
<1> HIDE DEF less
<1>4. left' \in [Auths -> Nat]
  BY <1>1, <1>2 DEF SharedTyped
<1>5. seen' \in [Requests -> [Auths -> Nat \cup {-1}]]
  <2>1. ASSUME NEW r \in Requests
        PROVE  [a \in Auths |-> less(seen[r][a])] \in [Auths -> Nat \cup {-1}]
    <3>1. \A a \in Auths : seen[r][a] \in Nat \cup {-1}
      BY DEF LocalsTyped
    <3>2. \A a \in Auths : less(seen[r][a]) \in Nat \cup {-1}
      BY <1>1, <3>1
    <3> QED
      BY <3>2
  <2> QED
    BY <1>2, <2>1
<1>6. wait' \in [Requests -> 0 .. MaxWait]
  BY <1>1, <1>2 DEF LocalsTyped
<1> QED
  BY <1>3, <1>4, <1>5, <1>6 DEF SharedTyped, LocalsTyped

LEMMA ExecuteTypeStep == ExecuteTypeOK /\ [ExecuteNext]_executeVars => ExecuteTypeOK'
<1> SUFFICES ASSUME SharedTyped, LocalsTyped, excused \in [Requests -> SUBSET Auths],
                    [ExecuteNext]_executeVars
             PROVE  /\ SharedTyped' /\ LocalsTyped'
                    /\ excused' \in [Requests -> SUBSET Auths]
  BY TypeParts DEF ExecuteTypeOK, SharedTyped, LocalsTyped, Stages, Errors
<1>1. ASSUME NEW r \in Requests, Advance(r)
      PROVE  SharedTyped' /\ LocalsTyped'
  BY <1>1, AdvanceTyped
<1>2. ASSUME NEW a \in Toggled, Toggle(a)
      PROVE  SharedTyped' /\ LocalsTyped'
  BY <1>2 DEF SharedTyped, LocalsTyped, Toggle
<1>3. ASSUME NEW s \in Sessions, Forgotten(s)
      PROVE  SharedTyped' /\ LocalsTyped'
  BY <1>3 DEF SharedTyped, LocalsTyped, Forgotten
<1>4. CASE UNCHANGED executeVars
  BY <1>4 DEF SharedTyped, LocalsTyped, executeVars
<1>5. SharedTyped' /\ LocalsTyped'
  BY <1>1, <1>2, <1>3, <1>4, PassTimeTyped DEF ExecuteNext
<1>6. Excuse \/ UNCHANGED excused
  BY DEF ExecuteNext, executeVars, Advance, Begin, Snapshot, Choose, Succeed, Remember,
         Fail, Forget, Reject, Cancel, Decide, Wake, PassTime, Toggle, Forgotten
<1> QED
  BY <1>5, <1>6, ExcuseTyped

\* Every variable keeps its type.
THEOREM ExecuteTyped == ExecuteSpec => []ExecuteTypeOK
<1>1. ExecuteInit => ExecuteTypeOK
  BY NoneTyped DEF ExecuteInit, ExecuteTypeOK
<1> QED
  BY <1>1, ExecuteTypeStep, PTL DEF ExecuteSpec

-----------------------------------------------------------------------------
(* What is known of one request. *)

\* The clones a pick works on: no tried credential is among them, and one that
\* is not usable was out of reach at some instant of this attempt.
ClonesJustified(r) ==
    stage[r] = "choose" =>
        \A a \in Auths : /\ seen[r][a] >= 0 => a \notin tried[r]
                         /\ a \in tried[r] \cup excused[r] \/ seen[r][a] = 0

\* Every call of the attempt was to a credential that counts as tried since.
CallsCounted(r) ==
    \A a \in Auths : calls[r][a] <= attempt[r] + (IF a \in tried[r] THEN 1 ELSE 0)

\* A request waits only if some credential allows one more attempt.
AttemptsAllowed(r) ==
    /\ attempt[r] > 0 => \E a \in Auths : attempt[r] <= Retries[a]
    /\ stage[r] = "wait" => \E a \in Auths : attempt[r] < Retries[a]

Justified(r) ==
    stage[r] = "decide" /\ result[r] \in Codes \cup {"cooldown", "unavailable"}
        => tried[r] \cup excused[r] = Auths

Local(r) == ClonesJustified(r) /\ CallsCounted(r) /\ AttemptsAllowed(r) /\ Justified(r)

ExecuteInv == ExecuteTypeOK /\ \A r \in Requests : Local(r)

\* What the other requests, operators and the clock do to a request: nothing,
\* but that its clones grow older, and credentials are excused.
Elsewhere(r) ==
    /\ stage'[r] = stage[r] /\ attempt'[r] = attempt[r] /\ tried'[r] = tried[r]
    /\ result'[r] = result[r] /\ calls'[r] = calls[r]
    /\ \A a \in Auths : /\ seen'[r][a] >= 0 => seen[r][a] >= 0
                        /\ seen[r][a] = 0 => seen'[r][a] = 0
    /\ stage[r] # "start" /\ stage[r] # "done" => excused[r] \subseteq excused'[r]

LEMMA Excused ==
    ASSUME ExecuteTypeOK, Excuse, NEW r \in Requests,
           attempt'[r] = attempt[r], stage[r] # "start", stage'[r] # "done"
    PROVE  /\ excused[r] \subseteq excused'[r]
           /\ \A a \in Auths : left[a] > 0 \/ ~enabled[a] => a \in excused'[r]
<1>1. excused'[r] = excused[r] \cup {a \in Auths : left[a] > 0 \/ ~enabled[a]}
  BY DEF Excuse
<1> QED
  BY <1>1

LEMMA ElsewhereKeeps ==
    ASSUME ExecuteTypeOK, ExecuteTypeOK', NEW r \in Requests, Local(r), Elsewhere(r)
    PROVE  Local(r)'
<1>1. ClonesJustified(r)'
  BY DEF Local, ClonesJustified, Elsewhere
<1>2. CallsCounted(r)'
  BY DEF Local, CallsCounted, Elsewhere
<1>3. AttemptsAllowed(r)'
  BY DEF Local, AttemptsAllowed, Elsewhere
<1>4. Justified(r)'
  <2> SUFFICES ASSUME stage[r] = "decide",
                      result[r] \in Codes \cup {"cooldown", "unavailable"}
               PROVE  tried[r] \cup excused'[r] = Auths
    BY DEF Justified, Elsewhere
  <2>1. tried[r] \cup excused[r] = Auths
    BY DEF Local, Justified
  <2>2. excused[r] \subseteq excused'[r] /\ excused'[r] \subseteq Auths
    BY DEF Elsewhere, ExecuteTypeOK
  <2> QED
    BY <2>1, <2>2
<1> QED
  BY <1>1, <1>2, <1>3, <1>4 DEF Local

LEMMA OthersElsewhere ==
    ASSUME ExecuteTypeOK, NEW q \in Requests, NEW r \in Requests, q # r, Advance(q)
    PROVE  Elsewhere(r)
<1> USE DEF ExecuteTypeOK
<1>1. /\ stage'[r] = stage[r] /\ attempt'[r] = attempt[r] /\ tried'[r] = tried[r]
      /\ result'[r] = result[r] /\ calls'[r] = calls[r] /\ seen'[r] = seen[r]
  <2>1. CASE Begin(q)
    BY <2>1 DEF Begin
  <2>2. CASE Snapshot(q)
    BY <2>2 DEF Snapshot, Stop
  <2>3. CASE Choose(q)
    BY <2>3 DEF Choose, Select, Call, Stop
  <2>4. CASE Succeed(q) \/ Forget(q) \/ Reject(q) \/ Wake(q)
    BY <2>4 DEF Succeed, Forget, Reject, Wake
  <2>5. ASSUME NEW code \in Codes, Fail(q, code)
        PROVE  /\ stage'[r] = stage[r] /\ attempt'[r] = attempt[r] /\ tried'[r] = tried[r]
               /\ result'[r] = result[r] /\ calls'[r] = calls[r] /\ seen'[r] = seen[r]
    BY <2>5 DEF Fail
  <2>6. CASE Return(q)
    BY <2>6 DEF Return
  <2>7. CASE Decide(q) /\ ~Return(q)
    BY <2>7 DEF Decide
  <2> QED
    BY <2>1, <2>2, <2>3, <2>4, <2>5, <2>6, <2>7 DEF Advance, Remember, Cancel
<1>2. Excuse
  BY DEF Advance, Begin, Snapshot, Choose, Succeed, Remember, Fail, Forget, Reject,
         Cancel, Decide, Wake
<1> QED
  BY <1>1, <1>2, Excused DEF Elsewhere

LEMMA EnvironmentElsewhere ==
    ASSUME ExecuteTypeOK, NEW r \in Requests,
           \/ PassTime \/ (\E a \in Toggled : Toggle(a))
           \/ (\E s \in Sessions : Forgotten(s)) \/ UNCHANGED executeVars
    PROVE  Elsewhere(r)
<1>1. UNCHANGED <<stage, attempt, tried, result, calls>>
  BY DEF PassTime, Toggle, Forgotten, executeVars
<1>2. \A a \in Auths : /\ seen'[r][a] >= 0 => seen[r][a] >= 0
                       /\ seen[r][a] = 0 => seen'[r][a] = 0
  <2>1. CASE PassTime
    <3> DEFINE less(n) == IF n > 0 THEN n - 1 ELSE n
    <3>1. seen'[r] = [a \in Auths |-> less(seen[r][a])]
      BY <2>1 DEF PassTime
    <3>2. \A a \in Auths : seen[r][a] \in Nat \cup {-1}
      BY DEF ExecuteTypeOK
    <3> QED
      BY <3>1, <3>2
  <2> QED
    BY <2>1 DEF Toggle, Forgotten, executeVars
<1>3. Excuse \/ UNCHANGED excused
  BY DEF PassTime, Toggle, Forgotten, executeVars
<1> QED
  BY <1>1, <1>2, <1>3, Excused DEF Elsewhere

-----------------------------------------------------------------------------
(* What the steps of a request do to it. *)

LEMMA ReturnKeeps ==
    ASSUME ExecuteTypeOK, NEW r \in Requests, Return(r)
    PROVE  Local(r)'
<1>1. /\ stage'[r] = "done" /\ attempt'[r] = 0 /\ tried'[r] = {}
      /\ calls'[r] = NoCalls
  BY DEF Return, ExecuteTypeOK
<1> QED
  BY <1>1 DEF Local, ClonesJustified, CallsCounted, AttemptsAllowed, Justified, NoCalls

LEMMA SnapshotKeeps ==
    ASSUME ExecuteTypeOK, NEW r \in Requests, Local(r), Snapshot(r)
    PROVE  Local(r)'
<1> DEFINE cands == {a \in Auths : enabled[a] /\ a \notin tried[r]}
<1>1. stage[r] = "pick" /\ UNCHANGED <<attempt, tried, calls>> /\ Excuse
  BY DEF Snapshot
<1>2. stage'[r] \in {"choose", "decide"}
  BY DEF Snapshot, Stop, ExecuteTypeOK
<1>3. \A a \in Auths : left[a] > 0 \/ ~enabled[a] => a \in excused'[r]
  BY <1>1, <1>2, Excused
<1>4. ClonesJustified(r)'
  <2> SUFFICES ASSUME stage'[r] = "choose", NEW a \in Auths
               PROVE  /\ seen'[r][a] >= 0 => a \notin tried[r]
                      /\ a \in tried[r] \cup excused'[r] \/ seen'[r][a] = 0
    BY <1>1 DEF ClonesJustified
  <2>1. seen'[r][a] = IF a \in cands THEN left[a] ELSE -1
    BY DEF Snapshot, Stop, ExecuteTypeOK
  <2>2. left[a] \in Nat
    BY DEF ExecuteTypeOK
  <2> QED
    BY <2>1, <2>2, <1>3
<1>5. CallsCounted(r)' /\ AttemptsAllowed(r)'
  BY <1>1, <1>2 DEF Local, CallsCounted, AttemptsAllowed
<1>6. Justified(r)'
  <2> SUFFICES ASSUME stage'[r] = "decide" PROVE tried[r] \cup excused'[r] = Auths
    BY <1>1 DEF Justified
  <2>1. cands = {}
    BY DEF Snapshot, ExecuteTypeOK
  <2>2. tried[r] \subseteq Auths /\ excused'[r] \subseteq Auths
    BY <1>1, ExcuseTyped DEF ExecuteTypeOK
  <2> QED
    BY <2>1, <2>2, <1>3
<1> QED
  BY <1>4, <1>5, <1>6 DEF Local

LEMMA CallKeeps ==
    ASSUME ExecuteTypeOK, NEW r \in Requests, Local(r), stage[r] = "choose",
           NEW a \in Available(r), Call(r, a), UNCHANGED attempt
    PROVE  Local(r)'
<1>1. stage'[r] = "upstream"
  BY DEF Call, ExecuteTypeOK
<1>2. a \in Auths /\ a \notin tried[r]
  BY DEF Available, Local, ClonesJustified
<1>3. tried'[r] = tried[r] \cup {a}
  BY DEF Call, ExecuteTypeOK
<1>4. \A b \in Auths : \/ calls'[r][b] = calls[r][b]
                       \/ b = a /\ calls'[r][b] = calls[r][b] + 1
  BY <1>2 DEF Call, ExecuteTypeOK
<1>5. attempt[r] \in Nat /\ \A b \in Auths : calls[r][b] \in Nat
  BY DEF ExecuteTypeOK
<1>6. CallsCounted(r)'
  BY <1>2, <1>3, <1>4, <1>5 DEF Local, CallsCounted
<1> QED
  BY <1>1, <1>6 DEF Local, ClonesJustified, AttemptsAllowed, Justified

LEMMA SelectKeeps ==
    ASSUME ExecuteTypeOK, NEW r \in Requests, Local(r), stage[r] = "choose",
           Select(r), UNCHANGED attempt, Excuse
    PROVE  Local(r)'
<1>1. CASE \E a \in Available(r) : Call(r, a)
  BY <1>1, CallKeeps
<1>2. CASE Available(r) = {} /\ Stop(r, "cooldown") /\ UNCHANGED <<cur, tried, calls>>
  <2>1. stage'[r] = "decide"
    BY <1>2 DEF Stop, ExecuteTypeOK
  <2>2. excused[r] \subseteq excused'[r] /\ excused'[r] \subseteq Auths
    BY <2>1, Excused, ExcuseTyped DEF ExecuteTypeOK
  <2>3. tried[r] \cup excused'[r] = Auths
    BY <1>2, <2>2 DEF Available, Local, ClonesJustified, ExecuteTypeOK
  <2> QED
    BY <1>2, <2>1, <2>3
       DEF Local, ClonesJustified, CallsCounted, AttemptsAllowed, Justified
<1> QED
  BY <1>1, <1>2 DEF Select

LEMMA ChooseKeeps ==
    ASSUME ExecuteTypeOK, NEW r \in Requests, Local(r), Choose(r)
    PROVE  Local(r)'
<1>1. stage[r] = "choose" /\ UNCHANGED attempt /\ Excuse
  BY DEF Choose
<1>2. Select(r) \/ \E a \in Available(r) : Call(r, a)
  BY DEF Choose
<1> QED
  BY <1>1, <1>2, SelectKeeps, CallKeeps

LEMMA DecideKeeps ==
    ASSUME ExecuteTypeOK, NEW r \in Requests, Local(r), Decide(r)
    PROVE  Local(r)'
<1>1. CASE Return(r)
  BY <1>1, ReturnKeeps
<1>2. ASSUME NEW a \in Cooling(r), stage' = [stage EXCEPT ![r] = "wait"],
             UNCHANGED <<attempt, tried, calls>>
      PROVE  Local(r)'
  <2>1. stage'[r] = "wait"
    BY <1>2 DEF ExecuteTypeOK
  <2>2. a \in Auths /\ attempt[r] < Retries[a]
    BY DEF Cooling
  <2> QED
    BY <1>2, <2>1, <2>2
       DEF Local, ClonesJustified, CallsCounted, AttemptsAllowed, Justified
<1> QED
  BY <1>1, <1>2 DEF Decide

LEMMA WakeKeeps ==
    ASSUME ExecuteTypeOK, NEW r \in Requests, Local(r), Wake(r)
    PROVE  Local(r)'
<1>1. /\ stage[r] = "wait" /\ stage'[r] = "pick"
      /\ attempt'[r] = attempt[r] + 1 /\ tried'[r] = {} /\ UNCHANGED calls
  BY DEF Wake, ExecuteTypeOK
<1>2. attempt[r] \in Nat /\ \A a \in Auths : calls[r][a] \in Nat
  BY DEF ExecuteTypeOK
<1>3. CallsCounted(r)'
  BY <1>1, <1>2 DEF Local, CallsCounted
<1>4. \E a \in Auths : attempt[r] + 1 <= Retries[a]
  BY <1>1, <1>2 DEF Local, AttemptsAllowed
<1> QED
  BY <1>1, <1>3, <1>4 DEF Local, ClonesJustified, AttemptsAllowed, Justified

\* The other steps lead to no pick, no wait, and to Execute only with an error
\* that is not retried.
LEMMA PlainKeeps ==
    ASSUME ExecuteTypeOK, NEW r \in Requests, Local(r),
           \/ Begin(r) \/ Succeed(r) \/ (\E code \in Codes : Fail(r, code))
           \/ Forget(r) \/ Reject(r)
    PROVE  Local(r)'
<1>1. UNCHANGED <<attempt, tried, calls>>
  BY DEF Begin, Succeed, Fail, Forget, Reject
<1>2. \/ stage'[r] \in {"pick", "remember", "forget"}
      \/ stage'[r] = "decide" /\ result'[r] = "invalid"
  BY DEF Begin, Succeed, Fail, Forget, Reject, ExecuteTypeOK
<1> QED
  BY <1>1, <1>2 DEF Local, ClonesJustified, CallsCounted, AttemptsAllowed, Justified

LEMMA ExecuteInvStep == ExecuteInv /\ [ExecuteNext]_executeVars => ExecuteInv'
<1> SUFFICES ASSUME ExecuteInv, [ExecuteNext]_executeVars
             PROVE  ExecuteInv'
  OBVIOUS
<1>1. ExecuteTypeOK /\ ExecuteTypeOK'
  BY ExecuteTypeStep DEF ExecuteInv
<1>2. ASSUME NEW r \in Requests
      PROVE  Local(r)'
  <2>0. Local(r)
    BY DEF ExecuteInv
  <2>1. CASE Advance(r)
    BY <1>1, <2>0, <2>1, ReturnKeeps, SnapshotKeeps, ChooseKeeps, DecideKeeps, WakeKeeps,
       PlainKeeps DEF Advance, Remember, Cancel
  <2>2. ASSUME NEW q \in Requests, q # r, Advance(q)
        PROVE  Local(r)'
    BY <1>1, <2>0, <2>2, OthersElsewhere, ElsewhereKeeps
  <2>3. CASE \/ PassTime \/ (\E a \in Toggled : Toggle(a))
             \/ (\E s \in Sessions : Forgotten(s)) \/ UNCHANGED executeVars
    BY <1>1, <2>0, <2>3, EnvironmentElsewhere, ElsewhereKeeps
  <2> QED
    BY <2>1, <2>2, <2>3 DEF ExecuteNext
<1> QED
  BY <1>1, <1>2 DEF ExecuteInv

LEMMA ExecuteInvAlways == ExecuteSpec => []ExecuteInv
<1>1. ExecuteInit => ExecuteInv
  BY NoneTyped DEF ExecuteInit, ExecuteInv, ExecuteTypeOK, Local, ClonesJustified,
     CallsCounted, AttemptsAllowed, Justified, NoCalls
<1> QED
  BY <1>1, ExecuteInvStep, PTL DEF ExecuteSpec

-----------------------------------------------------------------------------

\* Whatever other requests, operators and the clock do, a request calls a
\* credential at most once per attempt of Manager.Execute, and makes at most
\* one attempt more than the largest request-retry.
THEOREM CallsAreBounded == ExecuteSpec => []CallsBounded
<1>1. ExecuteInv => CallsBounded
  <2> SUFFICES ASSUME ExecuteInv, NEW r \in Requests
               PROVE  /\ attempt[r] > 0 => \E a \in Auths : attempt[r] <= Retries[a]
                      /\ \A a \in Auths : calls[r][a] <= attempt[r] + 1
    BY DEF CallsBounded
  <2>1. attempt[r] \in Nat /\ \A a \in Auths : calls[r][a] \in Nat
    BY DEF ExecuteInv, ExecuteTypeOK
  <2> QED
    BY <2>1 DEF ExecuteInv, Local, CallsCounted, AttemptsAllowed
<1> QED
  BY <1>1, ExecuteInvAlways, PTL

\* executeMixedOnce gives up only when each credential has failed in this
\* attempt, or was cooling down or disabled at some instant of it, although it
\* picks among clones that others make stale.
THEOREM GivingUpIsJustified == ExecuteSpec => []GiveUpJustified
<1>1. ExecuteInv => GiveUpJustified
  BY DEF ExecuteInv, Local, Justified, GiveUpJustified
<1> QED
  BY <1>1, ExecuteInvAlways, PTL
=============================================================================
