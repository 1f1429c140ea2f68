------------------------ MODULE ProviderSlotsProofs ------------------------
(***************************************************************************)
(* TLAPS proofs about ProviderSlots, for any number of requests,           *)
(* credentials, providers, limits and reconfigurations.                    *)
(***************************************************************************)
EXTENDS ProviderSlots, FiniteSetTheorems, TLAPS

\* The local variable of an idle goroutine names some credential.
LEMMA NoAuthType == NoAuth \in Auths
  BY SlotsAssumption DEF NoAuth

\* Sets of attempts can be counted.
LEMMA RequestsCount ==
  ASSUME NEW S \in SUBSET Requests
  PROVE  IsFiniteSet(S) /\ Cardinality(S) \in Nat
  BY SlotsAssumption, FS_Subset, FS_CardinalityType

\* A set of attempts that gains an element it did not have.
LEMMA CountJoin ==
  ASSUME NEW S \in SUBSET Requests, NEW r \in Requests, r \notin S
  PROVE  Cardinality(S \cup {r}) = Cardinality(S) + 1
  BY RequestsCount, FS_AddElement

\* A set of attempts that loses one of its elements.
LEMMA CountLeave ==
  ASSUME NEW S \in SUBSET Requests, NEW r \in S
  PROVE  Cardinality(S) > 0 /\ Cardinality(S \ {r}) = Cardinality(S) - 1
<1>1. Cardinality(S \ {r}) = Cardinality(S) - 1
  BY RequestsCount, FS_RemoveElement
<1>2. Cardinality(S \ {r}) \in Nat /\ Cardinality(S) \in Nat
  BY RequestsCount
<1> QED BY <1>1, <1>2

-----------------------------------------------------------------------------
\* Types.

LEMMA TypeInit == Init => TypeOK
  BY NoAuthType, SlotsAssumption
  DEF Init, TypeOK, Generations, Steps, Nil

LEMMA ProvType ==
  ASSUME TypeOK, NEW r \in Requests
  PROVE  Prov(r) \in Providers
  BY SlotsAssumption DEF TypeOK, Prov

LEMMA UnloadType ==
  ASSUME TypeOK, NEW r \in Requests, Unload(r)
  PROVE  providerLoad' \in [Providers -> Nat] /\ authLoad' \in [Auths -> Nat]
  BY ProvType DEF TypeOK, Unload

LEMMA GiveBackType ==
  ASSUME TypeOK, NEW r \in Requests, GiveBack(r)
  PROVE  occ' \in [Generations -> [Providers -> Nat]]
<1>1. CASE chan[r] = Nil
  BY <1>1 DEF TypeOK, GiveBack
<1>2. CASE chan[r] # Nil
  <2>1. chan[r] \in Generations /\ Prov(r) \in Providers
    BY <1>2, ProvType DEF TypeOK
  <2>2. occ[chan[r]] \in [Providers -> Nat] /\ occ[chan[r]][Prov(r)] - 1 \in Nat
    BY <1>2, <2>1 DEF TypeOK, GiveBack
  <2>3. occ' = [occ EXCEPT ![chan[r]][Prov(r)] = @ - 1]
    BY <1>2 DEF GiveBack
  <2>4. [occ[chan[r]] EXCEPT ![Prov(r)] = @ - 1] \in [Providers -> Nat]
    BY <2>1, <2>2
  <2> QED BY <2>1, <2>3, <2>4 DEF TypeOK
<1> QED BY <1>1, <1>2

LEMMA TypeStep == TypeOK /\ [Next]_vars => TypeOK'
<1> SUFFICES ASSUME TypeOK, [Next]_vars PROVE TypeOK'
  OBVIOUS
<1> USE DEF TypeOK, Steps
<1>1. CASE UNCHANGED vars
  BY <1>1 DEF vars, reqVars, loadVars
<1>2. ASSUME NEW l \in [Providers -> LimitChoices], Configure(l) PROVE TypeOK'
  <2>1. l \in [Providers -> Nat]
    BY SlotsAssumption
  <2>2. gen + 1 \in Generations
    BY <1>2, SlotsAssumption DEF Configure, Generations
  <2> QED BY <1>2, <2>1, <2>2 DEF Configure, reqVars, loadVars
<1>3. ASSUME NEW r \in Requests, NEW a \in Auths, NEW s \in BOOLEAN, Route(r, a, s)
      PROVE TypeOK'
  <2>1. Semaphore(ProviderOf[a]) \in Generations \cup {Nil}
    BY DEF Semaphore
  <2> QED BY <1>3, <2>1 DEF Route, loadVars
<1>4. ASSUME NEW r \in Requests, Acquire(r) PROVE TypeOK'
  <2>1. Prov(r) \in Providers /\ chan[r] \in Generations \cup {Nil}
    BY ProvType
  <2>2. CASE chan[r] \in Generations
    <3>1. [occ[chan[r]] EXCEPT ![Prov(r)] = @ + 1] \in [Providers -> Nat]
      BY <2>1, <2>2
    <3>2. occ' \in [Generations -> [Providers -> Nat]]
      BY <1>4, <2>2, <3>1 DEF Acquire
    <3> QED BY <1>4, <3>2 DEF Acquire, reqVars, loadVars
  <2>3. CASE chan[r] = Nil
    <3>1. Nil \notin Generations
      BY SlotsAssumption DEF Nil, Generations
    <3>2. occ' \in [Generations -> [Providers -> Nat]]
      BY <1>4, <2>3, <3>1 DEF Acquire
    <3> QED BY <1>4, <3>2 DEF Acquire, reqVars, loadVars
  <2> QED BY <2>1, <2>2, <2>3
<1>5. ASSUME NEW r \in Requests, Cancel(r) PROVE TypeOK'
  BY <1>5 DEF Cancel, loadVars
<1>6. ASSUME NEW r \in Requests, ChunkError(r) PROVE TypeOK'
  BY <1>6, UnloadType DEF ChunkError, reqVars
<1>7. ASSUME NEW r \in Requests, Abandon(r) PROVE TypeOK'
  BY <1>7, NoAuthType DEF Abandon, Leave, loadVars
<1>8. ASSUME NEW r \in Requests, BeginLoad(r) PROVE TypeOK'
  BY <1>8, ProvType DEF BeginLoad, reqVars
<1>9. ASSUME NEW r \in Requests, Return(r) PROVE TypeOK'
  BY <1>9, UnloadType DEF Return, reqVars
<1>10. ASSUME NEW r \in Requests, Release(r) PROVE TypeOK'
  BY <1>10, NoAuthType, GiveBackType DEF Release, Leave, loadVars
<1>11. ASSUME NEW r \in Requests, RefuseStream(r) PROVE TypeOK'
  BY <1>11, GiveBackType DEF RefuseStream, reqVars, loadVars
<1>12. ASSUME NEW r \in Requests, FinishRefused(r) PROVE TypeOK'
  BY <1>12, NoAuthType, UnloadType DEF FinishRefused, Leave
<1>13. ASSUME NEW r \in Requests, OpenStream(r) PROVE TypeOK'
  BY <1>13 DEF OpenStream, reqVars, loadVars
<1>14. ASSUME NEW r \in Requests, CloseStream(r) PROVE TypeOK'
  BY <1>14, UnloadType DEF CloseStream, reqVars
<1>15. ASSUME NEW r \in Requests, CloseFailed(r) PROVE TypeOK'
  BY <1>15 DEF CloseFailed, reqVars, loadVars
<1> QED
  BY <1>1, <1>2, <1>3, <1>4, <1>5, <1>6, <1>7, <1>8, <1>9, <1>10, <1>11, <1>12,
     <1>13, <1>14, <1>15 DEF Next, Advance

\* Every variable keeps its type, whatever the instance.
THEOREM TypeCorrect == Spec => []TypeOK
  BY TypeInit, TypeStep, PTL DEF Spec

-----------------------------------------------------------------------------
\* Slots.

\* A step of r that neither sends nor receives: the same attempts own tokens.
LEMMA HoldersKept ==
  ASSUME TypeOK, SlotsConserved, occ' = occ,
         \A g \in Generations, p \in Providers : Holders(g, p)' = Holders(g, p)
  PROVE  SlotsConserved'
  BY DEF SlotsConserved

\* Giving a slot back takes exactly r out of the owners of its channel.
LEMMA SlotReturned ==
  ASSUME TypeOK, SlotsConserved, NEW r \in Requests,
         pc[r] \in HoldSteps, GiveBack(r),
         \A g \in Generations, p \in Providers :
             Holders(g, p)' = Holders(g, p) \ {r}
  PROVE  SlotsConserved'
<1> SUFFICES ASSUME NEW g \in Generations, NEW p \in Providers
             PROVE  occ'[g][p] = Cardinality(Holders(g, p)')
  BY DEF SlotsConserved
<1>0. Holders(g, p) \in SUBSET Requests /\ occ[g][p] = Cardinality(Holders(g, p))
  BY DEF Holders, SlotsConserved
<1>1. CASE chan[r] = g /\ Prov(r) = p
  <2>1. r \in Holders(g, p)
    BY <1>1 DEF Holders
  <2>2. g # Nil
    BY SlotsAssumption DEF Generations, Nil
  <2>3. occ'[g][p] = occ[g][p] - 1
    BY <1>1, <2>2 DEF GiveBack, TypeOK
  <2> QED BY <1>0, <2>1, <2>3, CountLeave
<1>2. CASE ~(chan[r] = g /\ Prov(r) = p)
  <2>1. Holders(g, p) \ {r} = Holders(g, p)
    BY <1>2 DEF Holders
  <2>2. occ'[g][p] = occ[g][p]
    <3>1. CASE chan[r] = Nil
      BY <3>1 DEF GiveBack
    <3>2. CASE chan[r] # Nil
      <4>1. chan[r] \in Generations /\ Prov(r) \in Providers
        BY <3>2, ProvType DEF TypeOK
      <4>2. occ' = [occ EXCEPT ![chan[r]][Prov(r)] = @ - 1]
        BY <3>2 DEF GiveBack
      <4>3. occ \in [Generations -> [Providers -> Nat]]
        BY DEF TypeOK
      <4> QED BY <1>2, <4>1, <4>2, <4>3
    <3> QED BY <3>1, <3>2
  <2> QED BY <1>0, <2>1, <2>2
<1> QED BY <1>1, <1>2

LEMMA SlotInit == Init => SlotsConserved
<1> SUFFICES ASSUME Init, NEW g \in Generations, NEW p \in Providers
             PROVE  occ[g][p] = Cardinality(Holders(g, p))
  BY DEF SlotsConserved
<1>1. Holders(g, p) = {}
  BY DEF Init, Holders, HoldSteps
<1>2. occ[g][p] = 0
  BY DEF Init
<1> QED BY <1>1, <1>2, FS_EmptySet

LEMMA SlotStep ==
  ASSUME TypeOK, SlotsConserved, ChannelsSound, [Next]_vars
  PROVE  SlotsConserved'
<1> USE DEF HoldSteps, Steps
<1>0. Nil \notin Generations
  BY SlotsAssumption DEF Nil, Generations
<1>1. CASE UNCHANGED vars
  BY <1>1 DEF vars, reqVars, loadVars, SlotsConserved, Holders, Prov
<1>2. ASSUME NEW l \in [Providers -> LimitChoices], Configure(l) PROVE SlotsConserved'
  BY <1>2 DEF Configure, reqVars, loadVars, SlotsConserved, Holders, Prov
<1>3. ASSUME NEW r \in Requests, NEW a \in Auths, NEW s \in BOOLEAN, Route(r, a, s)
      PROVE SlotsConserved'
  <2>1. \A g \in Generations, p \in Providers : Holders(g, p)' = Holders(g, p)
    BY <1>0, <1>3 DEF Route, TypeOK, Holders, Prov
  <2> QED BY <1>3, <2>1, HoldersKept DEF Route
<1>4. ASSUME NEW r \in Requests, Acquire(r) PROVE SlotsConserved'
  <2>1. chan[r] \in Generations /\ Prov(r) \in Providers
    BY <1>4, ProvType DEF Acquire, TypeOK, ChannelsSound
  <2> SUFFICES ASSUME NEW g \in Generations, NEW p \in Providers
               PROVE  occ'[g][p] = Cardinality(Holders(g, p)')
    BY DEF SlotsConserved
  <2>2. Holders(g, p) \in SUBSET Requests /\ occ[g][p] = Cardinality(Holders(g, p))
    BY DEF Holders, SlotsConserved
  <2>3. CASE chan[r] = g /\ Prov(r) = p
    <3>1. Holders(g, p)' = Holders(g, p) \cup {r} /\ r \notin Holders(g, p)
      BY <1>4, <2>3 DEF Acquire, reqVars, TypeOK, Holders, Prov
    <3>2. occ'[g][p] = occ[g][p] + 1
      BY <1>4, <2>1, <2>3 DEF Acquire, TypeOK
    <3> QED BY <2>2, <3>1, <3>2, CountJoin
  <2>4. CASE ~(chan[r] = g /\ Prov(r) = p)
    <3>1. Holders(g, p)' = Holders(g, p)
      BY <1>4, <2>4 DEF Acquire, reqVars, TypeOK, Holders, Prov
    <3>2. occ'[g][p] = occ[g][p]
      BY <1>4, <2>1, <2>4 DEF Acquire, TypeOK
    <3> QED BY <2>2, <3>1, <3>2
  <2> QED BY <2>3, <2>4
<1>5. ASSUME NEW r \in Requests, Cancel(r) PROVE SlotsConserved'
  BY <1>5 DEF Cancel, SlotsConserved, Holders, Prov
<1>6. ASSUME NEW r \in Requests, ChunkError(r) PROVE SlotsConserved'
  <2>1. \A g \in Generations, p \in Providers : Holders(g, p)' = Holders(g, p)
    BY <1>6 DEF ChunkError, reqVars, TypeOK, Holders, Prov
  <2> QED BY <1>6, <2>1, HoldersKept DEF ChunkError
<1>7. ASSUME NEW r \in Requests, Abandon(r) PROVE SlotsConserved'
  <2>1. \A g \in Generations, p \in Providers : Holders(g, p)' = Holders(g, p)
    BY <1>7 DEF Abandon, Leave, TypeOK, Holders, Prov
  <2> QED BY <1>7, <2>1, HoldersKept DEF Abandon
<1>8. ASSUME NEW r \in Requests, BeginLoad(r) PROVE SlotsConserved'
  <2>1. \A g \in Generations, p \in Providers : Holders(g, p)' = Holders(g, p)
    BY <1>8 DEF BeginLoad, reqVars, TypeOK, Holders, Prov
  <2> QED BY <1>8, <2>1, HoldersKept DEF BeginLoad
<1>9. ASSUME NEW r \in Requests, Return(r) PROVE SlotsConserved'
  <2>1. \A g \in Generations, p \in Providers : Holders(g, p)' = Holders(g, p)
    BY <1>9 DEF Return, reqVars, TypeOK, Holders, Prov
  <2> QED BY <1>9, <2>1, HoldersKept DEF Return
<1>10. ASSUME NEW r \in Requests, Release(r) PROVE SlotsConserved'
  <2>1. \A g \in Generations, p \in Providers : Holders(g, p)' = Holders(g, p) \ {r}
    BY <1>10 DEF Release, Leave, TypeOK, Holders, Prov
  <2> QED BY <1>10, <2>1, SlotReturned DEF Release
<1>11. ASSUME NEW r \in Requests, RefuseStream(r) PROVE SlotsConserved'
  <2>1. \A g \in Generations, p \in Providers : Holders(g, p)' = Holders(g, p) \ {r}
    BY <1>11 DEF RefuseStream, reqVars, TypeOK, Holders, Prov
  <2> QED BY <1>11, <2>1, SlotReturned DEF RefuseStream
<1>12. ASSUME NEW r \in Requests, FinishRefused(r) PROVE SlotsConserved'
  <2>1. \A g \in Generations, p \in Providers : Holders(g, p)' = Holders(g, p)
    BY <1>12 DEF FinishRefused, Leave, TypeOK, Holders, Prov
  <2> QED BY <1>12, <2>1, HoldersKept DEF FinishRefused
<1>13. ASSUME NEW r \in Requests, OpenStream(r) PROVE SlotsConserved'
  <2>1. \A g \in Generations, p \in Providers : Holders(g, p)' = Holders(g, p)
    BY <1>13 DEF OpenStream, reqVars, TypeOK, Holders, Prov
  <2> QED BY <1>13, <2>1, HoldersKept DEF OpenStream
<1>14. ASSUME NEW r \in Requests, CloseStream(r) PROVE SlotsConserved'
  <2>1. \A g \in Generations, p \in Providers : Holders(g, p)' = Holders(g, p)
    BY <1>14 DEF CloseStream, reqVars, TypeOK, Holders, Prov
  <2> QED BY <1>14, <2>1, HoldersKept DEF CloseStream
<1>15. ASSUME NEW r \in Requests, CloseFailed(r) PROVE SlotsConserved'
  <2>1. \A g \in Generations, p \in Providers : Holders(g, p)' = Holders(g, p)
    BY <1>15 DEF CloseFailed, reqVars, TypeOK, Holders, Prov
  <2> QED BY <1>15, <2>1, HoldersKept DEF CloseFailed
<1> QED
  BY <1>1, <1>2, <1>3, <1>4, <1>5, <1>6, <1>7, <1>8, <1>9, <1>10, <1>11, <1>12,
     <1>13, <1>14, <1>15 DEF Next, Advance

\* The channels of the current and of earlier configurations only.
LEMMA ChannelsInit == Init => ChannelsSound
  BY SlotsAssumption DEF Init, ChannelsSound, Nil, Generations

LEMMA ChannelsStep ==
  ASSUME TypeOK, SlotsConserved, ChannelsSound, [Next]_vars
  PROVE  ChannelsSound'
<1> USE DEF ChannelsSound
<1>0. Nil \notin Generations /\ Nil < gen /\ gen \in Nat
  BY SlotsAssumption DEF Nil, Generations, TypeOK
<1>nat. \A g \in Generations : g \in Nat
  BY SlotsAssumption DEF Generations
<1>lim. \A g \in Generations, p \in Providers : occ[g][p] \in Nat /\ limits[g][p] \in Nat
  BY DEF TypeOK
<1>leave. ASSUME NEW r \in Requests, Leave(r), gen' = gen
          PROVE  \A q \in Requests :
                    chan'[q] <= gen' /\ (pc'[q] = "acquire" => chan'[q] # Nil)
  <2>1. \A q \in Requests : \/ q # r /\ chan'[q] = chan[q] /\ pc'[q] = pc[q]
                            \/ q = r /\ chan'[q] = Nil /\ pc'[q] = "idle"
    BY <1>leave DEF Leave, TypeOK
  <2>2. Nil <= gen
    BY <1>0 DEF Nil
  <2> QED BY <1>leave, <2>1, <2>2
<1>1. CASE UNCHANGED vars
  BY <1>1 DEF vars, reqVars
<1>2. ASSUME NEW l \in [Providers -> LimitChoices], Configure(l) PROVE ChannelsSound'
  <2>1. /\ gen' = gen + 1
        /\ limits' = [limits EXCEPT ![gen + 1] = l]
        /\ UNCHANGED <<occ, pc, chan>>
    BY <1>2 DEF Configure, reqVars
  <2>2. \A r \in Requests : chan[r] \in Int
    BY DEF TypeOK, Generations, Nil
  <2>3. ASSUME NEW g \in Generations, NEW p \in Providers
        PROVE  (g > gen' => occ'[g][p] = 0) /\ occ'[g][p] <= limits'[g][p]
    <3>1. g \in Nat /\ l[p] \in Nat
      BY <1>nat, SlotsAssumption
    <3>2. CASE g = gen + 1
      <4>1. limits'[g] = l
        BY <2>1, <3>2 DEF TypeOK
      <4>2. occ[g][p] = 0
        BY <1>0, <3>1, <3>2
      <4> QED BY <1>0, <2>1, <3>1, <3>2, <4>1, <4>2
    <3>3. CASE g # gen + 1
      <4>1. limits'[g] = limits[g]
        BY <2>1, <3>3 DEF TypeOK
      <4> QED BY <1>0, <2>1, <3>1, <3>3, <4>1
    <3> QED BY <3>2, <3>3
  <2> QED BY <1>0, <2>1, <2>2, <2>3
<1>3. ASSUME NEW r \in Requests, NEW a \in Auths, NEW s \in BOOLEAN, Route(r, a, s)
      PROVE ChannelsSound'
  <2>1. Semaphore(ProviderOf[a]) \in {Nil, gen}
    BY DEF Semaphore
  <2>2. \A q \in Requests :
          \/ q # r /\ chan'[q] = chan[q] /\ pc'[q] = pc[q]
          \/ q = r /\ chan'[q] = Semaphore(ProviderOf[a])
             /\ (pc'[q] = "acquire" => chan'[q] # Nil)
    BY <1>3 DEF Route, TypeOK
  <2>3. Nil <= gen /\ gen <= gen
    BY <1>0 DEF Nil
  <2>4. UNCHANGED <<gen, occ, limits>>
    BY <1>3 DEF Route
  <2> QED BY <2>1, <2>2, <2>3, <2>4
<1>4. ASSUME NEW r \in Requests, Acquire(r) PROVE ChannelsSound'
  <2>1. chan[r] \in Generations /\ Prov(r) \in Providers /\ chan[r] <= gen
    BY <1>4, ProvType DEF Acquire, TypeOK
  <2>2. UNCHANGED <<gen, limits, chan>> /\ occ' = [occ EXCEPT ![chan[r]][Prov(r)] = @ + 1]
        /\ pc' = [pc EXCEPT ![r] = "begin"]
        /\ occ[chan[r]][Prov(r)] < limits[chan[r]][Prov(r)]
    BY <1>4 DEF Acquire, reqVars
  <2>3. ASSUME NEW g \in Generations, NEW p \in Providers
        PROVE  (g > gen' => occ'[g][p] = 0) /\ occ'[g][p] <= limits'[g][p]
    <3>1. occ[g][p] \in Nat /\ limits[g][p] \in Nat /\ g \in Nat
      BY <1>nat, <1>lim
    <3>2. CASE g = chan[r] /\ p = Prov(r)
      <4>1. occ'[g][p] = occ[g][p] + 1
        BY <2>1, <2>2, <3>2 DEF TypeOK
      <4> QED BY <1>0, <2>1, <2>2, <3>1, <3>2, <4>1
    <3>3. CASE ~(g = chan[r] /\ p = Prov(r))
      <4>1. occ'[g][p] = occ[g][p]
        BY <2>1, <2>2, <3>3 DEF TypeOK
      <4> QED BY <2>2, <4>1
    <3> QED BY <3>2, <3>3
  <2>4. \A q \in Requests : chan'[q] <= gen' /\ (pc'[q] = "acquire" => chan'[q] # Nil)
    BY <2>2 DEF TypeOK
  <2> QED BY <2>3, <2>4
<1>5. ASSUME NEW r \in Requests, Cancel(r) PROVE ChannelsSound'
  BY <1>5 DEF Cancel
<1>6. ASSUME NEW r \in Requests, ChunkError(r) PROVE ChannelsSound'
  BY <1>6 DEF ChunkError, reqVars, TypeOK
<1>7. ASSUME NEW r \in Requests, Abandon(r) PROVE ChannelsSound'
  BY <1>7, <1>leave DEF Abandon
<1>8. ASSUME NEW r \in Requests, BeginLoad(r) PROVE ChannelsSound'
  BY <1>8 DEF BeginLoad, reqVars, TypeOK
<1>9. ASSUME NEW r \in Requests, Return(r) PROVE ChannelsSound'
  BY <1>9 DEF Return, reqVars, TypeOK
<1>10. ASSUME NEW r \in Requests, GiveBack(r), UNCHANGED <<gen, limits>>
       PROVE  \A g \in Generations, p \in Providers :
                (g > gen' => occ'[g][p] = 0) /\ occ'[g][p] <= limits'[g][p]
  <2> SUFFICES ASSUME NEW g \in Generations, NEW p \in Providers
               PROVE  (g > gen => occ'[g][p] = 0) /\ occ'[g][p] <= limits[g][p]
    BY <1>10
  <2>0. occ[g][p] \in Nat /\ limits[g][p] \in Nat /\ g \in Nat
    BY <1>nat, <1>lim
  <2>1. CASE chan[r] = Nil
    BY <1>10, <2>1 DEF GiveBack
  <2>2. CASE chan[r] # Nil
    <3>1. chan[r] \in Generations /\ Prov(r) \in Providers /\ chan[r] <= gen
      BY <2>2, ProvType DEF TypeOK
    <3>2. occ' = [occ EXCEPT ![chan[r]][Prov(r)] = @ - 1] /\ occ[chan[r]][Prov(r)] > 0
      BY <1>10, <2>2 DEF GiveBack
    <3>3. occ \in [Generations -> [Providers -> Nat]]
      BY DEF TypeOK
    <3>4. CASE g = chan[r] /\ p = Prov(r)
      <4>1. occ'[g][p] = occ[g][p] - 1
        BY <3>1, <3>2, <3>3, <3>4
      <4> QED BY <1>0, <2>0, <3>1, <3>4, <4>1
    <3>5. CASE ~(g = chan[r] /\ p = Prov(r))
      <4>1. occ'[g][p] = occ[g][p]
        BY <3>1, <3>2, <3>3, <3>5
      <4> QED BY <4>1
    <3> QED BY <3>4, <3>5
  <2> QED BY <2>1, <2>2
<1>11. ASSUME NEW r \in Requests, Release(r) PROVE ChannelsSound'
  <2>1. GiveBack(r) /\ UNCHANGED <<gen, limits>>
    BY <1>11 DEF Release
  <2>2. \A q \in Requests : chan'[q] <= gen' /\ (pc'[q] = "acquire" => chan'[q] # Nil)
    BY <1>11, <1>leave DEF Release
  <2> QED BY <1>10, <2>1, <2>2
<1>12. ASSUME NEW r \in Requests, RefuseStream(r) PROVE ChannelsSound'
  <2>1. GiveBack(r) /\ UNCHANGED <<gen, limits>>
    BY <1>12 DEF RefuseStream
  <2>2. \A q \in Requests : chan'[q] <= gen' /\ (pc'[q] = "acquire" => chan'[q] # Nil)
    BY <1>12 DEF RefuseStream, reqVars, TypeOK
  <2> QED BY <1>10, <2>1, <2>2
<1>13. ASSUME NEW r \in Requests, FinishRefused(r) PROVE ChannelsSound'
  BY <1>13, <1>leave DEF FinishRefused
<1>14. ASSUME NEW r \in Requests, OpenStream(r) PROVE ChannelsSound'
  BY <1>14 DEF OpenStream, reqVars, TypeOK
<1>15. ASSUME NEW r \in Requests, CloseStream(r) PROVE ChannelsSound'
  BY <1>15 DEF CloseStream, reqVars, TypeOK
<1>16. ASSUME NEW r \in Requests, CloseFailed(r) PROVE ChannelsSound'
  BY <1>16 DEF CloseFailed, reqVars, TypeOK
<1> QED
  BY <1>1, <1>2, <1>3, <1>4, <1>5, <1>6, <1>7, <1>8, <1>9, <1>11, <1>12,
     <1>13, <1>14, <1>15, <1>16 DEF Next, Advance

-----------------------------------------------------------------------------
\* Load counters.

LEMMA LoadInit == Init => LoadExact
<1> SUFFICES ASSUME Init PROVE LoadExact
  OBVIOUS
<1>1. /\ \A p \in Providers : LoadedOn(p) = {} /\ providerLoad[p] = 0
      /\ \A a \in Auths : LoadedWith(a) = {} /\ authLoad[a] = 0
  BY DEF Init, LoadedOn, LoadedWith, LoadSteps
<1> QED BY <1>1, FS_EmptySet DEF LoadExact

\* A step that starts or ends no load.
LEMMA LoadKept ==
  ASSUME LoadExact, UNCHANGED loadVars,
         \A p \in Providers : LoadedOn(p)' = LoadedOn(p),
         \A a \in Auths : LoadedWith(a)' = LoadedWith(a)
  PROVE  LoadExact'
  BY DEF LoadExact, loadVars

\* finishRuntimeLoad: r was counted, so the counters are above 0 and the
\* clamp changes nothing.
LEMMA LoadEnds ==
  ASSUME TypeOK, LoadExact, NEW r \in Requests, pc[r] \in LoadSteps, Unload(r),
         \A p \in Providers : LoadedOn(p)' = LoadedOn(p) \ {r},
         \A a \in Auths : LoadedWith(a)' = LoadedWith(a) \ {r}
  PROVE  LoadExact'
<1>1. Prov(r) \in Providers /\ auth[r] \in Auths
  BY ProvType DEF TypeOK
<1>2. ASSUME NEW p \in Providers PROVE providerLoad'[p] = Cardinality(LoadedOn(p)')
  <2>1. LoadedOn(p) \in SUBSET Requests /\ providerLoad[p] = Cardinality(LoadedOn(p))
    BY DEF LoadedOn, LoadExact
  <2>2. CASE p = Prov(r)
    <3>1. r \in LoadedOn(p)
      BY <2>2 DEF LoadedOn
    <3>2. providerLoad[p] > 0 /\ Cardinality(LoadedOn(p) \ {r}) = providerLoad[p] - 1
      BY <2>1, <3>1, CountLeave
    <3>3. providerLoad'[p] = providerLoad[p] - 1
      BY <1>1, <2>2, <3>2 DEF Unload, TypeOK
    <3> QED BY <3>2, <3>3
  <2>3. CASE p # Prov(r)
    <3>1. r \notin LoadedOn(p)
      BY <2>3 DEF LoadedOn
    <3>2. LoadedOn(p) \ {r} = LoadedOn(p)
      BY <3>1
    <3>3. providerLoad'[p] = providerLoad[p]
      BY <1>1, <2>3 DEF Unload, TypeOK
    <3> QED BY <2>1, <3>2, <3>3
  <2> QED BY <2>2, <2>3
<1>3. ASSUME NEW a \in Auths PROVE authLoad'[a] = Cardinality(LoadedWith(a)')
  <2>1. LoadedWith(a) \in SUBSET Requests /\ authLoad[a] = Cardinality(LoadedWith(a))
    BY DEF LoadedWith, LoadExact
  <2>2. CASE a = auth[r]
    <3>1. r \in LoadedWith(a)
      BY <2>2 DEF LoadedWith
    <3>2. authLoad[a] > 0 /\ Cardinality(LoadedWith(a) \ {r}) = authLoad[a] - 1
      BY <2>1, <3>1, CountLeave
    <3>3. authLoad'[a] = authLoad[a] - 1
      BY <1>1, <2>2, <3>2 DEF Unload, TypeOK
    <3> QED BY <3>2, <3>3
  <2>3. CASE a # auth[r]
    <3>1. r \notin LoadedWith(a)
      BY <2>3 DEF LoadedWith
    <3>2. LoadedWith(a) \ {r} = LoadedWith(a)
      BY <3>1
    <3>3. authLoad'[a] = authLoad[a]
      BY <1>1, <2>3 DEF Unload, TypeOK
    <3> QED BY <2>1, <3>2, <3>3
  <2> QED BY <2>2, <2>3
<1> QED BY <1>2, <1>3 DEF LoadExact

LEMMA LoadStep ==
  ASSUME TypeOK, LoadExact, [Next]_vars
  PROVE  LoadExact'
<1> USE DEF LoadSteps, Steps, LoadedOn, LoadedWith, Prov
<1>1. CASE UNCHANGED vars
  BY <1>1, LoadKept DEF vars, reqVars, loadVars
<1>2. ASSUME NEW l \in [Providers -> LimitChoices], Configure(l) PROVE LoadExact'
  BY <1>2, LoadKept DEF Configure, reqVars
<1>3. ASSUME NEW r \in Requests, NEW a \in Auths, NEW s \in BOOLEAN, Route(r, a, s)
      PROVE LoadExact'
  BY <1>3, LoadKept DEF Route, TypeOK
<1>4. ASSUME NEW r \in Requests, Acquire(r) PROVE LoadExact'
  BY <1>4, LoadKept DEF Acquire, reqVars, TypeOK
<1>5. ASSUME NEW r \in Requests, Cancel(r) PROVE LoadExact'
  BY <1>5, LoadKept DEF Cancel
<1>6. ASSUME NEW r \in Requests, ChunkError(r) PROVE LoadExact'
  BY <1>6, LoadEnds DEF ChunkError, reqVars, TypeOK
<1>7. ASSUME NEW r \in Requests, Abandon(r) PROVE LoadExact'
  BY <1>7, LoadKept DEF Abandon, Leave, TypeOK
<1>8. ASSUME NEW r \in Requests, BeginLoad(r) PROVE LoadExact'
  <2>1. Prov(r) \in Providers /\ auth[r] \in Auths
    BY ProvType DEF TypeOK
  <2>2. ASSUME NEW p \in Providers PROVE providerLoad'[p] = Cardinality(LoadedOn(p)')
    <3>1. LoadedOn(p) \in SUBSET Requests /\ r \notin LoadedOn(p)
          /\ providerLoad[p] = Cardinality(LoadedOn(p))
      BY <1>8 DEF BeginLoad, LoadExact
    <3>2. CASE p = Prov(r)
      <4>1. LoadedOn(p)' = LoadedOn(p) \cup {r}
        BY <1>8, <3>2 DEF BeginLoad, reqVars, TypeOK
      <4>2. providerLoad'[p] = providerLoad[p] + 1
        BY <1>8, <2>1, <3>2 DEF BeginLoad, TypeOK
      <4> QED BY <3>1, <4>1, <4>2, CountJoin
    <3>3. CASE p # Prov(r)
      <4>1. LoadedOn(p)' = LoadedOn(p)
        BY <1>8, <3>3 DEF BeginLoad, reqVars, TypeOK
      <4>2. providerLoad'[p] = providerLoad[p]
        BY <1>8, <2>1, <3>3 DEF BeginLoad, TypeOK
      <4> QED BY <3>1, <4>1, <4>2
    <3> QED BY <3>2, <3>3
  <2>3. ASSUME NEW a \in Auths PROVE authLoad'[a] = Cardinality(LoadedWith(a)')
    <3>1. LoadedWith(a) \in SUBSET Requests /\ r \notin LoadedWith(a)
          /\ authLoad[a] = Cardinality(LoadedWith(a))
      BY <1>8 DEF BeginLoad, LoadExact
    <3>2. CASE a = auth[r]
      <4>1. LoadedWith(a)' = LoadedWith(a) \cup {r}
        BY <1>8, <3>2 DEF BeginLoad, reqVars, TypeOK
      <4>2. authLoad'[a] = authLoad[a] + 1
        BY <1>8, <2>1, <3>2 DEF BeginLoad, TypeOK
      <4> QED BY <3>1, <4>1, <4>2, CountJoin
    <3>3. CASE a # auth[r]
      <4>1. LoadedWith(a)' = LoadedWith(a)
        BY <1>8, <3>3 DEF BeginLoad, reqVars, TypeOK
      <4>2. authLoad'[a] = authLoad[a]
        BY <1>8, <2>1, <3>3 DEF BeginLoad, TypeOK
      <4> QED BY <3>1, <4>1, <4>2
    <3> QED BY <3>2, <3>3
  <2> QED BY <2>2, <2>3 DEF LoadExact
<1>9. ASSUME NEW r \in Requests, Return(r) PROVE LoadExact'
  BY <1>9, LoadEnds DEF Return, reqVars, TypeOK
<1>10. ASSUME NEW r \in Requests, Release(r) PROVE LoadExact'
  BY <1>10, LoadKept DEF Release, Leave, TypeOK
<1>11. ASSUME NEW r \in Requests, RefuseStream(r) PROVE LoadExact'
  BY <1>11, LoadKept DEF RefuseStream, reqVars, TypeOK
<1>12. ASSUME NEW r \in Requests, FinishRefused(r) PROVE LoadExact'
  BY <1>12, LoadEnds DEF FinishRefused, Leave, TypeOK
<1>13. ASSUME NEW r \in Requests, OpenStream(r) PROVE LoadExact'
  BY <1>13, LoadKept DEF OpenStream, reqVars, TypeOK
<1>14. ASSUME NEW r \in Requests, CloseStream(r) PROVE LoadExact'
  BY <1>14, LoadEnds DEF CloseStream, reqVars, TypeOK
<1>15. ASSUME NEW r \in Requests, CloseFailed(r) PROVE LoadExact'
  BY <1>15, LoadKept DEF CloseFailed, reqVars, TypeOK
<1> QED
  BY <1>1, <1>2, <1>3, <1>4, <1>5, <1>6, <1>7, <1>8, <1>9, <1>10, <1>11, <1>12,
     <1>13, <1>14, <1>15 DEF Next, Advance

-----------------------------------------------------------------------------
\* The theorems.

\* The inductive invariant holds in every reachable state.
THEOREM Inductive == Spec => []IInv
<1>1. Init => IInv
  BY TypeInit, SlotInit, LoadInit, ChannelsInit DEF IInv
<1>2. IInv /\ [Next]_vars => IInv'
  BY TypeStep, SlotStep, LoadStep, ChannelsStep DEF IInv
<1> QED BY <1>1, <1>2, PTL DEF Spec

\* No path of the execution loops leaks a slot, returns it twice or returns it
\* to another configuration's channel.
THEOREM SlotsNeverLeak == Spec => []SlotsConserved
<1>1. IInv => SlotsConserved
  BY DEF IInv
<1> QED BY <1>1, Inductive, PTL

\* The runtime-load counters count the attempts under way, exactly.
THEOREM LoadNeverDrifts == Spec => []LoadExact
<1>1. IInv => LoadExact
  BY DEF IInv
<1> QED BY <1>1, Inductive, PTL

\* The upstream requests that one configuration admitted never exceed its limit.
THEOREM LimitHolds == Spec => []LimitPerGeneration
<1>1. IInv => LimitPerGeneration
  <2> SUFFICES ASSUME IInv, NEW g \in Generations, NEW p \in Providers
               PROVE  Cardinality({r \in OpenAt(p) : chan[r] = g}) <= limits[g][p]
    BY DEF LimitPerGeneration
  <2> DEFINE Open == {r \in OpenAt(p) : chan[r] = g}
  <2>1. Open \in SUBSET Holders(g, p) /\ Holders(g, p) \in SUBSET Requests
    BY DEF OpenAt, OpenSteps, Holders, HoldSteps
  <2>2. IsFiniteSet(Holders(g, p))
    BY <2>1, RequestsCount
  <2>3. Cardinality(Open) <= Cardinality(Holders(g, p))
    BY <2>1, <2>2, FS_Subset
  <2>4. Cardinality(Open) \in Nat /\ Cardinality(Holders(g, p)) \in Nat
    BY <2>1, RequestsCount
  <2>5. Cardinality(Holders(g, p)) <= limits[g][p] /\ limits[g][p] \in Nat
    BY DEF IInv, SlotsConserved, ChannelsSound, TypeOK
  <2> QED BY <2>3, <2>4, <2>5
<1> QED BY <1>1, Inductive, PTL

=============================================================================
