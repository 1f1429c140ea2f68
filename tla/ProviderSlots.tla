--------------------------- MODULE ProviderSlots ---------------------------
(***************************************************************************)
(* The per-provider concurrency limiter of the auth manager                *)
(* (sdk/cliproxy/auth/routing.go) and the runtime-load counters            *)
(* (runtime_load.go), as the execution loops of conductor.go drive them.   *)
(*                                                                         *)
(* configureProviderConcurrency builds one buffered channel per limited    *)
(* provider every time the configuration is applied.  An attempt reads the *)
(* channel under the manager's lock, sends into it outside the lock, and   *)
(* later receives from the channel it captured, which need not be the one  *)
(* the manager holds by then.  A channel is identified here by the number  *)
(* of the configuration (its generation) and its provider; only the number *)
(* of tokens in its buffer is kept.                                        *)
(***************************************************************************)
EXTENDS Integers, FiniteSets

CONSTANTS
    Requests,    \* goroutines that run an execution attempt
    Auths,       \* credentials
    Providers,   \* provider keys
    ProviderOf,  \* the provider of each credential
    LimitChoices,\* limits a configuration may give a provider, 0 for none
    MaxGen       \* bound: number of configurations applied

ASSUME SlotsAssumption ==
    /\ IsFiniteSet(Requests)
    /\ Auths # {}
    /\ ProviderOf \in [Auths -> Providers]
    /\ LimitChoices \subseteq Nat
    /\ MaxGen \in Nat

VARIABLES
    gen,         \* how often configureProviderConcurrency has run
    limits,      \* limits[g][p]: limit of p (capacity of its channel) in generation g
    occ,         \* occ[g][p]: tokens in the buffer of channel <<g, p>>
    pc,          \* where each attempt stands
    auth,        \* credential the attempt was routed to
    chan,        \* generation of the captured channel, Nil if none
    stream,      \* is the attempt a streaming one
    ctxDone,     \* is the request's context cancelled
    providerLoad,\* providerRuntimeLoads[p].Inflight
    authLoad     \* authRuntimeLoads[a].Inflight

vars == <<gen, limits, occ, pc, auth, chan, stream, ctxDone, providerLoad, authLoad>>
reqVars == <<auth, chan, stream, ctxDone>>
loadVars == <<providerLoad, authLoad>>

Generations == 0 .. MaxGen
Nil == -1

\* acquire: before the send; begin: slot held, load not counted yet;
\* upstream: executor called; streaming: chunks flow; draining: stream that
\* reported an error and is read to its end; release: about to receive from
\* the channel; unload: slot given back, load still counted.
Steps == {"idle", "acquire", "begin", "upstream", "streaming", "draining",
          "release", "unload"}

Prov(r) == ProviderOf[auth[r]]

\* The attempts that own a token of channel <<g, p>>.
HoldSteps == {"begin", "upstream", "streaming", "draining", "release"}
Holders(g, p) == {r \in Requests : pc[r] \in HoldSteps /\ chan[r] = g /\ Prov(r) = p}

\* The attempts counted in the load trackers.
LoadSteps == {"upstream", "streaming", "unload"}
LoadedOn(p) == {r \in Requests : pc[r] \in LoadSteps /\ Prov(r) = p}
LoadedWith(a) == {r \in Requests : pc[r] \in LoadSteps /\ auth[r] = a}

\* The attempts that have a request open at provider p.
OpenSteps == {"upstream", "streaming", "draining"}
OpenAt(p) == {r \in Requests : pc[r] \in OpenSteps /\ Prov(r) = p}

\* The credential a local variable names when no attempt is under way.
NoAuth == CHOOSE a \in Auths : TRUE

-----------------------------------------------------------------------------

Init ==
    /\ gen = 0
    /\ limits = [g \in Generations |-> [p \in Providers |-> 0]]
    /\ occ = [g \in Generations |-> [p \in Providers |-> 0]]
    /\ pc = [r \in Requests |-> "idle"]
    /\ auth = [r \in Requests |-> NoAuth]
    /\ chan = [r \in Requests |-> Nil]
    /\ stream = [r \in Requests |-> FALSE]
    /\ ctxDone = [r \in Requests |-> FALSE]
    /\ providerLoad = [p \in Providers |-> 0]
    /\ authLoad = [a \in Auths |-> 0]

\* The attempt is over and its local variables are gone.
Leave(r) ==
    /\ pc' = [pc EXCEPT ![r] = "idle"]
    /\ auth' = [auth EXCEPT ![r] = NoAuth]
    /\ chan' = [chan EXCEPT ![r] = Nil]
    /\ stream' = [stream EXCEPT ![r] = FALSE]
    /\ ctxDone' = [ctxDone EXCEPT ![r] = FALSE]

\* Mutant of Semaphore: off by one configuration.
SemaphoreAhead(p) == IF limits[gen][p] = 0 THEN Nil ELSE gen + 1

\* m.providerSemaphores[provider] under the read lock; a provider without a
\* limit has no channel.
Semaphore(p) == IF limits[gen][p] = 0 THEN Nil ELSE gen

\* configureProviderConcurrency: new limits, and new empty channels for all
\* limited providers, whatever the old ones still hold.
Configure(l) ==
    /\ gen < MaxGen
    /\ gen' = gen + 1
    /\ limits' = [limits EXCEPT ![gen + 1] = l]
    /\ UNCHANGED <<occ, pc, reqVars, loadVars>>

\* An execution loop picked credential a and calls withProviderSlot or
\* acquireProviderSlot, which captures the channel.
Route(r, a, s) ==
    /\ pc[r] = "idle"
    /\ auth' = [auth EXCEPT ![r] = a]
    /\ stream' = [stream EXCEPT ![r] = s]
    /\ chan' = [chan EXCEPT ![r] = Semaphore(ProviderOf[a])]
    /\ pc' = [pc EXCEPT ![r] = IF Semaphore(ProviderOf[a]) = Nil THEN "begin" ELSE "acquire"]
    /\ UNCHANGED <<gen, limits, occ, ctxDone, loadVars>>

\* Mutant of Acquire: the buffer is one larger than the limit.
AcquireOneMore(r) ==
    /\ pc[r] = "acquire"
    /\ occ[chan[r]][Prov(r)] <= limits[chan[r]][Prov(r)]
    /\ occ' = [occ EXCEPT ![chan[r]][Prov(r)] = @ + 1]
    /\ pc' = [pc EXCEPT ![r] = "begin"]
    /\ UNCHANGED <<gen, limits, reqVars, loadVars>>

\* The send case of the select statement.
Acquire(r) ==
    /\ pc[r] = "acquire"
    /\ occ[chan[r]][Prov(r)] < limits[chan[r]][Prov(r)]
    /\ occ' = [occ EXCEPT ![chan[r]][Prov(r)] = @ + 1]
    /\ pc' = [pc EXCEPT ![r] = "begin"]
    /\ UNCHANGED <<gen, limits, reqVars, loadVars>>

\* The ctx.Done() case: the attempt returns ctx.Err() without a slot.
Abandon(r) ==
    /\ pc[r] = "acquire"
    /\ ctxDone[r]
    /\ Leave(r)
    /\ UNCHANGED <<gen, limits, occ, loadVars>>

\* The client goes away; the code only looks at it where an action says so.
Cancel(r) ==
    /\ pc[r] \in {"acquire", "upstream", "streaming"}
    /\ ~ctxDone[r]
    /\ ctxDone' = [ctxDone EXCEPT ![r] = TRUE]
    /\ UNCHANGED <<gen, limits, occ, pc, auth, chan, stream, loadVars>>

\* beginRuntimeLoad: Inflight++ of the provider and of the credential.
BeginLoad(r) ==
    /\ pc[r] = "begin"
    /\ providerLoad' = [providerLoad EXCEPT ![Prov(r)] = @ + 1]
    /\ authLoad' = [authLoad EXCEPT ![auth[r]] = @ + 1]
    /\ pc' = [pc EXCEPT ![r] = "upstream"]
    /\ UNCHANGED <<gen, limits, occ, reqVars>>

\* finishRuntimeLoad: Inflight-- unless it is 0 already.
Unload(r) ==
    /\ providerLoad' = [providerLoad EXCEPT ![Prov(r)] = IF @ > 0 THEN @ - 1 ELSE @]
    /\ authLoad' = [authLoad EXCEPT ![auth[r]] = IF @ > 0 THEN @ - 1 ELSE @]

\* Mutant of GiveBack: the channel is looked up again when the slot is returned.
GiveBackCurrent(r) ==
    IF Semaphore(Prov(r)) = Nil
    THEN occ' = occ
    ELSE /\ occ[gen][Prov(r)] > 0
         /\ occ' = [occ EXCEPT ![gen][Prov(r)] = @ - 1]

\* The deferred receive of withProviderSlot, or the release function of
\* acquireProviderSlot: from the captured channel, a no-op without one.
\* Receiving from an empty channel would block.
GiveBack(r) ==
    IF chan[r] = Nil
    THEN occ' = occ
    ELSE /\ occ[chan[r]][Prov(r)] > 0
         /\ occ' = [occ EXCEPT ![chan[r]][Prov(r)] = @ - 1]

\* Non-streaming: executor.Execute (or CountTokens) returned, finishLoad runs
\* inside the slot.
Return(r) ==
    /\ pc[r] = "upstream" /\ ~stream[r]
    /\ Unload(r)
    /\ pc' = [pc EXCEPT ![r] = "release"]
    /\ UNCHANGED <<gen, limits, occ, reqVars>>

Release(r) ==
    /\ pc[r] = "release"
    /\ GiveBack(r)
    /\ Leave(r)
    /\ UNCHANGED <<gen, limits, loadVars>>

\* Mutant of RefuseStream: the error path forgets releaseProviderSlot().
RefuseStreamKeepsSlot(r) ==
    /\ pc[r] = "upstream" /\ stream[r]
    /\ pc' = [pc EXCEPT ![r] = "unload"]
    /\ UNCHANGED <<gen, limits, occ, reqVars, loadVars>>

\* Streaming: executor.ExecuteStream failed at once.  The slot is released
\* before the load is: releaseProviderSlot(), then finishLoad.
RefuseStream(r) ==
    /\ pc[r] = "upstream" /\ stream[r]
    /\ GiveBack(r)
    /\ pc' = [pc EXCEPT ![r] = "unload"]
    /\ UNCHANGED <<gen, limits, reqVars, loadVars>>

FinishRefused(r) ==
    /\ pc[r] = "unload"
    /\ Unload(r)
    /\ Leave(r)
    /\ UNCHANGED <<gen, limits, occ>>

\* executor.ExecuteStream returned a channel; the forwarding goroutine owns
\* the slot from here on.
OpenStream(r) ==
    /\ pc[r] = "upstream" /\ stream[r]
    /\ pc' = [pc EXCEPT ![r] = "streaming"]
    /\ UNCHANGED <<gen, limits, occ, reqVars, loadVars>>

\* The first chunk with an error ends the load, not the slot.
ChunkError(r) ==
    /\ pc[r] = "streaming"
    /\ Unload(r)
    /\ pc' = [pc EXCEPT ![r] = "draining"]
    /\ UNCHANGED <<gen, limits, occ, reqVars>>

\* The chunk channel is closed without an error: finish(true), then the
\* deferred release.  A cancelled client only stops the forwarding.
CloseStream(r) ==
    /\ pc[r] = "streaming"
    /\ Unload(r)
    /\ pc' = [pc EXCEPT ![r] = "release"]
    /\ UNCHANGED <<gen, limits, occ, reqVars>>

\* Mutant of CloseFailed: finish runs at the error and again at the close.
CloseFailedTwice(r) ==
    /\ pc[r] = "draining"
    /\ Unload(r)
    /\ pc' = [pc EXCEPT ![r] = "release"]
    /\ UNCHANGED <<gen, limits, occ, reqVars>>

\* The chunk channel of a failed stream is closed.
CloseFailed(r) ==
    /\ pc[r] = "draining"
    /\ pc' = [pc EXCEPT ![r] = "release"]
    /\ UNCHANGED <<gen, limits, occ, reqVars, loadVars>>

\* What the goroutine does by itself once it is routed.
Advance(r) ==
    \/ Abandon(r) \/ BeginLoad(r) \/ Return(r) \/ Release(r)
    \/ RefuseStream(r) \/ FinishRefused(r) \/ OpenStream(r)
    \/ CloseStream(r) \/ CloseFailed(r)

Next ==
    \/ \E l \in [Providers -> LimitChoices] : Configure(l)
    \/ \E r \in Requests :
          \/ \E a \in Auths, s \in BOOLEAN : Route(r, a, s)
          \/ Acquire(r)
          \/ Cancel(r)
          \/ ChunkError(r)
          \/ Advance(r)

\* Every upstream call ends.  A send into a channel is strongly fair: the Go
\* runtime hands freed buffer slots to blocked senders in FIFO order.
Fairness == \A r \in Requests : WF_vars(Advance(r)) /\ SF_vars(Acquire(r))

Spec == Init /\ [][Next]_vars
FairSpec == Spec /\ Fairness

-----------------------------------------------------------------------------

TypeOK ==
    /\ gen \in Generations
    /\ limits \in [Generations -> [Providers -> Nat]]
    /\ occ \in [Generations -> [Providers -> Nat]]
    /\ pc \in [Requests -> Steps]
    /\ auth \in [Requests -> Auths]
    /\ chan \in [Requests -> Generations \cup {Nil}]
    /\ stream \in [Requests -> BOOLEAN]
    /\ ctxDone \in [Requests -> BOOLEAN]
    /\ providerLoad \in [Providers -> Nat]
    /\ authLoad \in [Auths -> Nat]

\* Every channel holds exactly one token per attempt that sent one and has not
\* taken it back: no path of the execution loops leaks a slot, returns one
\* twice, or returns it to the channel of another generation.
SlotsConserved ==
    \A g \in Generations, p \in Providers : occ[g][p] = Cardinality(Holders(g, p))

\* At most "limit" attempts of one configuration are open at a provider, for
\* the configuration in force and for every earlier one.
LimitPerGeneration ==
    \A g \in Generations, p \in Providers :
        Cardinality({r \in OpenAt(p) : chan[r] = g}) <= limits[g][p]

\* The load that routing scores divide by capacity counts each attempt once
\* from beginRuntimeLoad to finish, on every exit of the streaming and the
\* non-streaming loops, so the clamp at zero never hides a double finish.
LoadExact ==
    /\ \A p \in Providers : providerLoad[p] = Cardinality(LoadedOn(p))
    /\ \A a \in Auths : authLoad[a] = Cardinality(LoadedWith(a))

\* What the proofs add: a captured channel is one that exists, channels of
\* later configurations are still empty, and no buffer overflows.
ChannelsSound ==
    /\ \A r \in Requests : chan[r] <= gen
    /\ \A r \in Requests : pc[r] = "acquire" => chan[r] # Nil
    /\ \A g \in Generations, p \in Providers :
          /\ g > gen => occ[g][p] = 0
          /\ occ[g][p] <= limits[g][p]

IInv == TypeOK /\ SlotsConserved /\ LoadExact /\ ChannelsSound

\* An attempt waiting for a slot does not wait for ever, even when the
\* channel it waits on has been replaced by a new configuration.
WaitingEnds == \A r \in Requests : pc[r] = "acquire" ~> pc[r] # "acquire"

=============================================================================
