# TLA+ verification of the proxy's credential and routing core

The repository is a proxy that answers OpenAI, Gemini, Claude and Codex requests
with a pool of upstream credentials. Most of its own logic is in the pool: which
credential a request gets, what a failure means for the next choice, how the pool
is shared by concurrent requests, refreshed in the background, changed by
operators and kept in files. The rest is the way of an answer back to the client:
four goroutines that hand a stream on, the usage record it leaves, a relay that carries requests over one
websocket, and translators that are state machines over a stream. These are
modelled here, from the code under `src/`.

## 1. Inventory

### The parts and what they share

```
 HTTP handlers --> auth.Manager (sdk/cliproxy/auth) ----> executors --> upstream
                    |  routing engines v1 and v2             |
                    |  selectors, affinity, slots, load      v
                    |<------------------- MarkResult(result of a call)
                    |--> registry.ModelRegistry (which model has clients)
 refresh loop ----->|        ^
 management API --->|        | register / unregister
 Service <-- watcher (files, config) / wsrelay (connections)
```

One `auth.Manager` holds the records (`auths`) behind an RW mutex. Requests pick
from *clones*, call the upstream without any lock, and report with `MarkResult`,
which changes the record in place under the lock and publishes to the registry
after the unlock. The refresh loop and the management API take a clone and later
put it back as a whole. Almost every hazard below comes from these three ways of
writing one record.

| Part | State | Operations | What is hard | What must hold |
|---|---|---|---|---|
| Provider limiter, runtime load | one buffered channel per provider and configuration; `Inflight` counters | acquire, release, begin, finish, reconfigure | slots outlive the configuration; a stream's goroutine releases them | no leak or double release on any exit; the limit holds; waiting ends |
| Result bookkeeping | `ModelState` per model, aggregate fields of the credential | `MarkResult`, expiry, block check | late results in any order; aggregates age | aggregates agree with the models; backoff is kept; blocks end |
| Engine v1 | tried set, attempt number, affinity | pick, call, fail over, wait, retry | picks use clones others outdate | bounded calls; giving up is justified; requests end |
| Engine v2 | plan, attempt context, shared offset | provider, credential, route, classify | the name and the upstream model are both keys | no route twice; blocks respected; fallback last; the attempt ends |
| Model registry | counts, counts by provider, quota and suspension marks | register, unregister, mark, list, count | duplicates, change of provider, late marks, nested locks | exact counts; no orphan marks; answers count a client once |
| OAuth refresh | `NextRefreshAfter`, token | check, claim, refresh, update | a network call between clone and write-back | one refresh at a time; the newest token survives; operators win |
| Selectors, affinity | cursors, sessions with a time to live | pick, remember, clear | stale sessions, full tables | sticky but never to a blocked credential |
| Service, watcher, file store | credential file, watcher's hashes and snapshot, pending map, update queue | file event, snapshot, diff, dispatch, apply, save | two directions, four buffers, no common lock; crashes | file and record agree once all is at rest; deleted stays deleted |
| WebSocket relay | pending requests, their channels, one cleanup | request, dispatch, cleanup, cancel | channels closed by three goroutines; full channels | no send after close; every request ends; success is whole |
| Streams: executors, manager, handlers | four channels, what was sent so far | read, translate, record, retry, forward | an error and an end race; retries while the old stream runs | one attempt is shown; an end is told once and truly; all goroutines end |
| Translators to Claude | type and index of the open block, flags of the end | one chunk | parts cut into chunks anywhere, usage late or never | events in the order of the protocol; the stop reason is true |
| Usage records | queue, counters, details, a file per day, the sink in use | publish, dispatch, count, offer, write, flush, replace the sink | the dispatcher comes after the answer; the sink is replaced under it | lines whole; no detail lost silently; own outcome; everything handled |
| Inbound limiter, OAuth sessions, probes | small tables | admit, expire | bounds | not modelled |
| Requests and other answers of translators, config, login flows, logging | – | conversions and I/O | – | not modelled |

`PROJECT.json` lists each of these with its files and status, and under `hazards`
every place where the code is hard to test, with the property that covers it or
the reason why none does.

### Modules and the code they follow

* **`ProviderSlots`** – `routing.go` (`configureProviderConcurrency`,
  `withProviderSlot`, `acquireProviderSlot`), `runtime_load.go` (begin and
  finish), and all exits of the execution loops. A channel is a pair of
  configuration number and provider, so that a slot taken from a replaced channel
  goes back to that one. `pc` distinguishes what the slot and the load counter
  tell apart: a refused stream gives the slot back *before* the load, a returned
  call after it, a stream with an error chunk drops its load but keeps its slot
  until the chunk channel is closed.
* **`AuthCooldown`**, implementing **`CooldownSpec`** – `MarkResult` with
  `updateAggregatedAvailability`, `hasModelError`, `nextQuotaCooldown`,
  `nextDailyQuotaResumeAtChinaMidnightUTC`, `applyAuthFailureState`, and the
  reading side `isAuthBlockedForModel`. The clock starts at 1, and 0 is Go's zero
  time, because the code treats it as "no time". The abstract specification says
  of a model only that a failure may block it for a bounded time, that the block
  ends with the clock and that a success or a new record ends it earlier.
* **`MixedExecute`** – `Execute`, `executeMixedOnce`, `pickNextMixed`,
  `closestCooldownWait`, `shouldRetryAfterError`, `waitForCooldown` and the sticky
  choice of `affinity.go`. Cooldowns enter as the number of time units left
  (that is what `CooldownSpec` promises), which removes the clock.
* **`LayeredRouting`** – one attempt of engine v2: `pickNextRouteFromPlan` and
  what it calls, `executeLayeredOnce`, `classifyRoutingFailure`,
  `applyRoutingFailure`. The attempt context is the request's own; cooldowns are
  changed by other requests at any time (`Cool`), and so is the provider order
  (the score is any order). The count and stream variants have the same loop.
* **`ModelRegistry`** – `RegisterClient` as reconciliation of bags of models,
  `UnregisterClient`, the quota and suspension marks, `GetModelCount`,
  `GetAvailableModels`, and the publishing half of `MarkResult` as two steps after
  the recording one. **`FirstAvailableModel`** – the same lock as Go's `RWMutex`
  sees it, under `GetFirstAvailableModel`.
* **`AuthRefresh`** – `checkRefreshes`, `markRefreshPending`, `refreshAuth`,
  `Update`, `MarkResult` and the get-then-put of the management handlers, on one
  record. Times are kept as what is left of them, and clones age with the record.
* **`WsRelay`** – one session of `internal/wsrelay`: `run`, `dispatch`, `request`,
  `cleanup`, `Manager.Send` and `Stop`, and the consumers `NonStream` and
  `Stream`. Each access to the pending map, the channels and the connection is a
  step of its own, so that the reader, the cleanup and the goroutine that watches a
  context meet between them. A send on a closed channel sets `dead`: nothing
  recovers it, and the process ends. Accesses to the pending map are atomic steps, although
  `cleanup` assigns the field without a lock; and the panic of a failed type assertion in
  `request` only fails the request, as it does under the HTTP server, while in the goroutine
  that retries a stream (`handlers.go`) it would end the process.
* **`CredentialSync`** – one credential file and its record, with everything that
  carries one to the other: `refreshAuth`, `MarkResult`, upload, status change and
  delete of the management API saving through `FileTokenStore.Save`, the file looked for
  before its mutex and written under it; an upload that writes without the mutex, over what
  a save has written or will write, and may be refused after that; a delete that removes the
  path twice; the watcher's
  events, debounced removals, hash, snapshot, difference, pending map and queue;
  `applyCoreAuthAddOrUpdate` and `applyCoreAuthRemoval`; and a restart between any
  two steps. `raced` remembers that one of the situations named in `Race` has been
  met, or an upload refused, since the last start; `deleted` remembers that a deletion is over
  (`Over`) and that the operator has not revived the credential since.
* **`StreamPath`** – one streamed answer. `ex` is the loop of an executor (18 loops,
  told apart by six features), `wr` the goroutine of `executeStreamMixedOnce`, `br`
  that of `ExecuteStreamWithAuthManager` with its bootstrap retries, `fwd` the HTTP
  handler with `ForwardStream`. Sends on unbuffered channels are one step of both
  sides.
* **`ToClaude`** – the streaming translators of Gemini, Gemini CLI, Antigravity,
  OpenAI and Codex answers into the events of Claude's Messages API, one action per
  chunk. A client that follows the protocol takes the events (`Accept`); the
  upstream may cut its parts into chunks as it likes, and what it does against its
  API's rules is written into `upstream.lapses`.

* **`UsageRecords`** – the record a request publishes (`usage_helpers.go`), the queue and
  the dispatcher of `sdk/cliproxy/usage`, `LoggerPlugin.HandleUsage` with its two looks at
  the switch and two at the sink, the goroutine of a detail sink with its buffer, its day
  and its drain, `ConfigureRuntime` under its lock, and export followed by import. A line
  is one piece of a file, or two when it fills the buffer. `own`, `outrun` and `crossed`
  remember the answers, the contexts that were reused and the sinks that were replaced.
  The model is one life of the process, whose files begin empty. Nothing under `src/` closes
  the sink when a process ends, so that it may leave a cut line, and the next process
  appends to that file (`O_APPEND`): this loss is outside the model.

Modules `MC*` give the constants their values; `*Proofs` hold the theorems.
`MCCallsStreams`, `MCRouting` and `MCExecution` check several modules side by side: a behaviour
belongs to one of them, as the variable `part` says, and leaves the others' variables
alone. They share no state, so nothing is lost by it.
Operators that begin with "Mutant of" in their comment are deliberately wrong
variants of the definition after them: substituting one must violate the property
it is listed with, which shows that the property watches the code.

## 2. Checks

| Run | Configuration | Checks | Result |
|---|---|---|---|
| `calls` | `MCCallsStreams.cfg`: 2 attempts, 2 credentials of one provider, limit 0 or 1, 2 reconfigurations | `TypeOK`, `SlotsConserved`, `LimitPerGeneration`, `LoadExact`, `WaitingEnds` | hold |
| | one stream and its retry by any of 9 loops that differ, limited or not | `OneAttemptShown`, `DoneIsWhole`, `OutcomeIsRecorded`, `ToldOnce`, `AllEnd`, `RetryGetsItsSlot` | hold |
| | an answer of up to 4 blocks and 2 tools through each of 5 translators | `RefusedOnlyAfterLapse`, `CompleteIsDelivered`, `StopReasonTrue` | hold |
| `streams_lost` | `MCStreamPathLost.cfg`: a stream without retries | `FailureIsTold` | **violated** |
| `claude_sequence` | `MCToClaude.cfg`: an answer of Antigravity | `EventsInSequence` | **violated** |
| `execution` | `MCExecution.cfg`: 2 requests of one session, 2 credentials of different priority, one of which an operator toggles | `CallsBounded`, `GiveUpJustified`, `RequestsEnd` | hold |
| | a record with 2 refreshers whose calls may outlive their claim, 1 management call, 2 tokens | `OneRefreshAtATime`, `TokenNotLost`, `ExpiringIsTried` | hold |
| `usage` | `MCUsageRecords.cfg`: 2 requests that share a gin context, 2 sinks, 2 days, queues of 1 | `LinesWhole`, `DetailKept`, `OutcomeIsOwn`, `RecordsHandled` | hold |
| `routing` | `MCRouting.cfg`: an attempt with 3 credentials of 2 providers; a model and its fallback share an upstream model on one credential, another refuses the fallback | `NoRouteTwice`, `FailuresRespected`, `FallbackIsLast` | hold |
| | the registry with 2 clients, 1 model with up to 2 copies, 2 providers, 2 results on their way | `NoOrphanMarks`, `CountsExact` | hold |
| | its lock with 2 callers and a writer with 2 writes | `AnswerStillAvailable` | hold |
| | the cooldowns of a model and its suffixed form, clock to 3 | `AggregateHonest`, `ActiveMeansClean`, `BackoffKept`, refinement `AbstractSpec` | hold |
| `layered_spin` | 1 credential, quota failures without cooldown, shared upstream model | `AttemptEnds` | **violated** |
| `first_model_returns` | 1 caller, 1 writer with 1 write | `FirstModelReturns` | **violated** |
| `registry_offered` | 2 clients, 1 result on its way | `AvailableIsOffered` | **violated** |
| `refresh_disable` | 1 refresher, 1 management call | `DisabledByOperator` | **violated** |
| `relay` | `MCWsRelay.cfg`: 2 requests, one with a chunk, channels of capacity 1 | `NoWaiterForgotten`, `PanicNeedsOverlap`, `SuccessIsWhole`, `ClosingEndsRequests` | hold |
| `sync` | `MCCredentialSync.cfg`: 2 versions of the content at a time, a queue of 1, a deletion followed through races | `SettledMeansAgreed`, `DeletedStaysDeleted` | hold |

The type invariants of `LayeredRouting`, `AuthRefresh`, `WsRelay`, `StreamPath` and
`ToClaude` are proved (section 4), so that no run repeats them.

### Bounds and why they are enough

* Slots: a limit of 1 with 2 attempts makes a channel empty and full with a
  waiter, and limit 0 is the unlimited case; 2 reconfigurations allow an attempt
  that holds, one that waits on, and one that comes after a replaced channel. The
  safety facts are proved for all values.
* Cooldowns: the durations keep the code's order where it decides (transient
  below the others, the longest backoff equal to the day); the clock passes each of
  them once. `MaxLevel` 1 is where the backoff reaches its maximum.
* Mixed: with one retry and two credentials a request meets failure, failover,
  wait and second attempt. The one code cools down for 2 units with `MaxWait` 1:
  a credential that has just failed is too far away to wait for, one that another
  request cooled down a unit ago is not. An invalid request leaves
  no cooldown and ends the request.
* Layered: two providers and two names suffice for every kind of move;
  `Contended` lists the pairs whose cooldown other requests change, one under
  each name. The switch to the next project of a provider is off here; the proofs
  hold for both settings, and `layered_spin` runs with it on.
* Registry: two copies are the smallest list with a duplicate; two results are
  the fewest that can overtake each other. `routing` declares clients, providers and
  workers of the registry symmetric; it checks no liveness.
* Refresh: two refreshers can overlap; a call lasts up to 1 unit, as long as a claim, so
  that it can outlive one; two tokens are one rotation, after which
  the provider only refuses. A token is never compared but for equality with the
  newest.
* Relay: capacity 1 with a chunk and an end makes a channel empty, full and
  overrun; the second request shares the reader and the cleanup and is the one they
  delay. The safety facts are proved for every capacity and length.
* Sync: there may be any number of versions one after the other, two of them at a time: new
  content only has to differ from what anyone still holds, and versions are only compared
  for equality, so that they are symmetric. A queue of 1 is full as soon as one update
  waits, and the next one stays pending. A file is deleted when its earlier events have been
  handled; an earlier "write" would find no file, or the content that the "remove" after it
  finds. After a race nothing is promised but that a deletion holds: `Followed` goes on from
  there only as long as a deletion is over and not revived, and `View` merges the other states,
  from which only a restart matters, which reads the file alone. At most `MaxBusy`, five, of the
  nine writers, producers and buffers are busy at once: as many as one change of the file passes
  through (events, a producer, the pending map, the queue, a removal) or two saves and a reload
  meet in; the proofs have no such bound.
* Usage: two requests make a queue of 1 overflow, fill and cut a buffer, and reuse a gin
  context; records have one day and the blank record of a switched-off `Record` the next,
  so that a buffer is flushed by a change of the day. Two sinks are enough because a third
  begins only when the first is over; a sink that is over and unused stands for a new one.
* Streams: one retry is the default's successor (the default is none); one line and
  an end are the first and the last chunk. The loops left out of `MCExecutors` have
  the features of one that is in.
* Translators: four blocks are every pair of block types twice, two tools can be
  interleaved. Each translator closes at most one block per part, or all of them.

`CHECK_DEADLOCK FALSE` appears where a request ends (`MCUsageRecords`, `MCRouting`, `MCLayeredRouting`, `MCToClaude`), where the clock stops at its bound
(`MCRouting`), and where the lock really stops (`MCRouting`, `MCFirstAvailableModel`). In
`calls` a stream and a translation may end, so their parts have a stuttering disjunct
and deadlocks of the limiter are still found.

### Fairness

* `ProviderSlots`: every upstream call and every goroutine goes on (weak fairness
  of each attempt); a send into a channel is strongly fair, because the Go runtime
  hands a freed buffer slot to the first of the blocked senders.
* `MixedExecute`: requests that have begun go on, executors return, and time passes; no
  request has to come. `LayeredRouting`: the request's goroutine goes on. Nothing is
  assumed of other requests' results.
* `FirstAvailableModel`: strong fairness of every caller and writer; that the run
  is violated in spite of it shows that the cause is the lock and not the
  scheduler.
* `AuthRefresh`: the loop ticks, goroutines go on, and the context of a refresh
  ends it; a management call that has read the record writes it. Nothing is assumed
  of the provider's answers.
* `WsRelay` (`Running`): the callers, the reader's own steps and a cleanup that has begun
  go on; reads of a closed connection fail; a session that was taken out of the manager
  or whose reader has gone is cleaned up (both call `cleanup` next). Nothing is assumed
  of the client at the other end, and nothing after a panic.
* `StreamPath` (`Running`): every goroutine goes on as long as it is not blocked; the
  cancelled context reaches them; a read of an upstream ends once the context has ended,
  since the request was made with it. An upstream may be silent for ever otherwise.
* `UsageRecords`: the goroutine of a sink and a configuration that has begun go on. The
  dispatcher is strongly fair: it waits for the read lock of the runtime, which
  configurations take and release again and again, and Go's `RWMutex` lets the readers
  in that wait when a writer leaves.

The requests, goroutines and streams of `MixedExecute`, `WsRelay` and `StreamPath` each
make finitely many steps in an instance. It is therefore enough to ask that *one* of those
that can go on does: a weak fairness of the whole disjunction, which is weaker than one of
each and has the same consequences here.

## 3. What the violated runs show

Each of these checks one sentence of the repository's own documentation or
comments, quoted under `findings` in `PROJECT.json`.

1. **Engine v2 spin** (`layered_spin`). When the requested name and its fallback
   resolve to one upstream model on a credential whose quota failure leaves no
   cooldown (cooling disabled), the fallback stage offers that credential for ever.
   `Skip` marks the resolved model, which is marked already, and not the name.
2. **"auto"** (`first_model_returns`). `GetFirstAvailableModel` takes the read
   lock again under the read lock; a writer in between stops them all.
3. **Counts** (`registry_offered`). A 429 marks a client twice, and it is
   subtracted twice: the count is too low, and a model with an untouched client may
   be hidden.
4. **Refresh write-back** (`refresh_disable`). A refresh puts back the record as
   it was before its network call, so that an operator's "disabled" is undone. A
   cooldown recorded during the call is undone in the same way.
5. **A lost error** (`streams_lost`). The handlers of the three APIs wait for the first
   chunk with a `select` over the error and the data channel. When a stream fails before
   its first chunk, its error and both closed channels may all be ready; if the closed
   data channel is drawn, the client gets 200 and an empty, complete answer.
   `ForwardStream` looks for a pending error in the same place; the peek does not.
6. **A block that never started** (`claude_sequence`). Antigravity's translator closes a
   thinking or call block on an empty text part, counts the index up and keeps the type
   of the closed block; the next part of another type stops the new index first.

More facts are visible in the models; but for the retry they contradict no text of the
repository, and no run is needed to see them:

* Limiter: applying any configuration replaces all semaphores by empty ones, so the limit
  holds per configuration (`LimitPerGeneration`) and not across a reload.
* Retry: whether a request is retried depends on the wait not exceeding
  `max-retry-interval`, not on the status code, whereas `config.example.yaml:93` says
  "Retries will occur if the HTTP response code is 403, 408, 500, 502, 503, or 504". The
  models follow the code, and no property depends on the sentence.
* Registry: `MarkResult` publishes after its unlock, and a resume may overtake an earlier
  suspension and leave a healthy client suspended.
* Relay: a message that meets a client which leaves, or a cleanup, is sent to a closed
  channel and ends the process (`PanicNeedsOverlap` says that there is no other way). The
  error of a cleanup is dropped when the channel is full, and the closed channel then ends
  the answer as a success without its rest; so does a dropped `stream_end`.
  `SuccessIsWhole` has `behind`, the requests that had a message dropped, for exception.
* Refresh: a refresh that takes longer than its claim (a minute) may overlap with the next
  one. The newest token is not lost by it (`TokenNotLost`): the provider refuses the older one.
* Sync: each disjunct of `Race` was found by the checker as a lasting disagreement of file
  and record. An upload that is refused has overwritten the file already, and the record
  stays as it was. An upload and a save that write at once may leave the mixture of both. A refresh that began before a deletion, or a result between the removal of
  the file and `disableAuth`, or a save of a disabled record that had looked for the file just
  before, brings the file back; a crash within `Save` leaves an empty
  file, which is a credential lost.
* Usage: a process starts with statistics on and without a sink, and `UpdateClients` only
  reacts to changes, so that the setting of the first configuration is not applied by
  anything under `src/` (the entry point is not part of the repository). A request whose
  gin context was reused before its record was counted gets the outcome of another one
  (`OutcomeIsOwn` excepts these). A detail handed to a sink that has just been closed is
  lost without being counted as dropped (`DetailKept` excepts them). A record that meets
  the switch between its two tests goes to the file blank. While there is a sink, details
  are in files only, and `MergeSnapshot` compares an import with the memory only: what was
  exported is counted again when it is imported into the same process.
* Streams: loops that end with the translation of `[DONE]` send it before an error, too:
  the client is told an end and then the error, and that payload rules out the retry.
  Loops without a strict end take an early end of the connection for the end of the
  answer. When a client leaves, plain loops report the cancelled context as a failure of
  the credential, strict ones a success.
* Translators: Antigravity sends a signature to the open block even if that is not a
  thinking block, or if none is open. Gemini and Gemini CLI leave the last block open and tell no stop reason if
  the answer was cut off or its last chunk lacks `candidatesTokenCount`, and forget the
  calls of earlier chunks in the stop reason. Gemini CLI and Antigravity make two calls
  of one whose arguments come in two chunks, which Gemini does not (it has a fix for
  it). Antigravity tells `end_turn` of an answer that was cut off. OpenAI's translator
  starts a block again if a tool's name is repeated, stops one that was never started if
  it has none, and goes on after `message_stop` if usage is repeated. All of these are
  `lapses` of the upstream in the model.

## 4. Proofs

All proofs are checked by TLAPS for every value of the constants under the
assumptions named in the modules (`SlotsAssumption`, `RoutingAssumption`,
`RefreshAssumption`, `RelayAssumption`, `StreamAssumption`, `ExecuteAssumption`,
`RegistryAssumption`, `LockAssumption`, `CooldownAssumption`, `UsageAssumption`,
`SyncAssumption`).

### `ProviderSlotsProofs`

`TypeCorrect`, `SlotsNeverLeak`, `LoadNeverDrifts` and `LimitHolds` state
`Spec => []` of `TypeOK`, `SlotsConserved`, `LoadExact` and `LimitPerGeneration`.
The inductive invariant is

    IInv == TypeOK /\ SlotsConserved /\ LoadExact /\ ChannelsSound

`SlotsConserved` alone is not inductive: a step of an attempt changes the set of
holders of exactly one channel by one element, which needs that a captured channel
is not of a future configuration and that future channels are empty, or else
`Configure` could give a full channel a smaller limit. `ChannelsSound` says this,
and that no buffer exceeds its capacity. The lemmas compute the cardinality of a set
that gains or loses one attempt, one step per action shows which sets change, and
the limit follows because the attempts open at a provider are among the holders.

### `RoutingProofs`: `LayeredRouting`

`TypeCorrect`, `RoutesCalledOnce` (`NoRouteTwice`), `PolicyHolds`
(`FailuresRespected`) and `FallbackOnlyLast` (the action property
`FallbackIsLast`). The inductive invariant is

    IInv == TypeOK /\ FailuresMarked /\ RouteOpen /\ BlocksJustified

`FailuresMarked` says what each failure of the history has left in the attempt
context, `RouteOpen` what the choice of a route has just checked, and together they
give the first two properties: the history contradicts the check. The fallback
needs the reason behind each blocked provider and model: `BlocksJustified` says
that either a failure of the provider's scope or the exhaustion of its credentials
put it there, which stays true because marks and histories only grow.

### `RoutingProofs`: what decides whether a model can be had

Three components.

*The registry*: `RegistryTyped`, `CountsNeverDrift` (`CountsExact`) and
`LateMarksAreDropped` (`NoOrphanMarks`: no marks once no client is registered; while one is, a
late result may still mark another that is gone). The sum of the copies that a set of clients lists is
written as the cardinality of the set of pairs of client and copy, so that the step of one
client is a bijection and needs no induction over clients. `CountsNeverDrift` is inductive
with the types, once one lemma says what `RegisterClient` and another what
`UnregisterClient` do to these sets; `LateMarksAreDropped` rests on it, since a mark is dropped
when the count becomes zero, and that is when the last copy goes.

*Its lock*: `LockTyped` and `FoundStaysAvailable` (`AnswerStillAvailable`). `Exclusion` says
that a caller between its outer `RLock` and `RUnlock` is among the readers and that a writer has
the lock with no reader left; so the states of models stand still from the first look to the return.

*Cooldowns*: `CooldownTyped`, `AggregateStaysHonest` (`AggregateHonest`), `ActiveIsClean`
(`ActiveMeansClean`), `BackoffIsKept` (`BackoffKept`), and `CooldownsAreAbstract`: the
bookkeeping of results implements `CooldownSpec`. For the aggregate the invariant `Agreed` ties
`auth.retry` to the least of the states' instants, with the states as they were expired when
it was computed: at a later instant both sides have moved over the same bound. For the
refinement, `until` is what `isAuthBlockedForModel` answers for each model; one lemma per
operation says which models a result concerns (itself and the variants without a state of
their own) and that nothing else changes, one that time alone ends blocks, and the bound of
every block follows from `NextMidnight`, the delays and the largest backoff.

### `ConductorProofs`: `AuthRefresh`

`TypeCorrect`, `OneRefresh` (`OneRefreshAtATime`) and `NewestTokenKept` (`TokenNotLost`),
for any durations: a refresh may take longer than its claim.
The inductive invariant is

    IInv == TypeOK /\ PlacesTyped /\ (outdated \/ ((overrun \/ Exclusive) /\ TokensHeld))

That there is one refresh now says nothing of the next `Mark`. `Exclusive` does: the age
of a running refresh and what the record has left of its backoff make up the claim, so
that `markRefreshPending` finds the record claimed while any refresh runs. Time takes from
one what it gives to the other, and only the end of the one refresh there is shortens the
backoff. Once a refresh is as old as its claim, `overrun` remembers it until no refresh runs.
`TokensHeld` needs none of that: the provider accepts the newest token alone, so that of any
number of refreshes that overlap one is granted, nobody else holds its token until it has
written, and before and after that the record has the newest one.

### `ConductorProofs`: `MixedExecute`

`ExecuteTyped`, `CallsAreBounded` (`CallsBounded`) and `GivingUpIsJustified`
(`GiveUpJustified`), for any credentials, priorities, retries and number of requests. The
invariant `ExecuteInv` has four parts, each said of one request. `CallsCounted`: within an
attempt a called credential is in `tried`, so that `calls` exceeds the finished attempts by
one at most, and only for those. `AttemptsAllowed`: an attempt was only begun after
`shouldRetryAfterError` had found a credential whose retries allow it, and `attempt` does not
grow without asking again. `ClonesJustified`: whatever another request or an operator has
done to a credential since `Snapshot`, each credential that the clones do not show as usable
is tried or excused, which is why a selection from outdated clones may still give up.
`Justified`: at the end of an attempt `tried` and `excused` cover all credentials. The
priorities need one lemma: a nonempty class is never hidden by a better one that is empty.

### `WsRelayProofs`

`TypeCorrect`, `NoWaiterForgottenHolds`, `PanicNeedsOverlapHolds` and
`SuccessIsWholeHolds`, for any requests, any capacity and any length of the answers. The
inductive invariant joins four arguments. `OneCleanup`: flag and program counter of the
cleanup agree, so that there is one. `Covered`: a caller that waits on an open channel has
an entry in the map which the cleanup has still to visit, or is visiting. `NoLateEntry`:
while the session is up and all clients stay, an entry means an open channel, so the
reader never sends to a closed one. `Complete`, for requests that are still `Intact`: what
the consumer has got, what is in the buffer and what the reader holds add up to what the
client has sent, and an end in the buffer comes after all of it.

### `StreamPathProofs`

`TypeCorrect`, `OneAttempt`, `OutcomeRecorded`, `CompleteIsWhole` (`DoneIsWhole`) and
`EndIsToldOnce` (`ToldOnce`), for any executor, number of retries and
length. `RetrySafe` and `Shown` give the first: payload is only handed on from the current
stream, and once it was no retry begins. The second needs the way of an error through all
goroutines: `Recorded` (what the manager's goroutine holds is recorded), `ErrorKept` (while
the request lives, an error is on its way to the handler or known there) and `Alive`
(the handler runs until the client leaves). `CompleteIsWhole` follows the other ending through
the same goroutines: what closes the data channel without an error has seen the upstream's end
as its loop demands it. `EndIsToldOnce` is about the loops: one that is strict or framed sends
its end only with the upstream's, after which it has no error to send. Both rest on
`LoopFacts`, what the features of the loops in `Loops` have in common.

### `ToClaudeProofs`

`TypeCorrect`, `RefusalsExplained`, `StopReasons` (`StopReasonTrue`) and `WholeAnswers`
(`CompleteIsDelivered`), for any tools and any number of blocks and chunks. The invariant `Tracks` says that without a lapse the translator's fields describe
what the client has open: for Gemini's `Held`, the one block of `ResponseType` at
`ResponseIndex`; for Codex `CodexTracks`, the upstream's item; for OpenAI `Listed`, the
text or thinking block and the tools that have begun, with all indexes below `next` and
distinct, and after the finish reason `Finished`. One lemma per event says what it does to
these, and one per part of a chunk follows from them; the seven lapses of
`RefusedOnlyAfterLapse` are exactly the cases in which a lemma's hypothesis fails.

The stop reason, with the two exceptions that `StopReasonTrue` names (Antigravity's answers
that were cut off, and Gemini's calls of earlier chunks), needs no lapse-free history, so its invariant, `Reasoned`, is another: while
an answer goes on nobody has been told why it ended, an open block of a call is one the client
has counted (`HasCall`), and the upstream, the translator (`params.tool`, the finish reason
that OpenAI keeps) and the client agree on whether there were calls. `Went` and `Learnt` say
of each operation how many calls it makes and whether it tells a reason; they compose, so
each chunk is calls first and then at most one reason. The one delicate case is an OpenAI
call that never had a name: it has an index but no block, and the stop of its block
is refused before a reason is told (`CloseWent`). `Delivered` adds what the end of an answer
leaves, by `Tracks` and `Reasoned`: a Gemini translator without content has opened nothing, and a
completed Codex answer or an OpenAI answer with its usage has been stopped already.

### `UsageRecordsProofs`

`UsageTyped`, `FilesReadable` (`LinesWhole`), `OutcomesAreOwn` (the action property
`OutcomeIsOwn`) and `DetailsKept` (`DetailKept`), for any requests, contexts, days, sinks and
capacities. All rest on `SinksInOrder`: only the sink in use is at work, except while a
configuration waits for it to drain, and a sink without a day has an empty buffer.

*Lines*: `LinesInOrder` says that every file, with what the sink in use has in its buffer for that
day, is sound; a line cut by a full buffer is one piece in the file and one in the buffer, and
only the sink of the day can add to either.

*Outcomes*: `Alone` (a record is in one place: unpublished, queued or with the dispatcher),
`Unknown` (nothing else knows of a record before it is counted) and `StatusKnown` (the status
of a gin context is the record's own answer, or that of a later request, which `outrun` remembers).

*Details*: `DetailsSafe` follows the dispatcher. Between its two looks at the sink and its offer
the sink may be closed under it; `crossed` has those records, and for the others the sink that
was asked for is still running. A drain writes all it has, so that nothing in a queue or a
buffer is given up.

`UsageAssumption` has one conjunct more than the types: there is always another sink to open,
since the code allocates one when it needs it; the model uses a sink that is over again.

### `CredentialSyncProofs`

`SyncTyped`, `SettledAgrees` (`SettledMeansAgreed`) and `DeletionHolds`
(`DeletedStaysDeleted`), for any number of versions, any bound of waiting events and queues of
any capacity. Until a race is met, and again from the next start, the invariant `Steady` follows
a change all the way round:

* `StoreKnown`: a truncated file is being written, and who writes a file that is not truncated
  has been overtaken by an upload, or by a deletion, which `unlinked` says;
* `ChangeSeen`: the last snapshot has the file as it is, or another snapshot will be taken. Here
  the races about events are needed: they are the ways in which an event is ignored although
  the last snapshot is old;
* `NewestIsCurrent`: the newest of the updates on their way, in whichever of the four buffers,
  has what the last snapshot had, or a reload has dropped the entry and will send another;
* `Covered`: with no update on its way, the record is what the last snapshot had, or the file is
  ahead of that snapshot, or a writer still has to put into the file what the record has;
  `SavesCovered` says of a writer that is about to write that this is so now. Here the race of two saves
  is needed.

At rest each excuse is gone, which leaves `Agree`. `StoreKnown` allows for an upload that
writes while a save does (`Uploading`): its own save comes after both. `Crashed` is the one state after a start that has no such order: the file
is truncated while the first reload runs, and every further step is a race. Versions need not be fresh
for this: contents that come back are among the races. `SyncAssumption` says that no file, a
truncated file and no value are three things, and none of them a content.

`DeletionHolds` needs none of this, and holds after races too. Its invariant `Deleted` extends
`Over`, with which a deletion begins to be promised, to what may follow: the operator may hold a
copy that is disabled, but nobody is past the look for the file, no snapshot, update or clone on
its way has a content, and a restart finds nothing. A save that was past its look when the file
went does bring it back, which is why `Over` waits for it.

### Out of the prover's reach, and only model-checked

* Liveness (`WaitingEnds`, `RequestsEnd`, `ExpiringIsTried`, `AllEnd`,
  `RetryGetsItsSlot`, `ClosingEndsRequests`, `RecordsHandled`, and the violated `AttemptEnds` and
  `FirstModelReturns`) depends on fairness and `ENABLED`.

Every safety and action property that a passing run checks is stated by a theorem.

### Assumptions worth knowing

* `OneRefreshAtATime` and `TokenNotLost` hold while no management call has put
  back an older token or time (`~outdated`); with a get-then-put of an older
  record (`auth_files.go:795`) both can fail. The first also excepts the time after a refresh
  has outlived its claim (`overrun`), for which the code sets no deadline (the claim is a minute,
  and the time of a refresh is that of its HTTP calls); the second does not.
* The exceptions `outdated`, `overrun`, `left` (a client that goes away), `behind`, `outrun`,
  `crossed` and `raced` are situations in which the code does go wrong. A property with one of
  them says that this situation is the only way, and would not notice a change of what happens
  within it; the hazards in `PROJECT.json` name these cases one by one.
* `AbstractSpec` looks at `AuthCooldown` through `isAuthBlockedForModel`: a model
  is concerned by the results of its base model too, because the selector falls
  back to the state of the name without its suffix.
* `CooldownAssumption` bounds the delays that a provider may ask for with `Retry-After`; the
  code takes any, and the bound is what `MaxBlock` of `CooldownSpec` stands for.
* `AttemptEnds` is only checked where it fails. What the other runs of engine v2
  guarantee is safety: a route is not called twice, so the calls of an attempt are
  bounded even where its loop is not.
* The results of engine v2 are recorded under the upstream model's name;
  `LayeredRouting` keeps both names apart, and the retry loop around it is not
  composed yet.

* `SettledMeansAgreed` promises nothing once a situation of `Race` has been met or an upload
  has been refused, until the next start. The list is what the checker left of the
  claim that the two always agree. After a crash within `Save` the two agree on an unreadable
  file, and the credential is lost. `DeletedStaysDeleted` has no such exception.
* `ToClaude` takes the parts of a chunk one by one, takes further arguments to follow their
  call, and has no `max_tokens`, which replaces `end_turn` only. `EventsInSequence` leaves
  signatures without a thought aside, so that its run shows the empty text.

## 5. Not modelled

`PROJECT.json` gives the reason for each. In short: conversions and I/O (requests and the
other answers of translators, thinking, configuration, logging, login flows, assets) have no
protocol; outage and health views only read; aliases and exclusions are stateless tables.
The inbound limiter is one semaphore, management OAuth sessions are one table with expiry,
and a probe is a request whose result goes to `MarkResult`: small protocols that ask nothing
which the modules here do not answer for larger ones. Of the modelled parts these are left out: the heartbeat of
the relay (it makes a read fail, which may happen at any time), the mirrors of the
credential store (git, object store, Postgres), the goroutine that turns chat completions
into completions, Gemini CLI's answers with `alt`, response affinity and the bound of 8192
sessions, the windows after which usage details leave memory and files and the saved
snapshot of the counters, and a data race on a record's maps at `conductor.go:2922`, whose outcome is a
crash of the process.

The translators, executors and management handlers are most of the repository's lines. They
are sequential code without a state that outlives a call, except where it is modelled here;
a model of the rest would repeat it line by line, and its unit tests say more.

## 6. What would come next

1. `LayeredRetry`: the retry loop around `LayeredRouting` with the cooldowns of
   `CooldownSpec`, for the two names a result and a wait use.
2. Small modules with their bounds: affinity store, OAuth sessions, probes.
