# prism-plan in TLA+

prism-plan is a task planner built as an event-sourced system: a web client
posts commands, an API queues them, a domain service turns them into events, an
updater projects the events into tables and a cache, and a stream service tells
the clients. Between any two of these stands a queue, a channel or a network,
and every one of them retries. This directory models the parts in which that can
go wrong, model-checks them with TLC on small instances, and proves the most
important properties with TLAPS for instances of any size.

## The system

```
web client --POST /api/commands--> prism-api --Command Queue--> domain-service
  ^   ^                              |  ^                          |     |
  |   |                              |  | (reads)                  |  event tables,
  |   +--- GET /api/tasks -----------+  |                          |  __idempotency__ rows
  |                                     |                          |     ^
  |                           tables, Redis pages                  | idempotency-cleaner
  |                                     ^                          v
  +--- SSE --- stream-service <-- Redis -- read-model-updater <--Domain Events Queue / HTTP
```

| component | state | operations | hard part | what makes it correct |
|---|---|---|---|---|
| web client, outbox (`useTasks`, `useSettings`, reducers) | queue of commands, the effect in force, posts under way | queue a command, post the queue, take the answer | overlapping posts, answers after teardown, reposts after lost answers | what the user asked for stays queued until the API has taken it; the queue drains |
| prism-api, stamps (`utils.go`, `finalizeCommands`) | `lastTimestamp` | reserve a range, stamp a batch, generate keys | lock-free loop, a clock that goes back | stamps and keys unique and increasing |
| prism-api, sender pool (`pool.go`, `postCommands`) | jobs channel, workers | hand over, wait, publish inline | full channel against timer, 202 before publication, process death | a batch is tried exactly once; everybody gets an answer |
| prism-api, `EnqueueCommands` | payload channel, workers, first error, context | publish a batch | partial failure, cancellation, blocked feeder | `nil` means all published; the call returns |
| domain-service (`CommandHandlers`, `Repositories`, dispatcher) | event rows with Dispatched flags, idempotency rows with a 30 s lease | reserve a key, replay, load, add, dispatch, flag, settle | concurrent deliveries of a key, exceptions and lost answers at every await, a dying host | events stored once; a completed key has been sent; commands take effect |
| idempotency-cleaner | what its query returned | query, delete | races the handlers without ETags | never lets an event be stored twice |
| read-model-updater, tasks (`task_service.go`, `processor.go`) | task rows with ETags | get, insert, merge, refresh, publish | concurrent events of one row, redelivery, reordering | rows and fields only move forward in event time; what a row shows is announced, unless a fault of its own handling cost it |
| the way of tasks to the screen: `cache.go`, prism-api `FetchTasks`, the client's `fetchRemote` and reducer | Redis entry of pages and tokens, walks under way, the board | list and store pages, look a page up, ask the table, collect, set, merge | an entry replaced between two pages, refreshes that cross, short pages, lost updates, updates that carry order 0 | a walk sees every task once; the board catches up |
| read-model-updater, users (`user_service.go`) and prism-api `FetchSettings` | profile, settings row, Redis entry | get, upsert, merge, load, set, publish, read | no ETag on settings, refreshes that cross | settings only move forward, unless a handler is overtaken between its read and its write; the API answers the table's settings in the end |
| stream-service (`handlers.go`, `subscription.go`) | map of clients under a RWMutex, a channel of one per client | receive, broadcast, connect, write, leave | send on a closed channel, stalled clients | no panic, order, isolation of users and of slow clients |
| prism-api, start-up (`main.go`, `storage.New`, `initCommandSender`, `initTaskLogQueue`) | the configuration | derive sizes from the environment | limits, defaults and an int32 that interact | usable sizes, the same pages in both services |
| prism-api, `GET /tasks` (`handlers.go`, `auth.go`, `metrics.go`) and the client's `auth0.ts` | log queue, access token, attempts | authenticate, answer, log, wait, retry | three clocks, a full log queue | every run logged once; skew is bridged |
| storage-init; UI; deployment | | | | see *What is not modelled* |

`PROJECT.json` lists the components, the hazards of the code at their lines, the
runs, and for every definition the source lines it models.

## Modules

One module per component; `MC*` modules give TLC its instances; `*_proofs`
modules hold theorems. Definitions keep the names of the functions they model.
`CommandIntake_proofs` is about three small components, the stations of a command on
its way to the Command Queue: `CommandOutbox`, `TimestampRange` and `EnqueueCommands`. To
stand in one module the first two have names of their own for their specifications
(`OutboxSpec`, `StampSpec` and so on).

| module | models | remarks |
|---|---|---|
| `CommandProcessing` | domain-service and the cleaner | one action per awaited call; `pc[m]` is the await at which the handler of message `m` stands |
| `CommandEffects` | abstract: what the command side promises | events once per key and type, only stored events published, a key settled only when all is published |
| `TimestampRange` | `nextTimestampRange`, `finalizeCommands` | one action per atomic operation |
| `EnqueueContract` | abstract: what one call of `EnqueueCommands` promises | |
| `EnqueueCommands` | that call, its feeding loop and goroutines | refines `EnqueueContract` |
| `CommandSender` | the pool and `postCommands` | built on what `EnqueueContract` promises, one call per batch |
| `TaskProjection` | `TaskService.Apply`, `processEvent` | the value of a field is the event that set it; the refresh of the cache is one step, see `TaskPages` |
| `TaskPages` | `RefreshTasks`, `FetchTasks`, `fetchRemote`, `set-tasks`, `merge-tasks` | composes the updater's cache, the API's reading and the client's board; `Apply` is what `TaskProjection` shows of a row: each write makes it newer |
| `SettingsProjection` | `UserService.Apply`, `RefreshSettings`, `FetchSettings` | the value of a field is the event that set it |
| `ApiConfig` | what both Go services make of their environment | operators without state |
| `ApiServer` | `main`, `getTasks`, `UserIDFromAuthHeader`, the log queue, `fetchWithAccessTokenRetry` | extends `ApiConfig` |
| `StreamService` | subscribers, broadcast, connection handlers | a message is its channel and number |
| `CommandOutbox` | the client's queue and the effect that posts it | the API appears as the answers it gives |

How the state corresponds to the code:

* **CommandProcessing.** `idem` is the `__idempotency__` partition. A row records
  its status, the invocation that wrote it and whether 30 s have passed
  (`IsProcessingStale`); `linked` is the set of handlers whose ETag is current, so
  that every write of a row invalidates the ETags read before. `log` is both event
  tables in insertion order, `dispatched` the rows with the flag set, `sent` what
  was handed to the queue or posted over HTTP. The locals of a handler are
  `started` (TryStartProcessing answered Started), `pend` (rows still to dispatch)
  and `fresh` (events still to add). Task and user repositories have the same
  code and are one module. A payload is reduced to what it does to `Done`; titles
  are never set to null. An exception leads to `MarkProcessingFailed` exactly when it
  is thrown inside the handlers' `try`. Lost answers are modelled where the table
  client repeats the request and meets its own write, or gives up; a repeated release
  (`ReleaseReplyLost`) meets whatever reservation there is by then, since it takes any ETag.
* **TaskProjection, SettingsProjection.** `row` is the table, `seen` what the
  handler read, `loaded` and `cache` the settings updater's row and entry. `ErrConcurrencyConflict`
  is the step from `"update"` back to `"get"`. An error of Apply fails the event, an
  error of the cache or of Publish is logged and swallowed. `faults` of `TaskProjection` is the set of
  faults so far, with the call and the message they hit, so that a property can tell whose fault it was.
* **TaskPages.** A row is its version and a continuation token the key of the first row not
  returned, as Azure Tables has it; a query may return fewer rows than asked for and a token
  nevertheless. `refresh[e]` holds the locals of `RefreshTasks` for event `e`, `entry` the
  value in Redis, `walk[w]` the locals of one call of `fetchRemote`. A request is two steps,
  the look-up in Redis and, on a miss, the query, so that table and entry may change in
  between. On the board a task is the version it shows and whether its order is its own or the 0
  that stream-service sends for an event without one. A merge sets the whole version, although an
  update may carry some of the fields only. So an update merged late takes the version back, while on
  the real board it leaves the later one's other fields alone; and a board that missed an earlier
  update looks up to date once a later one is merged, while on the real board the fields of the earlier
  one are still old. `BoardCatchesUp` does not rest on merges: it is the poll that repairs the board.
* **ApiServer.** Time is in seconds of the API's clock; `skew` says by how much the issuer's
  and the browser's clocks are ahead. `token` is what the Auth0 client holds. A call's `until` is
  when its pending delay ends; a request may reach the API at any time after that. `Outcomes` are
  the handler's early returns, each with its error stage, and each may fail to get out to the
  client. An environment variable is unset, text or a number.
* **StreamService.** The read lock is held from `RLock` to `RUnlock`;
  `addClient` and `removeClient` need `NoReader`. `close(ch)` is a step of its own
  after `removeClient`, as in the deferred function. Redis may lose messages, a client
  may stop reading or leave at any moment.
* **CommandSender.** The hand-off timer may fire at any time. `Crash` empties the
  channel and drops open requests.
* **CommandOutbox.** A new queue means a new effect (`effect` counts them); an answer is
  used only by the effect that posted. `intake` is what the API has taken: `Accept`, a 202, means
  that the batch is in the channel of the command sender, in memory, or was published inline, and
  `Fail` that none of it was taken, a part (inline publishing failed half-way: 500), or all of it
  with the answer lost. What is taken may still be lost on its way to the Command Queue: that is
  `CommandSender`'s subject, whose `AcceptedIsPublished` is refuted below.
  `set-idempotency-keys` and `clear-commands` happen in one render. An error answer is plain text, so `response.json()` throws.

Mutants: an operator named `Action_Bug` next to `Action` is the same action with a
plausible bug. None is part of a specification; each one, put in place of its
original, makes the property it is listed with in `PROJECT.json` fail.

## Runs

Properties that hold:

| run | instance | states | shows |
|---|---|---|---|
| `commands` | a first login sent twice, a malformed message; 2 faults | 148 k | `NoDuplicateEvents`, the invariant `HandlerInv` (with `CompletedMeansReached` and `FlagMeansReached`), the refinement of `CommandEffects`, `StoredEventsReachReadSide`, `CommandsTakeEffect`, `EveryMessageSettles` |
| `task_life` | create, complete, update, reopen of one task, in any order; 1 fault, any answer may be lost, to a release too | 2.2 M | `NoOrphanEvents` |
| `timestamps` | 4 batches, 3 clock readings around a digit boundary | 6 k | stamps and keys unique, increasing, everybody served |
| `enqueue` | up to 4 commands, 1 to 4 goroutines | 184 k | `NilMeansAllPublished`, the contract, `AlwaysReturns` |
| `sender` | 4 requests, 2 workers, a channel of 2, restarts | 88 k | `SenderInv`: a batch is held once, `OneCallPerBatch`: tried once, also across restarts, `AcceptedIsWorkedOff` |
| `task_projection` | 3 events of one task and an unknown one, 1 fault, 2 attempts each | 105 k | `ProjectionInv`, `RowsMoveForward`, `FieldsMoveForward`, `EveryMessageSettles`; `ShownIsAnnounced`: what a row shows is announced, although the cache fails and other handlers do, unless the event's own handling crashed, lost an answer or met a failing channel |
| `pages` | 3 tasks, one created between them and one changed meanwhile; pages of 2, 2 of them cached; 1 fault | 194 k | `PagesInv`: the entry can be cut into pages by counting, and a walk has what lies before its token; `NoTaskTwice`, `NoTaskSkipped`; `BoardCatchesUp` |
| `settings` | 4 user events, two at a time, 1 fault | 251 k | `SettingsInv`, `SettingsMoveForward` (but for overtaken handlers), `SettingsCatchUp` |
| `stream` | 2 windows of one user, 2 channels, another user's traffic | 91 k | `NeverSendOnClosed`, `InOrder`, two liveness properties |
| `outbox` | 2 actions, 3 posts at a time, 1 failure | 96 k | `NothingLost`: what was asked for is queued until the API has taken it; `OutboxInv`, `OutboxDrains` |
| `api` | 6 environments, 2 pairs of clocks, with or without a token at hand, 2 calls of `GET /tasks` | 1.7 M | `ConfigWithinLimits`, `LoggedOnce`, `SkewIsBridged` |

One run shows a claim of the repository's docs that the code does not keep (the finding of
`PROJECT.json` quotes it): in `commands_slow` a live handler outlasts its 30 s lease, is overtaken,
and both store the event, although "retries never emit duplicate events".

**Stated and refuted.** Some properties a reader would expect are defined in the modules but
checked by no run, because TLC refutes them; each takes the constants of a run, changed as
described:

| property | take | change | what happens |
|---|---|---|---|
| `CommandProcessing!StoredEventsReachReadSide` | `commands` | let `"fail"` throw too | the release of the key fails after the dispatch did; the retry a second later meets the lease and its message is deleted |
| `CommandProcessing!NoDuplicateEvents` | `commands` | let the answer to `"fail"` be lost too | the repeated delete of a released key removes the reservation of the other delivery, and the redelivered message starts beside it |
| `CommandProcessing!FirstLoginCreatesSettings` | `commands` | none | the second `Add` of a first login fails; the retry replays the first event only and completes the key |
| `CommandProcessing!UserCreatedOnce` | `commands` | two keys for the two logins | both find no user and create it |
| `CommandSender!AcceptedIsPublished` | `sender` | none | a worker's error, or the end of the process, comes after the 202 |
| `TaskProjection!NoChangeLost` | `task_projection` | none | a renaming that arrives after a later completion is stale, although it touches another field |
| `StreamService!NoGaps` | `stream` | three tasks of one user in a row | a full channel drops an update, later ones arrive |
| `CommandOutbox!OneKeyPerIntent` | `outbox` | none | a post that was taken and whose answer was lost is posted again and gets new keys |

Three things the models do and no property forbids: after two refreshes have crossed, the older
entry stays in Redis until the next event or its expiry (`pages` and `settings` find this as soon as
`Expire` is taken out: it is the mutant of `BoardCatchesUp` and of `SettingsCatchUp`); a walk
that is refused half-way puts the pages it has on the board, and a streamed completion puts order
0 there, both until the next poll; and with a page size beyond 1000 the API takes 1000 and
the updater does not, so that no entry is ever used.

**Bounds.** Two messages of one key let one handler hold the lease while the other races
to reclaim it; two faults are needed for a failure while cleaning up after a failure.
`MaxDequeue` is 2 or 3 instead of 5. In `commands` it exceeds `MaxFaults`, so that every fault is
followed by a redelivery (the liveness properties are about messages that are not poisoned) and
only the malformed message is; in `task_life`, `settings` and `task_projection`
messages are poisoned. Of the answers that may be lost, `commands` leaves out those to the
reservation (the command then does not take effect), to `MarkProcessingSucceeded` and to
`MarkProcessingFailed` (a key may then have two handlers); `task_life` has them. `LogoutUser` and `UpdateUserSettings` add one event unconditionally, as `CreateTask` does, and
differ from it in the type only: the first is in `commands_slow`, the second in no run, and both in the
proofs. `MaxAtWork` is 2 where the host's `batchSize` is 32: two handlers are
what it takes to be overtaken. Clock readings 33, 35 and 36 make ranges cross the
boundary between one and two digits of base 36. `Buffer` equals the number of workers,
the least `initCommandSender` allows, so that four requests saturate it. In `pages` the
tasks fill two pages and the creation falls between them, so that what was the second page's first
row moves to the first page's end while a walk is between the two; `Poll` has one member, because
`NoTaskTwice` and `NoTaskSkipped` are about a walk alone and two walks that overlap are beyond TLC here.
In `api` the issuer's clock is four seconds ahead, the most that is bridged, and the browser's is
with it or a second behind (further behind it waits longer and is refused less often); `MaxTime` lets both
delays pass, `Margin` and the lifetime of tokens are scaled to it, and a token outlives the retries
of a call (`TokenAssumption`: one renewed between them starts the wait anew); an int32 reaches to
`Half`, below the largest page size of the instance, so that the conversion wraps; the calls are interchangeable, hence the symmetry. Runs switch off the
deadlock check because their instances end (all messages are settled, all requests
answered), but for `pages`, where the client polls for ever.

**Fairness.** Weak fairness of each handler: the Functions host awaits what the
handler awaits, and all calls have timeouts. Weak fairness of `Expire` and `Reappear`:
time passes. Goroutines are scheduled (`TimestampRange`, `EnqueueCommands`, `CommandSender`,
`StreamService`), and writes to a client that stays connected are *not* fair: it may
stop reading for ever. `SettingsProjection` works on a bounded number of messages, and
the host gives each visible message its turn (strong fairness of `Deliver`). Redis
drops entries when their time to live has passed (`Expire` of `TaskPages` and `SettingsProjection`):
without it a stale entry stays for ever. The browser's
intervals keep firing, and a request is answered or fails (`CommandOutbox`, `TaskPages`). The lock-free loop needs
nothing more than weak fairness: a failed swap means that another request succeeded.

## Proofs

| theorem | states | inductive invariant |
|---|---|---|
| `CommandProcessing_proofs!TypeCorrect` | `Spec => []TypeOK` | with the shape of what handlers build |
| `CommandProcessing_proofs!EventsStoredOnce` | `Timely => (Spec => []NoDuplicateEvents)` | `OnceInv`, see below |
| `CommandProcessing_proofs!HandlersSafe` | `Timely => (Spec => []HandlerInv)` | `FullInv`: `HandlerInv` with the types and `ReadMeansNone`, see below |
| `CommandProcessing_proofs!HandlersImplementEffects` | `Timely => (Spec => Effects!Spec)` | the same |
| `CommandProcessing_proofs!NoOrphans` | `Spec => []NoOrphanEvents` | `OrphanInv`: what a handler is about to add is of a task whose creation is stored |
| `CommandIntake_proofs!StampsAreUnique`, `!StampsIncrease` | uniqueness and order of stamps | `RangeInv`: `lastTimestamp` is behind no finished range, and no loaded value is ahead of it |
| `CommandIntake_proofs!GeneratedKeysAreUnique` | `StampSpec => []GeneratedKeysUnique` | the same, with what `FormatInt` computes, see below |
| `CommandIntake_proofs!NilIsComplete` | `Spec => []NilMeansAllPublished` | `EnqueueInv`: every payload taken is published, in hand, or an error is recorded |
| `CommandIntake_proofs!KeepsContract` | `Spec => EnqueueContract` | the same |
| `CommandSender_proofs!OneHolderEach` | `Spec => []SenderInv` | `HandsInv`: the three places a batch may be in exclude one another, and a request that is not handed over has no result |
| `CommandSender_proofs!PoolKeepsContract` | `Spec => OneCallPerBatch` | the same: who publishes or answers for a batch holds it, so its call is open |
| `TaskProjection_proofs!RowsOnlyMoveForward`, `!FieldsOnlyMoveForward` | `RowsMoveForward`, `FieldsMoveForward` | `ProjectionInv` |
| `TaskProjection_proofs!ProjectionIsConsistent` | `Spec => []ProjectionInv` | itself: what is about to be written is newer than the row that was read, and an unchanged ETag means an unchanged row |
| `TaskProjection_proofs!ShownEventsAreAnnounced` | `Spec => []ShownIsAnnounced` | itself, with the types: a write leads to the refresh, the refresh to the publication, and what leaves this way leaves a fault on record (`AnnounceStep`) |
| `SettingsProjection_proofs!SettingsAreConsistent` | `Spec => []SettingsInv` | itself: a row is made only where none was seen, and merged only with an event newer than what was seen |
| `SettingsProjection_proofs!SettingsOnlyMoveForward` | `Spec => SettingsMoveForward` | the same: when the row is still the one that was seen, the write is newer |
| `TaskPages_proofs!PagesAreCut` | `Spec => []PagesInv` | itself, see below |
| `TaskPages_proofs!NoTaskIsCollectedTwice`, `!NoTaskIsSkipped` | `[]NoTaskTwice`, `[]NoTaskSkipped` | the same |
| `StreamService_proofs!NoPanic` | `Spec => []NeverSendOnClosed` | `StreamInv`: a broadcast only visits connected clients, and a connected client is past `addClient` and before `removeClient` |
| `StreamService_proofs!StreamTypeCorrect` | `Spec => []TypeOK` | with `StreamInv` and `HandWhileWriting`: a handler has a message in hand exactly while it writes it |
| `StreamService_proofs!DeliveredInOrder` | `Spec => []InOrder` | `OrderInv`, see below |
| `CommandIntake_proofs!OutboxLosesNothing`, `!PostsMatchQueue` | `[]NothingLost`, `[]OutboxInv` | `OutboxInv`: a post of the effect in force carries the whole queue, and what a post answered with 202 carried was taken; so only what was taken is cleared |
| `ApiServer_proofs!ConfigurationIsUsable` | `Spec => []ConfigWithinLimits` | itself: the configuration is set once; the work is in the lemmas on `lookupPositiveInt`, the int32 conversion and the limits, for every environment and number of processors |
| `ApiServer_proofs!RunsAreLoggedOnce` | `Spec => []LoggedOnce` | `Accounted`, with lemmas on how many places of a queue hold a record after `Append` and `Tail` |
| `ApiServer_proofs!RetriesBridgeSkew` | `Spec => []SkewIsBridged` | `BridgeInv`, see below |

*Why `NoDuplicateEvents` needs an invariant.* That the table has no duplicate says
nothing about what a handler is going to add. The invariant has three layers: where a handler
may stand (`ControlOK`); who owns a key (`OwnsRow`: a handler that was told Started finds its own
fresh Processing row until it settles it; `LinkedStale`: only a stale row is about to be
reclaimed; `SweepCompleted`: what the cleaner has queried is still Completed), from which at
most one handler per key is in the guarded section (`OneOwner`); and what that handler is going to
add is new for the key (`FreshIsNew`). The middle layer holds only when live handlers keep
within the lease, when the answer to `MarkProcessingSucceeded` is not lost, since
otherwise a handler deletes a row the cleaner has already queried, and when the answer to
`MarkProcessingFailed` is not lost, since otherwise the repeated delete may hit another delivery's
reservation: that is `Timely`. `commands_slow` shows what happens without its first part, the table of
refuted properties what happens without the last.

*From once to reached.* `HandlerInv` adds that what is stored for a key and not yet flagged is
what the key's owner still has to send (`NothingForgotten`), and that a row about to be flagged
was sent (`MarkAfterSend`). So a flag means sent, a handler that reaches
`MarkProcessingSucceeded` has nothing left that is not flagged, and a Completed key has all of its events with
the read side. `FullInv`, which is inductive, has the types and `ReadMeansNone` besides: a handler that goes on
to load the aggregate has no event under its key. That a handler's step takes nothing from
another's list is the lemma `OthersRemember`; that nobody adds an event to a key somebody else is working
on is `OneOwner` once more. With `FullInv` each step of the command side maps to a step of `CommandEffects` or a stutter: adding
an event (`StoreEmits`), sending one (`SendPublishes`), marking a key Completed (`SucceedSettles`), and any other
write or removal of its row (`WriteForgets`). `NoOrphans` uses none of this and does not need `Timely`: a
task's creation is never taken back, so what was read of it holds whenever the event is added.

*Why a message cannot be overtaken.* A message is in the subscription, in the broadcast, in the client's
channel, in its handler's hand and then with the client. `OrderInv` says that each of these
holds newer messages of a Redis channel than the next, and that a broadcast that has yet to visit a
client is newer than all that the client was sent. Who is still to be visited is `todo`, which
shrinks while the read lock is held; that no client is visited twice is what makes the
order strict.

*Why two retries are enough.* A call can only be refused for a token that is ahead of the API. Such a
token is new, so it lasts (`Lasts`), so that every later attempt, of this call and of the
others, is made with the same one. Its lead is at most the gap when it was issued, and less by the time waited
since: `LaterAttempt` and `Refused` say so by the number of answers, 0, 1 and 4 seconds, and
after the second delay a gap of 4 seconds is used up. The argument needs `TokenAssumption`: seen from
the client's clock a new token outlasts the time considered, and a token held from
earlier is active or was issued before. A token renewed between two attempts would start the wait anew.

*Why pages fit together.* A page, wherever it comes from, is one thing (`IsPage`): rows in
ascending order from the token it was asked for, all before the token it answers with, and every
task that exists all along is on it or behind that token. `TableAnswers` shows this of a query and
`CacheAnswers` of a look-up in the entry. The query is about the rank of a row among the rows there
are (`Before`, the number of rows before it): `BeforeOnto` finds the row of each rank by
counting, `RowsList` that the rows of a page are listed in order. The look-up needs to know of the
entry that page `i` is the `i`-th stretch of `TasksPerPage` tasks and ends where the `i`-th token
says: `CutsIntoPages`, which a refresh keeps up page by page (`CutsExtend`) because it goes on only behind a
full page, and which does not depend on the table, so that rows may come and change
while the entry is listed or lies in Redis. A walk then only needs `WalkUpToToken`: it has nothing
behind its token and all that is before it, and each page (`IsPage`) takes it further. A repeated
token, which `fetchRemote` gives up on, cannot come from a page: tokens only grow.

*What base 36 does.* The library's induction theorems take an operator as parameter, which
the provers cannot instantiate, but its well-founded-order theorems do not: `LeastNatural`
gets from them that a set of numbers has a least element, and each claim about `FormatInt` (that the
equation has a solution, `FormatExists`, and one only, `FormatUnique`, so that `FormatInt` satisfies
it; that its values are digits, `FormatType`; that it is injective, `FormatInjective`) is refuted at
the least number where it fails, by the number divided by 36.

All theorems hold for every value of the constants that satisfies the named `ASSUME`s of
its module, any number of messages, handlers, clients, workers and faults among them. TLC has
checked the inductive invariants on the constants of the components' runs as well; those that
a run lists (`HandlerInv`, `SenderInv`, `ProjectionInv`, `SettingsInv`, `PagesInv`, `OutboxInv`) are checked there
still. Where a type invariant is proved (`CommandProcessing`, and inside the inductive invariants of `TimestampRange`,
`EnqueueCommands` and `ApiServer`) no run repeats it.

Every safety property that a passing run checks is proved. Only model-checked is liveness, which is out of
the prover's reach: `EveryMessageSettles`, `CommandsTakeEffect`, `StoredEventsReachReadSide`, `AlwaysReturns`,
`AcceptedIsWorkedOff`, `EveryRequestStamped`, `OutboxDrains`, `SlowClientsBlockNobody`,
`LeaversAreForgotten`, `SettingsCatchUp`, `BoardCatchesUp`.

## What is not modelled

* Of the client's task board: the user's own changes, which the reducer shows at once,
  `nextOrder`, and `modules/stream/stream.ts`, which keeps the connection: its one effect on the rest is
  which updates arrive, and losing one is a fault of `TaskPages`.
* Of authentication: signatures, key sets and claims that do not depend on time (libraries, a
  verdict in `ApiServer`), and stream-service's copy of the time checks (a choice in `StreamService`).
* Of the log of `GET /tasks`: the fields of a record and the trace spans. `initTaskLogQueue` runs with
  the first record; in the model it runs at start-up.
* Of the Redis entry of tasks: `lastUpdatedAt` and `cachedAt`, which nobody reads. An empty page of the
  table that comes with a token.
* storage-init, deployment, the user interface, `healthz`: no state of the program's own.
* Int64 overflow of timestamps (UnixNano reaches it in 2262).
* `ShutdownCommandSender`, which only tests call.

## Plan

Done, in this order: `CommandProcessing` with `CommandEffects`; `TimestampRange`;
`EnqueueContract`, `EnqueueCommands`, `CommandSender`; `TaskProjection`; `SettingsProjection`;
`StreamService`; `CommandOutbox`; `TaskPages`; `ApiConfig` and `ApiServer`.

The safety properties of all of them are proved. Left for later:

1. A composition of `CommandProcessing` and `TaskProjection` over the Domain Events Queue.
2. `modules/stream/stream.ts`: does the shared connection survive listeners that come and go
   while it is being opened?
