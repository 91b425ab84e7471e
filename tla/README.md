# omnimap-sync: TLA+ specifications, model checking and proofs

The service keeps clients of a block editor up to date. A backend publishes messages to a RabbitMQ
queue; every instance of the service consumes it, writes what it needs to Redis and pushes to the
WebSockets open with it. Clients that were away ask for what they missed. The code is `src/app/`.

## 1. The system

| Part | State it keeps | Operations | Modelled in |
|---|---|---|---|
| Message handlers, `rabbitmq_consumer.py` | none of their own; locals across awaits | `update_block(s)`, `update_access`, `subscribe`, `unsubscribe`, `sandbox_mode_changed` | `SyncStore` |
| | | chat, notification and access-request events | `Messaging` |
| Redis | `block:{b}`, `subscriber:{u}:blocks`, `sync:subver:{u}`, `sync:seq`, `sync:changelog`, `blockdata:{b}`, `sandbox:{b}`, `user_online:{u}` | commands, MULTI pipelines, TTLs | `SyncStore`, `ConnectionManager` |
| Cursor synchronisation, `websockets.py` `handle_get_updates_v2` | none; the client keeps a cursor and a subscription version | up to six round trips per request | `CursorSync` |
| Time-based synchronisation, `handle_get_updates` | none; the client keeps `updated_at` of each block | subscriptions, rows in portions, new rows | `TimeSync` |
| Connection registry, `connection_manager.py` | `active_connections`, `user_locks`, `anon_semaphore` | `connect`, `disconnect`, sends, online counter | `ConnectionManager` |
| Sandbox cache, `connection_manager.py` | `sandbox:{b}` with a TTL | update, lookup, filter | `SyncStore` |
| | the backend's own modes | HTTP fallback and the write of its answer | `SandboxRouting` |
| WebSocket endpoint, `websockets.py` | one task per socket | authenticate, receive loop, disconnect | `ConnectionManager`, and one request at a time in the two synchronisations |
| Delivery, `handle_message`, `consume`, `start_consumer`, `main.py` | connections, unacknowledged messages, the consumer task | deliver, ack, reject, set up, reconnect, shut down | `Service` |
| Redis client, `redis_client.py` | one shared client and its lock | get, close | `Service` |
| Conversions, `utils.py` | none | `prepare_block_data_for_redis`, `parse_redis_block_data` | `BlockData` |
| `models.py`, `auth.py`, `metrics.py`, `config.py` | none that is read back | validation, one HTTP call, counters, settings | fields and settings only |

How they interact. A message starts an asyncio task (`handle_message`). The task awaits Redis between
its reads and its writes and spawns sends that it does not await. Nothing orders two messages: the
consumer sets no prefetch limit, `queue.consume` starts a task per message and several instances share
the queue. The synchronisation handlers read, in separate round trips, what these tasks write. The
registry is walked by send tasks while endpoint tasks enter and leave it. All of them ask one module for
the Redis client, which startup and shutdown open and close.

What is hard, and what makes each part correct:

* **Handlers and store.** Read-then-write across awaits, portions, swallowed errors, redelivery. The two
  subscription indexes must agree and move together; a number must not be given to two entries; an access
  change must reach the version counter; whoever loses a block must be told; every message must be settled.
* **Sandbox routing.** A mode is published, handled, cached, forgotten, fetched and cached again, each at
  its own time. An update inside a private sandbox must stay inside, and the cache must not keep an old mode.
* **Cursor synchronisation.** Numbers are taken before entries land and trims run in between. A client
  whose cursor and version are current must hold what Redis holds.
* **Time-based synchronisation.** The rows are read after the subscriptions; times are texts compared by
  whole seconds. An answer must not show a block that was not the client's, and the client must converge.
* **Registry and online status.** Counting is done after registering and in two round trips. A user is
  online exactly while connected; sockets are removed once; locks exist while needed.
* **Events.** Sockets come, leave and break while an event is passed on. Everybody it is for is tried once.
* **Service.** Every message is acknowledged or rejected once, there is one Redis client, and a shutdown
  that finds the consumer anywhere leaves nothing open.

`PROJECT.json` lists each hazard at its line with the properties that cover it.

## 2. Modules

| Module | What it is |
|---|---|
| `Registry` | the abstract specification: who can pull a block, who is notified of it, to whom its deletion was announced, with a grant, a revocation, an announcement or a deletion as single steps |
| `SyncStore` | Redis and the six handlers that write it, with lost commands, lost replies, TTL expiry and restarts; implements `Registry` |
| `DeletionNotices` | extends it with the tasks that send a deletion's notices |
| `SandboxRouting` | extends `SyncStore` with the backend's own modes and the HTTP fallback |
| `CursorSync` | extends `SyncStore` with clients, the v2 handler round trip by round trip, and the client's own copy |
| `BlockData` | what a field becomes in a Redis hash and back, and what `int(float())` makes of it |
| `TimeSync` | extends `SyncStore` and `BlockData` with clients and the v1 handler |
| `ConnectionManager` | the registry, the online counter, endpoints, pushes and the anonymous send slots |
| `Messaging` | extends it with the events that are only passed on and the fan-out of an update |
| `Service` | one process: consumer task, handler tasks, Redis client, startup and shutdown |
| `MC...` | the messages, sockets and clients of each run |
| `...Proofs` | theorems about the module of that name, checked by TLAPS; `SyncRegistryProofs` has the refinement of `Registry` and what is proved of `DeletionNotices`, and `TimeSyncProofs` also what is proved of `BlockData` |

An operator named `XFault`, before `X`, is a wrong version of `X` that a plausible slip in the code would
give. No specification uses it: it is what `PROJECT.json` puts in place of `X` to see the property fail.

### SyncStore

One action is one Redis round trip with the straight-line code up to the next await. `pc[m]` says which
round trip message `m`'s handler does next; `todo`, `chunk`, `seen` and `seqEnd` are its locals
(`block_uuids` still to do, the current portion, subscribers read and not yet used, `seq_end`). A call
that returns before its first await takes no step.

| Action | Code |
|---|---|
| `Save`, `Incr`, `AppendEntries` | the row, INCRBY, MULTI of ZADDs and the trim: two round trips, lines 70 and 88 |
| `CacheSandbox` | `update_sandbox_cache`, whose errors are swallowed |
| `ReadSubscribers`, `Lookup`, `LookupFails`, `SendToUser` | who is notified, and the private-sandbox filter |
| `WriteIndexes`, `BumpVersions`, `Notify` | `action_update_access`, `action_subscribe` |
| `ReadMembers`, `DeleteBlocks` | one portion of `action_unsubscribe` |
| `CommandLost`, `Replied` | Redis did not run the command; ran it and the reply was lost; the except clause follows |
| `Crash` | a restart: what is not acknowledged is queued again, what Redis holds stays |

Abstractions, and why they lose nothing the properties see:

* A row is one `stamp`: the fields a client would see change with it. HSET is taken to write the whole
  record, as the backend sends it whole.
* Blocks come as lists; portions follow the list. The order of a list is left open, so every portion of
  the right size is a choice.
* Redis values are strings and user ids are cast by `str`: ids are atoms here.
* A message is valid (the models have accepted it). A rejected message changes no state.
* Every pipeline of `rabbitmq_consumer.py` is a MULTI (redis-py's default where the code does not say) and
  so one step. The four that are not, in `websockets.py` at 265, 316, 515 and 536, are modelled in
  `CursorSync` and `TimeSync` one command per step.
* The list of `update_access` is its blocks followed by its start blocks (403): a block in both is written
  twice, perhaps in two portions (`AccessPortions`).
* A failing `get_redis_pool` is the first command lost. The backend fallback for sandbox information is
  off here, as in the default configuration; `SandboxRouting` turns it on.
* `handed` records what is handed to a send. `send_message_to_subscribers` only creates a task for it (line
  202 of `connection_manager.py`), so nothing is said of when it is sent; `DeletionNotices` follows those
  tasks for deletions. Whether the socket is open is `ConnectionManager`'s matter.
* The history variable `handed`, and the bounds `failures` and `crashes`, are not in the code.
* A message delivered while its earlier handler still runs (a lost broker connection) is two equal
  messages with different ids.

### DeletionNotices

`due` holds the notices whose task has been created and has not run. `SendNotice` runs one: before the
handler's removal, after it, or never, if the process dies first (`missed`). Reads and removals are
`SyncStore`'s own steps, recognised by their labels (`Reads`, `Deletes`); `told` and `removed` are history
variables.

### CursorSync

`rpc[u]` is where `handle_get_updates_v2` is for client `u`; `rver`, `rcur`, `revents`, `rdata` are its
locals, `rleft` the commands left of its current pipeline, which run one by one with the handlers' in
between. The client is external: it keeps `cursor`, `clientVer` and `view`, applies what it is given, and
when told `full_resync_required` reloads every block it is subscribed to. It does not learn from pushes:
the property is what synchronisation alone guarantees. `lost`, `gone` and `unbumped` are history variables
that name the ways in which an event or a version bump can be missed (section 3). The handler answers only
with v2 on (`websockets.py:143`): `EnabledAssumption`. `has_more` only tells the client to ask again, and
it asks again in any case. Undecodable entries are left out.

### ConnectionManager

The critical sections under `user_lock` and `global_lock` contain no await, so no lock is ever waited
for; an action is the code between two awaits. `closing[t]` is where a call of `disconnect` is, by task
and socket: the same socket can be disconnected by its endpoint and by failed pushes at once. `locks` is
the key set of `user_locks`. `removals`, `outrun` and `wiped` are history variables. Anonymous clients
share one user, are not counted and queue for send slots. `Owner`, `Socket` and `Push` bound the run. A
finite set of sockets is used up, hence `CHECK_DEADLOCK FALSE` there and in `Messaging`.

### SandboxRouting

`truth[b]` is the backend's mode of `b`. It changes in `Publish`, when the backend publishes a message
that carries a mode; the message is handled later, or after a younger one. `update_block` reads the cache
(`LookupCached`, `LookupMisses`), asks the backend (`Fetch`) and caches the answer (`StoreFetched`), three
waits during which other handlers and `Expire` run. A batch never asks the backend
(`action_update_blocks` reads `sandbox:` keys itself), and a sandbox mode change is not an update. Restarts
are left out: a redelivered message repeats the same steps. `misled` and `overtaken` are history variables.

### TimeSync and BlockData

A stamp of `SyncStore` stands for a version of a block's row; `UpdatedAt` gives its `updated_at` field.
`BlockData` tells values apart by what the two conversions and `int(float())` do with them: null, a
boolean, JSON, a number, and texts that are one of the three words, start with a bracket, are digits, or
are anything else. Numbers are in fractions of a second, so that two different times can be one second.
`ServerTime` is what the server makes of the stored text, `ClientTime` what the client has of it. What it
sends is that less its `margin`: a second, as the frontend does (`FRONTEND_TASKS.md:10`), or nothing, as
that document asks (line 32). The `time_diff > 1` the document says the server has (line 22) is not in the
code, which compares at line 282 with `>`: reading it settles that sentence, and no run is spent on it. A
pipeline's rows are read one by one; `rleft` has those to come. Their portions make no difference then.
The client is external, as in `CursorSync`. In the code an answer's updates, new blocks and deletions are
three lists; here they are one function, and `AnswersOnlySubscribed` says that they do not overlap.

### Messaging

A push of `ConnectionManager` is an event on its way to one user. `MayStart` is the order of the two
awaits of a direct message. `tried` counts the sends of an event to a socket, `present` keeps the sockets
registered since its handler began: both are history variables. `send_to_user` differs from
`send_personal_message` in its result, which is only logged, and in taking no send slot, which matters for
anonymous users alone: no chat partner is anonymous here. A list of members has no repetitions here (with
one, the code sends twice).

### Service

`at` is where each handler task and the main task is, `consumer` where the consumer task is, `redisClient`
the global with its lock (`creating` and `closing` are states in which the lock is held). Handlers of
`SyncStore` swallow their own errors; what reaches the except clause of `handle_message` is an error of
`get_redis_pool`. Which handler tasks end with a lost or closed connection is aio_pika's affair and is
left open (`Abandon` takes any subset). A setup that fails after the connection was made leaves it behind;
when only the last answer was lost, the broker delivers to it. The close of the connection at the shutdown
may raise, which ends the consumer task and is logged (`main.py:57`), and so may the close of the Redis
client, whose reference goes in any case. A message of an unknown action goes to the ack like a valid one;
one that the models refuse does as well, so `"unknown"` stands for both. `stuck`, `leaked`, `late`, `ran`
and `raised` are history variables. `MaxConnections`, `MaxDeliveries`, `MaxFailures` and `MaxLosses` bound
the run, and a process that is down or failed to start has no further step, hence `CHECK_DEADLOCK FALSE`.

## 3. What the runs check

Passing runs:

| Run | States | Shows |
|---|---|---|
| `store_access` | 96 k | two users, two blocks, portions of one, v2 off, a restart anywhere: a grant that names a block twice, a deny and a deletion of two blocks interleave. `PushTargetsCanPull`: whoever a push reaches can also pull the block. `ImplementsRegistry`: each step is one of `Registry`'s or none. `LosersNoticed`: who loses a block to a deletion has been told, is about to be, or was until the process died. `LosersTold`, `EventuallySettled` |
| `routing` | 308 k | v2 off, the fallback on. A container becomes private, blocks in it are updated by lookup, by context and in a batch, and an update of the container itself ends its mode; the cache may expire and one command or request fails. `PrivateStaysInside`, `CacheFollowsBackend` |
| `sync_updates` | 103 k | a batch of three, one block foreign to the client, and an update race for numbers, room for two entries, pages of two, one failure on either side. `SeqsUnique`, `AllocationsDisjoint`, `ChangelogIsNewest`: the retained entries are the newest, whatever order they land in. `MissesOnlyLost`, `CursorMonotone`, `CatchesUp`, and the two type invariants |
| `sync_access` | 1.45 M | a subscription and a deletion behind the client's back, one failure and one restart. `UnawareOnlyIfUnbumped`: a client with the current version knows its subscriptions, or a handler still owes it a bump, or that failure or restart dropped it. `CursorMonotone` |
| `conn_push` | 668 k | two pushes, an anonymous socket, one slot, one failing command, one expiry. `RemovedOnce`, `ConnectedHasLock`, `OvercountedOnlyIfOutrun`, `OnlineUnlessWiped`, `EventuallyQuiet` |
| `messages` | 162 k | a direct message to a user with two sockets, one of which connects meanwhile, and a message to a group of two, one its sender. `AudienceTriedOnce`, `EchoAfterDelivery` |
| `time_sync` | 126 k | two blocks, a client with and without a margin; an update within the second of the row it replaces, a row without a time, a deny, one failure. `AnswersOnlySubscribed`, `ResentForMargin`: a row the client holds is sent again only if it takes a second off its times, whatever the conversions did to them; with the margin every held row with a time is. `EventuallyAgrees` |
| `service` | 218 k | two connections, a valid and an undecodable message, three deliveries each, one failing call, one lost connection, a shutdown at any time. `OneClient`, `SettledAsHandled`, `NothingLeftOpen`, `EventuallySettled` |

Runs that TLC refutes. Each checks a sentence of the code's own documentation (the finding quotes it):

| Run | The code does |
|---|---|
| `sync_gap` | numbers land out of order; a reader's cursor passes one that has not landed; that update is never returned |
| `store_deny_order` | a grant working in portions re-adds what a later deny removed |
| `notice_order` | a deletion's notices are a task of their own: the removal may run before the first is sent |
| `service_poison` | a body that is JSON but no object ends the handler before its try block: the message stays unsettled |

The passing properties name what the code gets wrong, so that everything else is still asserted:

* `lost` (in `MissesOnlyLost`) holds an event that landed at a number a reader's cursor had passed
  (`Overtaken`, the subject of `sync_gap`), that was trimmed between the retention check and the page read
  (`TrimmedUnder`), or that a swallowed error kept out of the changelog (`Unlogged`: what the handler
  still had to log, over all its redeliveries, before the failure and not after it). A resync empties it
  for the client.
* `gone` (in `MissesOnlyLost`) holds a block whose newest event is a deletion. A deletion takes its number
  after its transaction: an update that writes the row again in between gets a lower one, and the reader
  is told that a block Redis still has is deleted. Only a row that exists (`blockData[b] # 0`) is excused.
  It takes a subscription, a deletion and an update of one block to get there, which is more than the
  runs' messages; that nothing else is missed then is what `MissesAreKnown` (section 4) shows.
* `unbumped` (in `UnawareOnlyIfUnbumped`) holds a client whose version bump the step that failed, or the
  restart, has just dropped (`DropsBump`): after a restart between a deletion and its bump, the
  redelivered message finds nobody to bump. Again a resync clears it.
* `outrun` (in `OvercountedOnlyIfOutrun`) holds a connection that a failed push counted off before its
  endpoint had counted it: it registers at line 97 and counts at line 102.
* `wiped` (in `OnlineUnlessWiped`) holds a user one of whose connections was counted between the DECR and
  the DEL of another: the key is deleted, and the user is offline while connected.
* `misled` (in `PrivateStaysInside`) holds an update whose handler went by something else than the
  backend's mode: an outdated cache, also a forgotten container where no backend is asked (`Mistakes`), a
  batch's context that names another container (`LeavesOut`), a lookup that failed and was taken for "no
  sandbox" (`LookupFailed`), a context that is not the backend's, or a mode that changed between the
  lookup and the sends (`Outdated`).
* `overtaken` (in `CacheFollowsBackend`) holds a block whose cache was last written with an outdated mode:
  a mode change handled after a younger one, an answer of the backend stored after the change that
  outdated it, a write that failed, or one that was given up because the update's row could not be saved
  (line 138 returns before line 141). The next write that is current clears it.
* `Indistinguishable` (in `EventuallyAgrees`): the row is newer, but not by a whole second or without a
  usable time; or the client holds a row that an older one, written later, replaced.
* `Registry!Delete` may leave some of a deleted block's pullers subscribed: a user who is subscribed
  between the deletion's read and its transaction keeps the block in `subscriber:{user}:blocks`. It may
  not leave any who are notified, nor unsubscribe one to whom it was not announced.
* `missed` (in `LosersNoticed` and `LosersTold`) holds a notice whose task died with the process: the
  redelivered deletion finds nobody to tell.
* `leaked` and `late` (in `NothingLeftOpen`) hold a connection lost sight of by a setup that failed or was
  cancelled, or whose close raised, and a Redis client that a handler still running created after the
  shutdown had closed it; `stuck` (also in `OneClient`) that the close of the client raised. No other
  failure excuses anything.

One known behaviour has no property of its own: a push to a user who has left makes a lock that nothing
deletes; `ConnectedHasLock` is only about locks that must exist.

Bounds. Interference needs two handlers and one reader, or two sockets of one user for a counter that
passes through 0 and back. Portions of one block (`DeletionNotices_Access`) and pages of two entries for a
batch of three make every loop go round; a changelog of two entries overflows with four events. One loss
or one restart is enough for each except clause and each redelivery: the handlers keep nothing between
messages. `DeletionNotices_Access` has restarts and no losses, with v2 off to keep its liveness within
reach (a portion then goes from its transaction to the next one), `CursorSync_Updates` losses and no
restarts, and `CursorSync_Access`, where a deletion goes through all its steps with v2 on, both. In
`routing` two changes of one container's mode let an older answer meet a younger mode, and three kinds of
update meet them. In `messages` two failing sends on one user's sockets and a late socket are enough for
each pair of tasks that share a socket. In `service` one failing call falls on any of setup, client
creation, ping or close, and three deliveries allow for a loss and a close after the first. Messages of an
unknown action go from their start to the ack and add no interleaving: they are in `Service_Poison` only.
The theorems below carry every safety property to every size.

Fairness. `WF(Step(m))` for each message: asyncio resumes a task whose reply is in, the broker delivers
what is queued; `CommandLost` and `Crash` are not fair and are bounded. In `DeletionNotices` also
`WF(SendNotice(u, b))`: the event loop runs a task that is ready. `WF(SyncStep(u))` and, in `TimeSync`,
`WF(ClientStep(u))`: the client keeps asking (an assumption on the client) and the server answers.
`WF(TaskStep)`: Redis and sockets answer or fail; nobody is assumed to connect or leave. In `Service` one
`WF` for each task (every handler, the consumer, the main task) and one for the broker, none for a loss or
a shutdown. Weak fairness is enough because a task's step, once enabled, stays enabled until it is taken
or the process dies; a task waiting for the Redis client's lock is the exception, but the lock is released
for good once a client exists, and creations that fail are bounded.

## 4. What is proved

Every safety property that a passing run checks is a theorem, for every value of the constants that
satisfies the assumptions of its module and with any number of losses, restarts and expiries, since those
bounds are constants.

| Module | Theorem | States |
|---|---|---|
| `SyncStoreProofs` | `TypeCorrect` | `Spec => []TypeOK` |
| | `PushersCanPull` | `Spec => []PushTargetsCanPull` |
| | `NumbersUnique` | `Spec => []SeqsUnique` |
| | `AllocationsApart` | `Spec => []AllocationsDisjoint` |
| | `NewestRetained` | `Spec => []ChangelogIsNewest` |
| `SyncRegistryProofs` | `LosersAreNoticed` | `NoticesSpec => []LosersNoticed` |
| | `RegistryImplemented` | `Spec => ImplementsRegistry` |
| `CursorSyncProofs` | `SyncTypeCorrect` | `SyncSpec => []SyncTypeOK` |
| | `CursorsAdvance` | `SyncSpec => CursorMonotone` |
| | `UnawareIsOwed` | `SyncSpec => []UnawareOnlyIfUnbumped` |
| | `MissesAreKnown` | `SyncSpec => []MissesOnlyLost` |
| `TimeSyncProofs` | `FieldsComeBack` | `FieldsReadBack` |
| | `AnswersAreSubscribed` | `TimeSpec => []AnswersOnlySubscribed` |
| | `ResentOnlyForMargin` | `TimeSpec => []ResentForMargin` |
| `SandboxRoutingProofs` | `CacheFollows` | `RoutingSpec => []CacheFollowsBackend` |
| | `UpdatesStay` | `RoutingSpec => PrivateStaysInside` |
| `ConnectionManagerProofs` | `TypeCorrect` | `Spec => []TypeOK` |
| | `RemovedByOne` | `Spec => []RemovedOnce` |
| | `ConnectedKeepLock` | `Spec => []ConnectedHasLock` |
| | `NotOvercounted` | `Spec => []OvercountedOnlyIfOutrun` |
| | `ConnectedIsOnline` | `Spec => []OnlineUnlessWiped` |
| `MessagingProofs` | `AudienceServed` | `MessagingSpec => []AudienceTriedOnce` |
| | `EchoWaits` | `MessagingSpec => []EchoAfterDelivery` |
| `ServiceProofs` | `ServiceTypeCorrect` | `Spec => []ServiceTypeOK` |
| | `ClientSingleton` | `Spec => []OneClient` |
| | `SettledRight` | `Spec => []SettledAsHandled` |
| | `ShutdownCloses` | `Spec => []NothingLeftOpen` |

The assumptions say what the inputs are: messages are what the models accept, settings are non-negative,
initial subscriptions are pairs of users and blocks, absent values are not ids, `updated_at` texts are
`BlockData`'s, the sockets open at the start (`Early`) are finitely many, v2 is on for `CursorSync`. No
theorem assumes fairness; the specifications with fairness imply the ones named here.

**SyncStore.** The inductive invariant is `Inv == TypeOK /\ HandlerInv`. Types alone are not inductive: that
`WriteIndexes` keeps `blockSubscribers` a set of users needs the message to have a user, which only the
access handlers' messages do, so a handler must be known to be at one of its own steps (`LabelInv`);
that `CacheSandbox` may read `m.data[b]` needs `todo` within the message's blocks (`LocalInv`); that
`AppendEntries` produces natural numbers needs `seqEnd` at least the number of events and at most the
counter (`AllocationInv`).

* Each action has a lemma `...Step` that it preserves `Inv`. Most go through `PcStep`, what any move to an
  ordinary label preserves, and `KeepLocals` and `KeepAllocations`; routing actions through
  `DispatchStep`.
* `PushTargetsCanPull` is inductive over `Inv`: only `WriteIndexes` and `DeleteBlocks` write the indexes
  (`IndexWriters`). A deletion removes a user's block only if it has read it for the portion whose push
  index it empties, the last conjunct of `LocalInv`.
* `SeqsUnique` needs `AllocationsDisjoint`, and together they are inductive: INCRBY gives out numbers
  above every earlier one (`AllocatedCounted`), entries are added under the handler's own numbers, and
  nothing else touches either (`NumberWriters`).
* `ChangelogIsNewest` speaks of quiet states only. `RetentionInv` says what holds on the way there: a
  number given out is in the log, still in a handler's hands, or outrun by `CHANGELOG_MAX_LEN` entries
  above it, and no entry is outrun. A trim removes only what is outrun and leaves what outran it
  (`TrimAccounts`): of the entries outrun the highest is followed by enough that stay. That a set of
  numbers has a least and a greatest member is the library's well-foundedness of the naturals, used as "no
  least counterexample", which needs no operator parameter.
* The two theorems of `SyncRegistryProofs` need `Announced`: what a deletion is about to remove it has
  announced. `ReadMembers` is the only way to the label "delete" (`OnlyMembersDelete`), it announces what
  it reads (`MembersAnnounced`), and no other handler touches either local (`OthersUntouched`). The
  removal then meets `Registry!Delete`'s condition; a MULTI of an access handler is a `Grant` or a
  `Revoke`, reading the members an `Announce`, and every other step a stutter. For `LosersAreNoticed`
  (`NoticesInv`) the pairs a deletion is about to remove are `told`, `due` or `missed` from the read that
  created their task on; a task's step moves a pair from `due` to `told`, a restart to `missed`.

**CursorSync.** `PositionInv` (no cursor is above the counter, the one about to be answered not below the
client's) gives `CursorMonotone`. `VersionInv` and `KnowsInv` say that a client whose version is the
counter's knows its subscriptions, because whoever changes them still owes a bump (`OwedUntilBumped`).
`MissesOnlyLost` rests on `FreshInv`: at every moment, for each block of a client that knows its
subscriptions, the client's copy is right, or the changelog has an event of the block above the client's
position (`Ahead`), or a handler still has to log one (`Pending`), or the retention check will send the
client to a resync (`MustReload`), or the miss is recorded in `lost` or `gone`. "Right" depends on where
the request is: after the page is read, it is about what the page says of the block (`Right`). `PageInv`
ties the page the server holds to the retained log, `GoneInv` the newest events to `gone`. In a caught-up
state all but the recorded cases are excluded. Proving it corrected the property: before, a mix of updates
and deletions of one block and an unsubscribe that failed only when it was redelivered were missed by
`lost`.

**TimeSync.** `RowsInv`: a request has rows of blocks it read as subscribed only. `ResentForMargin` needs
`StampInv`, that Redis holds known rows, and `SameTime`: the client's reading of a stored text, sent back,
is the server's, by cases on the text.
`FieldsComeBack` is by cases on the value, and for the second trip by `ParsedIsStable`, that what is
parsed is stored as the text it was parsed from.

**SandboxRouting.** Its handlers have two labels more than `SyncStore`'s, so the invariant is its own.
`InformedInv`: a handler that is not misled goes by the backend, in its context, in the answer it is about
to cache and in what it has left to send. `CacheInv`: a block whose cache disagrees with the backend is
`overtaken` or owed by a message that still has to cache its mode (`Owes`). A handler's step either
routes nothing (`Quiet`) or is one of those that look up and send (`Answers`), and both say what they
leave. Proving `CacheFollowsBackend` showed that an update which cannot save its row also drops the mode it
carries; that case is now recorded, and the run has such an update.

**ConnectionManager.** `RegistryInv` and `DisconnectInv`: a socket taken out never comes back, and one call
of `disconnect` at most waits for Redis on its behalf. The counter's bounds are two inequalities on
cardinalities: `CounterInv` from above (connections counted, and those to be counted off), `LowerInv`
from below (who joined without being counted off), the second with `PendingDelInv`, that a pending DEL
removes nothing that was counted unless that is recorded in `wiped`.

**Messaging.** Over the registry's invariant: only pushes to a target are made and a socket is queued or
under way in its own user's push (`PushInv`), it is tried when it leaves the queue (`TriedInv`), one that stayed
is registered and queued or tried (`PresentInv`), and once the echo is pushed nothing of the delivery is
left (`EchoInv`). `AudienceIsTargets` shows that the code's targets are the audience its comments name.

**Service.** `ClientInv` counts open clients against failed closes; `BrokerInv` counts a message's
deliveries against the connections gone, one for each return to the queue; `ConsumerInv` says that every
connection that is not closed is the consumer task's or `leaked`; `ShutdownInv` orders the shutdown.

Only model-checked: liveness (`EventuallySettled`, `LosersTold`, `EventuallyQuiet`, `CatchesUp`,
`EventuallyAgrees`), whose fairness and ENABLED are outside the prover, and the four refuted properties.
The symmetric converse of `PushTargetsCanPull` is false: a subscription between a deletion's read and its
transaction stays in the user's own index.

## 5. Not modelled, and the plan

Not worth a module: `metrics.py` (counters nobody reads back), `config.py` (its settings are CONSTANTS),
`auth.py` (one stateless HTTP call before the socket is registered), the token checks of
`websocket_endpoint` that precede `connect`, request parsing, the probes of `main.py`, and how pydantic
validates (a message is valid or rejected by its handler, which then changes nothing).

Not reached by the models: the order of two chat messages (nothing in the code orders them), an
`updated_at` of infinity (it ends the request as `Disconnect` does), undecodable changelog entries (they
need an empty block id), several processes of the service side by side (the store's handlers already
interleave as if each had its own).

What is left: nothing of the safety properties above is unproved. Worth adding are theorems about the
other modules' bookkeeping that no run asks for yet (that `sandbox` holds what some message or the backend
said, that a slot is never taken twice).
