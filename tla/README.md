# Triplit in TLA+

A verification development for the Triplit repository: what its client and
server promise each other when data is written offline, pushed, confirmed,
rejected, cleared and read meanwhile; how queries are subscribed, planned,
paged and kept up to date; how the connection under all
this is kept; and how a schema is changed beneath it. Paths below are relative to the
repository; `db` is `packages/db/src`, `client` is `packages/client/src`,
`server-core` is `packages/server-core/src`.

## The system

A Triplit client keeps two kinds of data in one key-value store: a **cache** of
entities that the server has confirmed, and an **outbox** of changes it has not.
Queries read the outbox laid over the cache. A sync engine pushes the outbox
over a WebSocket as `CHANGES` messages and receives query results as
`ENTITY_DATA`; the server runs the same database with per-entity timestamps.

| Component | State | Operations | Talks to |
|---|---|---|---|
| `EntityStoreWithOutbox` (`db/entity-store-with-outbox.ts`) | cache (`dataStore`), metadata, double buffer | `applyChanges` (local), `applyChangesWithTimestamp` (remote), `getEntity`, `getEntitiesInCollection` | called by `DBTransaction`, the query engine, the sync engine |
| `KVDoubleBuffer` (`db/double-buffer.ts`) | two write buffers, `activeBufferIndex` (memory only) | `lockAndSwitchBuffers`, `write`, `getChanges*`, `clear*` | the store above, the sync engine (`getLockedBuffer`, `getUnlockedBuffer`) |
| `DurableWriteBuffer` (`db/durable-write-buffer.ts`) | sets and deletes under a prefix of the key-value store | `write`, `getChanges`, `isEmpty`, `clear`, `clearChangesForEntity` | a key-value transaction |
| `EntityDataStore` (`db/entity-data-store.ts`) | entities in the key-value store | `applyChanges`, `getEntity`, scans | client cache and server store |
| `EntityMetadataStore`, `HybridLogicalClock` | timestamps and tombstones; the clock | last-writer-wins pruning; `current`, `next`, `update` | `ServerEntityStore`, client cache |
| `DB.transact`, `DBTransaction` | changes of one transaction | `insert`, `update`, `delete`, `fetch`, hooks, commit | store, IVM, `onCommit` listeners |
| `MemoryTransaction` and the storages (`db/kv-store`) | staged sets and deletes; B-tree, IndexedDB, SQLite, LMDB | `get`, `set`, `delete`, `scan`, `commit` | everything that persists |
| `IVM` (`db/ivm/ivm.ts`) | view graph, subscribed queries, its own in-memory double buffer, running lock | `subscribe`, `bufferChanges`, `updateViews`, `flushChangesToListeners` | `DB.updateQueryViews`, subscribers |
| `SyncEngine` (`client/sync-engine.ts`) | `syncInProgress`, `serverReady`, `currentSession`, `queries`, reconnect timer | `syncWrites`, `subscribe`, `connectQuery`, `disconnectQuery`, message, open and close handlers, clearing pending changes | the transport, the client database |
| `TriplitClient` (`client/client/triplit-client.ts`) | throttled `onCommit` listener, connection options | user API | database, sync engine |
| `SyncConnection` (`server-core/sync-connection.ts`) | `canSync`, connected queries, chunks, pending entity data | `start`, `dispatchCommand`, handlers of each message | server database, the client's socket |
| `Session`, `TriplitServer`, webhooks (`server-core`) | sessions, connections | HTTP routes, open a connection | server database |
| `DB.overrideSchema`, `createDB`, `diff-issues.ts`, the server's listener | the schema in use and the saved one, the compatibility list | compare, check data, update; `clear`; restart | database, `SyncConnection` |
| query engine, planner, permissions | compiled queries | evaluate, check, validate | database |
| worker client, UI bindings, CLI, console, server hosts | — | wrap the above | — |

**What is hard.** JavaScript runs one thread, but every handler is an `async`
function: at an `await` of a storage operation other tasks may run, and whether
they do depends on the storage (an in-memory store resolves in the same task,
cached IndexedDB reads at once but commits later, uncached IndexedDB and
expo-sqlite wait for both). So the interleavings a user gets are not those a test
over the memory store gets. Answers of the server (`CHANGES_ACK`, `ERROR`) carry
no identity of the push they answer: the client applies them to what the locked
buffer holds *then*. A lost connection leaves the fate of a push unknown, and it
is sent again. The outbox survives a restart of the process but the engine's
fields, and the index that says which buffer is locked, do not. And the data
themselves are subtle: a buffer holds, for one entity, a set, a delete or both, and
four pieces of code (buffer write, merge of two buffers, overlay for a scan,
overlay for a lookup) interpret the pair. Live queries are kept up to date from
the same changes a second time, by code that awaits between reading and storing
a result.

**What makes each part correct.**

* Outbox and push: no committed write is lost, the cache holds only confirmed
  data, at most one push is unanswered and the answer is about what is locked,
  the client reads its own writes, the server is never moved back, and every
  push ends and every write arrives.
* Buffers and overlay: for every sequence of operations a query shows what
  was written over what is pushed over what is confirmed; what reaches the
  server is what the client showed; the cache is a copy of the server's data.
* Query sync: after the results of a query are in, the client's cache holds
  them; no query waits for ever; a checkpoint never skips a change.
* Replica: two stores that saw the same timestamped changes agree; the clock
  grows.
* Views: no change is lost between the commit and the views, and a listener that
  stays subscribed comes to hold the current result.
* Connection: one open session at a time, what the status says is so, and it comes back.
* Reads: a fetch returns, with what it asked the server for; what is shown as
  loaded is loaded.
* Pages: a page is a run of the rows there are, and pages tile.
* Schemas: stored data are what the schema allows, only clients of a compatible schema sync,
  and what they wrote is not refused for a schema that came later.
* Query engine: whatever plan is chosen, a query returns what it asks for.

## Modules

| Module | What it is |
|---|---|
| `Outbox` | push protocol and its interleavings: the double buffer and the cache as key-value keys, key-value transactions with begin and commit, `syncWrites` in steps, the connection, the server's `SyncConnection` as far as `CHANGES` goes, crash and restart |
| `Push` | abstract specification of the outbox: writes wait in a queue and are handed to the server batch by batch |
| `OutboxProofs` | theorems about `Outbox` |
| `Changes` | entities, changes, `deepObjectAssign`; the entry of a set of changes for one id, the merge of two, the application to an entity |
| `Snapshots` | abstract specification of the client's store: four values for an entity (visible, pushed, confirmed, server) |
| `Overlay` | the data of the outbox: sets and deletes in two buffers, the merges, the overlay reads, application to cache and server; it implements `Snapshots` |
| `OverlayProofs` | theorems about `Overlay` |
| `MCOverlay` | module of TLC's runs of `Overlay`; also checks how a transaction folds its operations |
| `Views` | live queries: IVM's double buffer, `updateViews` and its lock, views updated in place or fetched again, subscriptions and the flush |
| `MCViews` | module of TLC's run of `Views` (what is inserted and set) |
| `ViewsProofs` | theorems about `Views` |
| `QuerySync` | subscribed queries between client and server: `connectQuery`, `disconnectQuery`, `ENTITY_DATA`, the server's buffering and flush, the one checkpoint, lost connections, restarts, errors |
| `QuerySyncProofs` | theorems about `QuerySync` |
| `Replica` | timestamps: the server's two clocks, the metadata by which both sides prune, stamps of `CHANGES_ACK` and `ENTITY_DATA`, restarts of the server |
| `MCReplica` | module of TLC's runs of `Replica` (symmetry) |
| `ReplicaProofs` | theorems about `Replica` |
| `Connection` | sessions, sockets and their events, reconnect timers, tokens |
| `ConnectionProofs` | theorems about `Connection` |
| `Reads` | `fetch` with its policies and `subscribeWithStatus`, between the sync engine and the views |
| `ReadsProofs` | theorems about `Reads`, and about `Pages` |
| `Pages` | `subscribeWithPagination` |
| `Query` | `simplifyQuery`, the views that the planner extracts, and the execution of a plan, against what the query asks for |
| `Schemas` | pushes of schemas, the compatibility list, the schema handshake, writes under older schemas |
| `MCSchemas` | types, values and client schemas for TLC's run of `Schemas` |
| `SchemasProofs` | theorems about `Schemas` |
| `MCQuery` | the queries that TLC's runs of `Query` ask |

`Overlay`, `Replica` and `Views` share `Changes`, each laying changes over
entities.

The modules meet at what each assumes of the other. `QuerySync` takes from `Views` that the
server's views come up with its store, and from `Connection` that a lost
connection comes back; `Reads` takes from both; `Pages` takes from `Views` that a live
query delivers the rows of the moment; `Replica` takes from `QuerySync` that every
client is sent what changes; `Views` takes from `Query` that a fetch is right.
Where one of them fails (Findings, below), what is built on it does too.

`Outbox` and `Overlay` are two views of the same code that share no state.
`Outbox` keeps every `await` and reduces an entry to the set of writes merged
into it; `Overlay` keeps what an entry is and runs every handler in one step. A
property that needs both would be about one entry read half way through
a merge; the code never does that, as a handler reads a buffer with one storage
operation for all entities.

### Outbox

An action is the code between two places where another task can run. The
program counters are `tx` (a key-value transaction of each kind that has read
what it read and waits for its commit) and `call` (each `syncWrites` call, at
its `isEmpty` or at its `getChanges`).

| Action | Code |
|---|---|
| `WriteBegin`, `WriteCommit` | `DB.transact` up to and from `tx.commit()` (`db/db.ts:519-561`); the listener sets `dirty` |
| `SyncOnCommit`, `SyncByUser` | the throttled `onCommit` callback; `client.syncWrites()` |
| `SyncSwitch`, `SyncSend` | the rest of `syncWrites` and `trySyncLockedBuffer` |
| `ServerStart`, `ServerNotReady`, `ServerApply`, `ServerApplyViewError`, `ServerReject` | `SyncConnection` |
| `HandleReady`, `AckBegin`/`AckCommit`, `ErrorBegin`/`ErrorCommit` | the client's message handlers |
| `ClearEntityBegin`/`Commit`, `ClearAllBegin`/`Commit` | clearing pending changes |
| `Drop`, `OnClose`, `Connect` | socket lost or `disconnect()`, close handler, a new socket opens |
| `Crash` | the process ends and starts over the same store |

`LoopFree` is the guard of everything that starts in a task of its own: all
suspended activations are at an operation where the storage yields. With
`ReadsYield = CommitsYield = FALSE` (memory, synchronous SQLite) a handler that
began runs to its end first; such a store that is durable is what the crash
actions are about. With `CommitsYield` only (IndexedDB with cache) others run
while a commit waits; with both, at every storage operation.

Choices worth knowing: at most `MaxOverlap` activations are suspended at a time
and at most one of each kind; reads of a handler and the staging of its edits
are one step (the reads are one `await` chain over a buffer; `Committed`
overwrites exactly the staged keys, whatever happened meanwhile, as
`MemoryTransaction.commit` does); entries merge by union, as updates do
(inserts and deletes are in `Overlay`); `syncWrites()` from a clear of an entity
without pending changes is `SyncByUser`; the `changes` field of an answer is a
history field no client action reads.

`Push` tells the same without connections, messages, storage transactions and handlers: writes wait in a queue, a batch takes
all of them, the server gets it whole (maybe again), and it is confirmed or goes back to the queue. `Atomic` maps the
queue to the unlocked buffer and the batch to the locked one; a restart may exchange the two, as the client
does not keep which is which. Every step of `Outbox` then is one of `Push` or none of them, where storage does not yield: `ServerApply` is
`Apply`, although what the server applies was read and sent long before.

### Overlay

`Entry` is what a buffer holds for an id: `[set, del]`. `Written`, `Merged`,
`ApplyOverlay`, `OnCollection` and `Applied` are the five functions of the code that
combine entries and entities. What the application does is a parameter:
`Reinserts`, `Upserts` and `BlindWrites` allow inserting an id again, inserting one
that is visible, and updating or deleting one that is not. `SharedValues` is the
memory store, that hands out the objects it holds, so that `mergeDBChanges`,
which merges into its second argument, changes the locked buffer (`Fetch`).
`ResendRejects` is a server that rejects a batch it has applied: after a lost
answer the batch comes again, its insertions are now updates, and are checked by
another permission. `held` are the ids whose cached object is also in the result
of a live query: `Subscribe` is a first fetch over the memory store that finds an
entity without pending changes, and `InPlace` what the live query then does to
that object with every transaction. Only an acknowledgement replaces
the object; a subscription that is older than the cached entity has a copy
(`bufferChanges` clones) and is not in `held`. Ids are independent, except that a push is of all of them.
`syncWrites` at the end of a handler comes after an `await`, so it is the separate
action `SyncWrites`.

`Snapshots` says the same without buffers. `Layers` maps `visible` to what a scan
shows, `pushed` to what it would show without the unlocked buffer,
`confirmed` to the cache and `server` to the server's data (`VisibleLayer`,
`PushedLayer`).

### Views

One collection; a query is all of it, or the entities with a `Wanted` value in the
attribute `Key`, or (in `Limited`) the first `Limit` of either in the order of `Key` and id.
A query in `Refetched` is one with `shouldRefetch` (a relational
filter or order); the others are updated in place. Evaluation itself is external:
`Answer` is what a fetch gives.

| Action | Code |
|---|---|
| `Insert`, `Update`, `Delete` | a transaction commits: `DB.transact`, `applyChanges`, `applyChangesWithTimestamp` up to the commit |
| `BufferChanges` | `IVM.bufferChanges` and the call of `updateViews` that follows every write |
| `Subscribe`, `Unsubscribe` | `IVM.subscribe` and the function it returns |
| `Start` | `updateViews` gets the lock and switches the buffers |
| `Fetched` | the first result of a query is stored |
| `UpdateView` | the loop's body for one affected view |
| `Finish` | the buffer is cleared; `flushChangesToListeners` |

Choices worth knowing. `committed` is the gap between the commit of a write and its
buffering (`db/db.ts:546-556`, two awaits); it is a queue, as both awaits
take the same time for every transaction over a given storage. `reported` is what the
transaction hands to `bufferChanges`: the client's own changes as they are, those
that `EntityDataStore` applied only as far as they overwrote something (`Effective`). `due` is a
Boolean: calls that wait for the lock do the same thing, so one stands for all.
The fetch of a new query (`read`) and its storing are two steps, as a result is
stale by the time it is stored. `UpdateView` is one step: it has an await
where the store is read (a refetch, an update of an entity that is not in the result),
and what other tasks may do meanwhile (commit, buffer into the other buffer,
subscribe) neither reads nor writes what the step goes on with, except the end of
the query's own subscription, after which nothing refers to the view. The flush
belongs to `Finish`: whoever awaits `updateViews` continues, and flushes, before the next
call that waits for the lock. A failed call flushes nothing. A page at its limit that loses a row, or has one reordered, is fetched again (`Backfill`); any other is cut again
(`Cut`). Rows with equal keys stand in the order of their ids, as in a fetch that orders by both; with an order that leaves ties,
a page updated in place may differ from a fetch, and the documentation does not say which is right. Results are values
here; that they may be shared objects is the subject of `held` in `Overlay`.

### QuerySync

The server side is one `SyncConnection`; its `conn` record holds the fields of that class
(`queries`, `entities` for the map `queryEntities` in its order, `tasks` for calls of
`bufferEntityData` that await, `changes` and `changed` for what waits to be flushed).

| Action | Code |
|---|---|
| `Write`, `UpdateViews` | a transaction on the server and `updateQueryViews` after it |
| `BufferEntityData`, `Buffered` | `bufferEntityData` to its first await, and from there |
| `FlushEntityData` | `flushEntityDataToClient` |
| `ServerStart`, `HandleConnectQuery`, `RefuseConnectQuery`, `HandleDisconnectQuery` | `start` and the handlers that `dispatchCommand` calls; a message before READY is refused |
| `Subscribe`, `Unsubscribe` | `SyncEngine.subscribe` and the function it returns |
| `ConnectQuery`, `InitializeSync` | the rest of `connectQuery` after its awaits; `initializeSync` |
| `HandleReady`, `HandleEntityData`, `EntityDataStored`, `HandleError` | the client's message handlers; `ENTITY_DATA` in its two transactions |
| `Drop`, `Open`, `Crash` | `onclose`, `onopen`; the client's process ends and starts over its storage |

`Unchanged` is the server's decision that a client with a checkpoint knows an entity already,
the line the properties are about. Entities are whole values and a timestamp is a number of its own: what parts of
an entity do is `Overlay`, what equal or retrograde stamps do is `Replica`. `ServerYields` and `ClientYields` say whether an await of either
storage lets other tasks run.

### Replica

A replica is `EntityStoreKV`: entities, their stamps, and the highest stamp of the collection.
`ApplyWithTimestamp` is `applyChangesWithTimestamp` with the pruning of
`EntityMetadataStore.applyChanges`. The server has two clocks (`db.clock`, which stamps what clients push and what
is sent, and that of `ServerEntityStore`, which stamps its own transactions); `Ticked` and `Now` are
`next()` and `current()`. `Transact`, `HandleChanges`, `FlushEntityData` each stamp something;
`BufferEntityData` and `Connect` compute what a client lacks; `HandleAck` and `HandleEntityData`
are what the client does with stamps. `accepted` is a history variable: what the changes
that the server took add up to in the order in which it took them.
`Ties` lets the two clocks stamp in one millisecond, `StepsBack` lets `Date.now()` go back at a restart.

### Connection

A socket is a record in `sockets`, with the session that made it, its state, the reason it is closed with
and the listener that waits to close it (`closer`); `ws` is the transport's, always the newest. Handlers
of older sockets stay bound to their session, as in `createConnection`. Application: `StartSession`,
`EndSession`, `Connect`, `Disconnect`, `UpdateToken`. Events: `SocketOpens`, `ServerReady`, `SocketCloses`,
`SocketFails`, `ServerCloses`, `Reconnect`. `armed` is the timer that `reconnectTimeout` refers to, `leaked` the number of those it
referred to once. `synced` is the socket over which the queries and changes of the client were sent; `wanted` is a
history variable, what the application asked for last.

### Reads

One query. `query` is its entry in the sync engine (`Mount`, `Unmount`), `sub` and `fetch` are the local variables
of `subscribeWithStatus` and of `fetch` with `syncQuery`, with a program counter (`pc`). The answer of the server and
the number of local writes is all that is told apart of the rows. `HandleData`, `Mark`, `Fulfill` are the
`ENTITY_DATA` handler at its awaits: the data are applied, then the query is marked and FULFILLED, then the views are
updated, and then callbacks run. An update of the views (`BeginUpdate`, `EndUpdate`, then the flush that
belongs to its caller) is what `Views` shows in detail.

### Pages

A row is a key and an id; `Sorted` puts rows in the order of the query, with the id as the last key. The live query's results are computed when they are delivered (`HandleResults`, all of
`subscriptionResultHandler`), which is after `pageDue` was set by a write or a move. `after` is always inclusive in this
code, `limit` counts the buffer rows, and `direction` says whether the order is flipped. `NextPage` and `PrevPage` are the
two functions handed to the caller, with the two branches of each.

### Query

Pure functions, run by `Fetch` on every database that `Insert`, `Update` and `Delete` reach. `SimplifyQuery` is
`simplifyQuery`; `ExtractViews` decides which exists filters are inverted into a membership (`Invertible`), which
become searches in a sorted view (`CanCache`, `View`) and which stay; `Run` executes what is left:
candidates by id or by scan, filters, exists subqueries, order, `after`, limit, inclusions. `ResolveFromView` is the
binary search over a cached view, as written. `Runs` says which plans the engine throws on.
`Keeps` is the reference: what the query asks for, with no plan at all.

### Schemas

The database of a server and the connections of its clients, as far as schemas go. There is one collection, as schemas are compared
collection by collection; a schema is the function of its attributes to their types, a hash of a schema is the schema itself.

| Action | Code |
|---|---|
| `OverrideSchema`, `CheckEdit`, `Decide`, `UpdateSchema` | `overrideSchema`: the comparison, one fetch of `getSchemaDiffIssues` per edit in any order, the verdict, the commit of the new schema |
| `SchemaChanged`, `SetCompatibilityList` | the listener of `Server`: its read of the list, its write |
| `Clear`, `Restore` | `clear`, which removes the list with all else and then saves the schema again |
| `Restart` | the process ends; `createDB` over what it saved, with or without the schema of its options |
| `Open`, `Start` | `SyncConnection.start` to its await, and from there: READY, CLOSE or `SCHEMA_REQUEST` |
| `HandleSchemaResponse`, `AllowClientToSync`, `AddToList` | the answer of the client, and the two awaits of `allowClientToSync` |
| `Close` | `closeConnection`; a suspended handler goes on |
| `Begin`, `ApplyChanges`, `Commit` | a transaction of the server or the changes of a client: encoded under the writer's schema, validated under the server's, committed |

`Constraint` is the table `DANGEROUS_EDITS`, and `SafeWithData` the fetches that answer it. A writer writes what the types of its schema let it write (`Insert`, `Update`).
`Careful` is how `docs/src/pages/schemas/updating.mdx` and the console ask for schemas to be changed: one thing of an attribute at a time, and an incompatible change
(or a clear) only when no client is connected that does not know of it. Compatible pushes are free to run beside everything.

## What is checked

| Run | What it shows |
|---|---|
| `outbox_serial` | with storage that does not yield, through lost connections, a rejection, clears and a restart: `Outbox` implements `Push`, no write is lost, the cache is confirmed data, one push at a time, an answer is about what is locked, the client reads its own writes, the server is never moved back, every write is synced |
| `outbox_async` | with storage that yields everywhere, two activations interleaved and a view update that throws on the server: what is confirmed stays, and a push is settled as long as the connection lasts |
| `overlay_fresh` | an application that inserts new ids and writes what it sees: `Overlay` implements `Snapshots`, the cache tracks the server, and a query shows every write at once (`WritesShow`) |
| `views_live` | a filtered query updated in place, one fetched again and one with a limit, listeners that come and go, writes at every await: where a view differs from a fetch the change is on its way (`NoChangeMissed`), a listener that was told something else than the view holds is going to be called (`ListenersFollow`), and each ends with what a fetch answers (`ListenersSettle`) |
| `sync_serial` | one query, writes, two lost connections: what the client lacks of a query that the server has answered is on its way (`NothingSkipped`); what the server takes a checkpoint for is true (`CheckpointHonest`); when things calm down the query is fulfilled and shows the server's data (`QueriesSettle`) |
| `sync_many` | two queries, subscribers that come and go, an error, a restart, a server that yields: each query that stays is answered (`QueriesAnswered`), none that was left stays connected (`NobodyLeft`) |
| `replica_apart` | two clients, transactions of the server, a lost connection, a restart of the server: what was acknowledged is in the data (`AckedApplied`), a client that is up to date has the server's data (`Converged`), stamps do not go back (`StampsGrow`) |
| `connection_calm` | two sessions, four calls, three lost sockets, a refusal: one live socket, that of the current session and token (`OneConnection`); the status is that socket's (`StatusHonest`); a disconnected client stays so (`DisconnectHolds`); a lost connection comes back and is synced over (`Reconnects`) |
| `pages_live` | pages of two over five rows with equal keys, in both orders, with writes: a page is what it says (`PageHonest`), turns skip and repeat nothing (`TurnsTile`) |
| `query_plans` | eighteen queries of every strategy over every database of at most four rows: the plan returns what is asked (`FetchCorrect`) |
| `reads_live` | a subscriber and a fetch, a write, a loss or an error: results shown as loaded hold the server's answer (`LoadedHonest`), as does what a fetch returns that waited for it (`FetchComplete`), and every fetch returns (`FetchReturns`) |
| `schema_pushes` | two pushes, clears or restarts of any schema beside a connection and a write: stored entities are what the schema allows (`DataConforms`), a client that syncs has a schema the server's is compatible with (`SyncingFit`), and what was written under an older schema is not refused (`WritesLand`) |

**Bounds.** `outbox_serial` has two entities, two writes, one loss of the
connection, one rejection and one restart. Two writes are what it takes for one
to be locked while the other is not; two entities distinguish a push of one
from a clear of the other; each fault once is enough for every order of a fault
and a push, and the theorems below remove the bounds. `outbox_async` has one
entity (more only multiply independent keys: a handler treats all keys of a
buffer alike) and two suspended activations at a time, the least with an
interleaving. `overlay_fresh` has one id, two attributes (a merge must keep one
and replace the other) and two values (old and new), and no bound on the number
of operations. `views_live` has two entities and a page of one (a row moves up when the other leaves, is deleted or
moves down), two attributes (one filtered and ordered on, one not), a value
inside and one outside the filter, the three kinds of query, two listeners (two on
one query, one on each, one that leaves while the other arrives) and two
writes, one before and one after the switch of the buffers: 928,578 states. A page of two of
three rows that is filtered too, with three writes and one listener, was checked by hand (832,802 states).
`sync_serial` needs three writes and two losses of the
connection for a checkpoint to be taken, used and taken again (one entity inside
and one outside the checkpoint, three values so that a change may enter, stay in
and leave the filter). `sync_many` trades entities for subscribers and faults: liveness of a query
does not depend on what its data are. `replica_apart`: two clients (one writes, one hears), two attributes (a change of one must not prune the other), four milliseconds.
`connection_calm`: two sessions give an old and a new socket; three losses are one while a timer is set and one while the replacement
connects. `pages_live`: five rows are two pages and a half of two; two keys make ties, which the cursor's second part must break.
`query_plans`: four rows give an inner, an outer and a duplicate of each; deeper
nesting than three levels takes the same code again. `reads_live`: one subscriber and one fetch share a query; a second of either
is described under Checked by hand. `schema_pushes`: two pushes are a push and
one that follows, a clear and a push, or a push and a restart; five types differ in each option that a push may change, beside the id's. A second client, which shares the list with the
first, and a second entity change nothing that the theorems need: those are for any number. `CHECK_DEADLOCK FALSE` stands wherever the system may rest:
with its bounds used up nothing is pending.

**Fairness** (`Outbox!Fairness`). Weak fairness of everything that the event loop,
storage, network and server do by themselves: a resolved `await` resumes, the
throttled callback runs, a message on an open connection is delivered and handled,
the server answers, a closed socket is reported and (as `autoConnect` and the
reconnect timer do) opened again. No fairness of what a user or a fault does:
writes, clears, `client.syncWrites()`, lost connections, crashes. `Views!Fairness`
is the same for IVM: what was committed is buffered, a due call gets the lock,
a fetch answers, each affected view is handled, the call ends. None for writes and
subscriptions.
`QuerySync!Fairness`: handlers resume, messages arrive, views update, the flush timer fires, the connection
opens again (the reconnect timer); none of writes, subscriptions and faults. `Connection!Fairness`: a socket opens or
fails, an open one is greeted, a closing one closes, timers fire. `Reads!Fairness`: what was begun goes on, the server answers,
the client reconnects; none of the timeout of `local-and-remote` in particular beyond that of its fetch.

`MCOverlay!TransactionsFold` is an assumption that TLC evaluates for every
sequence of three operations: the fold of a transaction into one set and one
delete means what the operations mean in order.

**Checked by hand, no run of its own.** The runs above keep to uses and
environments in which the code keeps its promises. Every module has flags for those in which
it does not; the runs with them are described here, by module. Each sets
the named constant to TRUE (or adds what is named) in the configuration of the run above.

`Overlay`: `CacheTracksServer` holds also with
`Reinserts`, `Upserts` and `BlindWrites` all true (155,628 states) and is
proved (below); it fails with `SharedValues`, since a scan during a push adds unsent
fields to the locked buffer that the acknowledgement then caches. `WritesShow` holds also over the
memory store with batches that are rejected when sent again (`SharedValues`, `ResendRejects`; 226,928 states).

`Views` has three flags for uses of the API that `views_live` leaves out, because
with each of them the code fails:

* `EarlyUnsubscribe = TRUE`: `NoChangeMissed` and `ListenersSettle` are violated (`ListenersFollow` is not: a new
  listener stays marked, but no call serves it). The last
  listener of a query leaves while its first result is fetched and another
  subscribes: the new node is marked uninitialised, then `uninitializedQueries.delete`,
  which follows the await (`ivm.ts:251-256`), removes the mark. Its listener is
  never called, and the next change of the collection makes `updateViews` throw
  (291-295), for all queries and without clearing the buffer. The server does this
  when a client connects, disconnects and connects a query again
  (`sync-connection.ts:331-386`); the throw is what `ServerApplyViewError` of `Outbox` needs.
* `Reinserts = TRUE`: `NoChangeMissed` is violated with three writes. A delete and an insertion of an
  id that reach the view together are merged into one set over the old entity (370-374), which keeps
  an attribute that the new one does not have.
* `Upserts = TRUE`: `NoChangeMissed` is violated with three writes. An upsert of an entity that the filter
  excluded enters the view as it is (418-421), without the attributes the store kept.

`QuerySync`:

* two queries in `Queries` and `Leaves`: `NothingSkipped` is violated. There is one `latest_server_timestamp` for all queries
  (`sync-engine.ts:693`): a query that was left, missed changes and is connected again sends the checkpoint that another one moved on.
* `Leaves` with one query and two subscribers: `CheckpointHonest` and `NothingSkipped` are violated: a flush carries changes of a query that was left and is connected again,
  and its stamp becomes the checkpoint.
* a restart (`MaxCrashes = 1`) and two subscribers in `sync_serial`: `NothingSkipped` is violated. `ENTITY_DATA` is applied in one transaction and the
  checkpoint stored in another (`sync-engine.ts:875`); a process that ends in between has the data and no checkpoint, connects as if new, and never
  hears of the deletion of what it has.
* `ServerYields`: `CheckpointHonest` and `NothingSkipped` are violated: a write that is committed and not yet in the views is older than the stamp of a flush
  that does not carry it; when the connection is lost then, the client's checkpoint says that it has the write.
* `ClientYields`: `QueriesAnswered` is violated: a `connectQuery` that was suspended across a loss of the connection sends before READY, is refused
  (`sync-connection.ts:500`), and `hasSent` stays set. `NothingSkipped` is violated too, even in `sync_serial`. With `Leaves`, `NobodyLeft` is violated: a suspended call connects a query that was left meanwhile.
* `SubscribersServed` with an error: the query is removed with all its subscribers, whose `unsubscribe` later counts
  down the entry that a new subscriber made for the same hash (`sync-engine.ts:639`).

`Replica`:

* `Ties`: `AckedApplied` and `Converged` are violated: `db.clock` (`db.ts:115`) and the clock of `ServerEntityStore` (`server-entity-store.ts:8`) both
  start from zero and may give one stamp to two changes, of which the second is pruned after its writer was told that it is stored.
* `StepsBack`: `AckedApplied` is violated: after a restart over a clock that went back everything is pruned until the time is made up, as clocks are not stored.
* `ServerYields`: `Converged` is violated: an insertion that is pushed, acknowledged and deleted before the views come up was never in a
  view, so that nobody is told of the deletion, and the client that pushed it caches it for good.

`Outbox`: with two activations `ImplementsPush` is violated in each of three ways. `CommitsYield`: an entity is cleared while a write of it waits for its commit, which
then puts the cleared write back. `ReadsYield`: two calls of `syncWrites` send one batch twice, and the server applies the second after the first was refused
and taken back. `MaxViewErrors = 1`: a batch is acknowledged, the next is sent, and the error of the first takes it back while the server applies it.

`Connection`:

* `Offline`: `DisconnectHolds` is violated: `disconnect()` and `endSession` leave the reconnect timer (`sync-engine.ts:1115`, set at 1066), which connects again. The
  comment of `disconnect` (`triplit-client.ts:1173`) says that it stops the client from syncing.
* `SlowCloses`: `Reconnects` and `DisconnectHolds` are violated: the close event of an old socket resets what the new connection
  has set (`serverReady`, sync state), and arms a second timer.
* `Impatient`: all are violated; the `open` listener that is to close a connecting socket closes `this.ws`, which may be a newer one (`websocket-transport.ts:121`).
* `updateTokenForSession` is a promise that is tested as if it were its value (`sync-engine.ts:311`): the second attempt is never made. It is not a flag: the
  model has no failing request.

`Pages`: with `Adrift` (rows from the cursor on are deleted or moved) `PageHonest` and `FlagsHonest` are violated: whether there is a page before is told
by comparing the first row with the cursor, by the first attribute only. With `Hasty` (a move before the results of the last) both and `TurnsTile` are: the cursors
are those of the page before.

`Query` keeps to the queries that the planner answers rightly. Finding 0 is the run with `Collections = {"planes", "flights", "airports"}`,
`Ids = {1, 2, 3}`, `Values <- FleetValues`, `Pool <- Documented` and `MaxRows = 3`. Beside it: the id filter is looked for in all filters
and taken out of the static ones by the same index (`query-compiler.ts:422`); an inverted exists filter has the operator of its join ignored, a limit
of its query too, and disappears when it has no join; a cached one loses exists filters and `after` of an included query; a view with a
variable of a higher row in it is computed for the first candidate and kept; an exists filter that is left in a group, or an inverted one inside
a query with two joins, makes the engine throw; an empty `or` group is dropped, that is, taken for true.

`Reads`:

* two subscribers, or a subscriber and a fetch: `LoadingEnds` is violated: a subscriber that read "never seen" before the query was marked and mounts it after its
  callbacks ran waits for a change of state that a FULFILLED query does not have (`triplit-client.ts:618-733`). With one subscriber alone it holds (24,028 states).
* `FetchFallsBack` with `Fails`: violated: `syncQuery` passes no `onQueryError`, and a fetch whose query the server refuses never returns, where
  `docs/src/pages/client/fetch.mdx:36` says that the cached data is used.
* a subscriber and a `remote-first` fetch, or two fetches with `Overlap`: `FetchReturns` is violated: for a query that is FULFILLED already `onQueryFulfilled` is
  called at once, reads `unsubPromise` before it is initialised (`sync-engine.ts:1273-1279`, `617`) and throws in a promise nobody waits for.
* a subscriber, two fetches and a QuerySyncError: the count of a query is not the number of those who hear of it. A subscriber that outlives the entry whose query was refused
  is taken, when it leaves, from the count of the entry that others have made since (`sync-engine.ts:639-669`), and may disconnect their query.
* `Overlap`: `LoadedHonest` is violated: an answer that is stored while an update of the views runs is marked as seen before the views have it.

`Schemas`, with `Careful = FALSE` all three safety properties are violated. The traces differ in what is not careful:

* a push that changes two things of an attribute, as from an optional string to a required number: the first rule of `DANGEROUS_EDITS` that matches is the only one
  whose data are checked (`find`, `diff-issues.ts:244`), and `DataConforms` is violated, where `docs/src/pages/schemas/updating.mdx:225` says that Triplit "will prevent
  you from changing the type" of an attribute that has data.
* a set that is nullable no longer: the fetch that looks for nulls asks the items of the set (`filters.ts:150`) and finds none: `DataConforms` is violated.
* an incompatible push beside a writer: a write between the check (`db.ts:663`) and `updateSchema`, or between its validation and its commit, is
  not checked: `DataConforms` is violated. What was written under the older schema may be refused: `WritesLand` is violated.
* an incompatible push beside a client: those who are connected stay (their closing is commented out, `triplit-server.ts:51-62`), as do handshakes
  that have compared schemas and have not written the list: `SyncingFit` is violated.
* a restart with an incompatible schema option (`hono.ts:123`): `createDB` applies it before the `Server` listens to changes of the schema
  (`triplit-server.ts:31`). The compatibility list is not reset, and clients on it are admitted: `SyncingFit` is violated, where `updating.mdx:55` says
  "the client will refuse to connect".

The type invariants of `Outbox`, `Views`, `QuerySync`, `Pages` and `Reads` have no run, and hold when they are added to one. Those of `Outbox`, `Views`, `QuerySync` and `Reads` are proved, and that of `Pages` without `Hasty` and `Adrift`.

### Findings

Each was found by a run described above, by one trace; how to repeat it stands with its name.

0. **Greater is equal** (`MCQuery`, with the pool `Documented`: `FetchCorrect`). `resolveQueryFromView` answers `<`, `<=`, `>` and `>=` with the run of
   equal values in the sorted view (`variable-aware-cache.ts:30-45`, `78-79`), and `!=` with that run's ends kept. The documentation's query
   "Fetch all 747 planes that have a flight to an airport newer than the plane" (`docs/src/pages/query/variables.mdx:62`) is such a view.

1. **Cached data that was never sent** (`Outbox`, `CommitsYield`: `CacheConfirmed`). A transaction
   stages its change under the active buffer's prefix and awaits its commit;
   `syncWrites` switches, reads the locked buffer and sends it without the
   change; the commit puts it there; `CHANGES_ACK` moves it to the cache and
   deletes it from the outbox. The server never gets it.
2. **A push that blocks all others** (`Outbox`, `ReadsYield`, no crash: `EventuallySynced`). The socket closes while
   `trySyncLockedBuffer` awaits; `onclose` resets `syncInProgress`; the call then
   sets it again and its message is dropped.
3. **A restart inverts the outbox** (`Outbox`, `Durable`, a crash: `QueueOrder`). `activeBufferIndex` starts at
   0 over durable buffers.
4. **A lookup finds a deleted entity** (`LookupAgrees`). `getChangesForEntity`
   makes `{}` of two empty updates.
5. **A delete after an upsert is lost** (`Upserts`: `DeleteHides`). `write` takes any set
   with an id for an insertion the server has not seen.
6. **An insert after a delete stays hidden** (`Reinserts`: `InsertShows`). A set does not
   take an earlier delete with it, and the scan skips it.
7. **A cleared change stays** (`SharedValues`: `ClearRestores`). A live query that was
   subscribed when the entity was cached has the cached object itself as its
   result, and applies changes to it without a clone (`ivm.ts:372`). The memory
   store, the client's default, then holds the unconfirmed value as confirmed, and
   clearing the pending change rolls back to it. The integration test that covers the case
   subscribes before the entity is cached, where the result is a copy.

## What is proved

All theorems are for every value of the constants; the bounds of the runs do
not appear in them except as what `Nat` allows.

`OutboxProofs`:

* `TypeCorrect`: the type invariant, for every storage.
* `AlwaysConfirmedStays`: for every storage, what is in the cache stays. From the
  type invariant and `CacheTx`: whatever an open transaction writes to a
  cache key contains what the cache holds there, as only `ack` writes cache keys.
* `SerialNoWriteLost`, `SerialCacheConfirmed`, `SerialAnswerMatchesLocked`,
  `SerialOnePushInFlight`: under the assumption `SerialBuild` (no storage
  operation yields, and the server's view update does not throw). Finding 1
  shows that the first half of the assumption cannot be dropped for `CacheConfirmed`;
  a view error that follows an ACK makes the client take one push for two.

The inductive invariant of the four, `IInv`, is needed because none of them is
inductive: that an answer matches the locked buffer holds only because nothing
switches or changes that buffer while a push is unanswered. Its parts:
`OneActivation` (without yields at most one activation is open), `Session` (what
`status`, `link`, `canSync` and `serverReady` imply of each other), `InFlight` (at
most one message is unanswered, and `syncInProgress` is set then unless the
connection is gone), `Calls` (a suspended `syncWrites` means no push in flight),
`WriteTx`, `ClearTx`, `AckTx`, `ErrorTx` (what the staged keys and values of each
transaction are in terms of the current buffers), `WriteNumbered` (write numbers
are used once). `Protocol` and `Transactions` group them.

* `SerialReadYourWrites`, `SerialServerNeverReverts`: under the same assumption. They are about the order of
  writes, of which `IInv` says nothing; `QInv` adds it: what the keys hold was written (`Bounded`, `ServerBounded`);
  for each entity the cache is older than the locked buffer and that is older than the active one (`Ordered`);
  what is still to be pushed is as late as what the server applied last (`ServerOlder`), which is what a push that is sent again needs;
  and the last write is the last that a query sees, unless it was given up (`SeesLatest`). All of it is conditional on `crashes = 0`: after a restart
  the roles of the buffers are forgotten and the order with them (Findings, `QueueOrder`).
  What a commit does to the keys is stated once for each transaction (`WriteCommitted`, `ClearCommitted`, `AckCommitted`, `ErrorCommitted`).

* `SerialImplementsPush`: under the same assumption `Outbox` implements `Push`. One lemma for each step that `Push` sees: `IInv` says
  that the message which the server applies is what the locked buffer holds (`InFlight`), and that what is acknowledged is applied (`AckTx`);
  `Numbered` that a write has a number above all earlier ones. Each half of the assumption is needed, and the view updates too (see the runs by hand).

`OverlayProofs`:

* `AlwaysCacheTracksServer`: for every set of ids, attributes and values and every
  use of the API, under `Copies` (a store that copies values, a server that does not
  reject what it applied), the client's cache is the server's data up to the locked
  batch. The invariant is `CInv`: a batch on its way is what is locked
  (`PushIsLocked`). Nothing but an answer changes what is locked, and applying a
  batch twice is applying it once (`AppliedTwice`).
* `FreshUseImplementsSnapshots`: under `FreshUse` (`Copies`, and an application that
  inserts new ids and writes what it sees) `Overlay` implements `Snapshots`. The
  overlay is no snapshot for any pair of a set and a delete (that is what the
  three Overlay findings are), so the invariant `IInv` adds what pairs occur:
  `LayersFit` says that the locked entry of an id fits the cached entity and the
  unlocked entry fits what the two show together (an insertion only where there is
  nothing, an update or a delete only where there is something, never a set and
  a delete at once), and `NewIdsAreNew` that an id not used yet is nowhere. Each action
  has a lemma that it implements its abstract counterpart; they rest on `MergeAssociative`,
  `MergedRead` (reading the merge of two entries is reading one over the other) and
  `WrittenRead` (a write into a buffer is seen through it).
* `FreshUseWritesShow`: under the same assumption, a scan after a transaction shows what
  the transaction wrote.

* `TypeCorrect`: the type invariant, over a store that copies values.

`OverlayProofs`, `ReplicaProofs` and `ViewsProofs` each begin with the lemmas about the functions of `Changes` that they cite: the types of what merging and
applying changes returns, and in `OverlayProofs` that what is applied twice is applied once.

`ReplicaProofs`, for every set of clients, ids, attributes and values and every bound:

* `TypeCorrect`: the type invariant, whatever the flags.
* `ApartAckedApplied`: under `Apart` (no two kinds of work stamp in one millisecond, and `Date.now()` does not go back) the server prunes nothing that it acknowledges.
  `AckedApplied` is not inductive: that nothing is pruned needs every new stamp to be above the highest. `AInv` adds `HighestIsPast`: the highest stamp is
  below what either clock can give next: its physical part is in the past, or it is the last stamp of the clock that is at work in this millisecond. A restart keeps it, since
  time goes on although both clocks are forgotten. Finding `Ties` shows that the assumption is needed.
* `ApartStampsGrow`: `StampsGrow`, under the same assumption. `SInv` adds that every stamp on a wire or in a checkpoint is of the past, or is
  one that the clock at work in this millisecond gave (`StampsPast`).
* `PromptConverged`: `Converged`, under `Prompt` (`Apart`, and a server whose storage does not yield). The hard case is a client that prunes by its own metadata what it is
  sent, and whose own push is acknowledged between. `RInv` adds, for every client and entity: what the messages on their way, applied in their order with the acknowledgement where it comes, make of the client's entity is
  what the server's connection last saw (`NewsPart`, by `Arrives`); a message is newer than all that the client has and than those before it, so that none is pruned (`OrderPart`);
  at most one acknowledgement is on its way, for what was pushed (`AckPart`); an entity not changed since a stamp needs nothing more behind it (`SincePart`), also within the millisecond of a flush
  (`FlushPart`). The proof showed that the guards of `Differs` overlapped in an earlier version of the model, which left the value of a `CASE` open; TLC takes the first and had not told.
  The by-hand run with `ServerYields` shows that `Prompt` is needed.

`QuerySyncProofs`, for every set of ids, values and subscribers, every filter and every bound on writes, lost connections and refusals:

* `OneQueryNothingSkipped`, `OneQueryCheckpointHonest`, under `OneQuery`: one query, storages that do not yield, subscribers that stay, a client
  that keeps running. The runs by hand above show that each of these is needed, so this is all that the code promises about the two. `QInv` is a joint invariant of
  the protocol and the data. The protocol: one activation of the client is suspended at most (`Activations`); a request that was sent is in one place, on its way, connected or refused (`Request`);
  what `serverReady`, `canSync`, `link` and `hasSent` imply of each other (`Session`); how far the server is with the query (`Server`);
  nothing of it is on its way before it is answered (`Quiet`), and what the client said it has, it has until then (`Told`).
  The data: when the messages on their way and the buffered changes are all applied, the client shows what the server's connection has (`Agree`);
  and for each k, once the first k messages are applied, every timestamp stored by then is honest (`Honest`): an entity that matches and is older than it is as in the store. That is
  what keeps `CheckpointHonest` when a message is handled in two steps, data first; `Past` says that no stamp is of the future.
* `TypeCorrect`, `EntriesAreKept`: the type invariant, and that a connected query has one entry in `queryEntities`; for every number of queries and whatever the flags, restarts and leaving
  subscribers included. `Typed` says what the steps rely on: a call or a task that awaits and is not an orphan finds the entry it goes back to (`WaitingFor`, `ServerSide`), a query is only called while it is connected,
  a mounted query has a subscriber, and this.queries is finite, so that `initializeSync` makes a sequence of its calls.

`ConnectionProofs`, for every number of sessions, calls, losses and refusals:

* `TypeCorrect`: the type invariant, whatever the application and the sockets do.
* `CalmOneConnection`, `CalmStatusHonest`, `CalmDisconnectHolds`: the three safety properties, under `Calm`, the flags of the run
  `connection_calm`. None is inductive. `CInv` adds what makes them so: a live socket is the newest one (`Newest`), has the
  state that the status tells, no listener that waits to close it, and no timer beside it (`OneLive`); a socket that is closing was
  closed with a reason not to retry, and while the current session's is closing nothing else of it is live or will be
  (`ClosesForGood`); a status that is open has a socket (`StatusKept`); there is one timer, and only when a connection is wanted (`Timers`);
  and sessions that are not started yet have neither sockets nor a status (`Numbered`). `Begun` and `Ended` show once that
  a connection that begins or ends keeps it, for the five operations that do that. The runs by hand below show that
  each part of `Calm` is needed.

`SchemasProofs`, for every set of attributes, types, values, clients and every bound:

* `TypeCorrect`: the type invariant, whatever is pushed and however.
* Lemmas about pairs of schemas: compatibility is reflexive and transitive (`CompatibleReflexive`, `CompatibleTransitive`), a schema takes
  every entity and every write of a schema that it was compatibly made from (`CompatibleConforms`, `CompatibleWritable`), and a push that changes one thing of an attribute and
  whose checks succeed fits the data (`PlainConforms`).
* `CarefulDataConforms`, `CarefulSyncingFit`, `CarefulWritesLand`: the three safety properties, under `Careful`. None is inductive. `CInv` adds what every step between
  the start of a push and its end may rely on: what a check has found stays true until the update (`CheckPart`, `UpdatePart`), since a loose push runs alone (`LoosePart`);
  the list, what the listener has read of it and what a handshake has read of it hold schemas that fit (`ListPart`, `AfterPart`, `ConnPart`);
  the schema in the storage is the one in use (`SavedPart`); an open transaction fits the schema of now, not that of its start (`TxPart`).

`ViewsProofs`, for every set of queries, ids, attributes, values and listeners, every limit and any number of writes:

* `TypeCorrect`: the type invariant, whatever the flags.
* `ListenersAreCalled`: `ListenersFollow`, when no listener leaves before its first result. `FInv` adds that every subscribed query has
  results or is on the list to be fetched (`ListPart`), with a call that will do it (`DuePart`); that a fetch is for a query that is still there (`FetchPart`); that a
  view which is worked on has results and is not marked yet (`TodoPart`, `MarkPart`); and that a page is no longer than its limit (`SizePart`). The
  last is needed because an update that marks nothing must leave a view as it was (`UntouchedStays`): what joins a page and is cut from
  it again pushes out none of the rows that were there (`CutKeeps`).
* `UpdatesEnd`: `updateViews` does not throw, under the same condition. `EarlyUnsubscribe` shows that it is needed.
* `ChangesReachViews`: `NoChangeMissed`, when moreover the application inserts an id at most once (`~Reinserts`, `~Upserts`; with either it is violated, see above, so
  this is all that the code promises). The property only says that something is on its way; the invariant says what. The changes that a view has not taken yet are at stages: the buffer that is
  handled (for a view whose turn has not come), the other buffer, the commits not yet buffered. `Leads`: of every entity, what the store has is where its changes at those stages lead, to nothing
  after a deletion or to what sets each attribute last. `Fits`: a row of a view differs from the store only by what a change at one of them does. `Right`: a
  result is the page cut from rows that fit, and there may be rows beyond the page that the view never saw. `IdsPart` keeps an unused id without changes, which is where an id inserted twice breaks the proof: a merge of an insertion with what
  it followed would lead elsewhere. The lemmas are about one step each: two stages that `bufferChanges` merges (`StagesMerged`), a stage that a write adds (`InsertAdded`, `UpdateAdded`, `DeleteAdded`), the stage that an update
  in place takes (`RowTakes`, `RowJoins`, `RowStaysOut`), a start that swaps the buffers (`StartMoves`). The hard case is a full page that is updated without being fetched again: no row of
  it leaves or is reordered, so the rows cut off, which it cannot know, stay behind it (`FullPage`, `PageTakes`); a page that is not full has cut nothing off (`ShortPage`).

`ReadsProofs`, for every set of subscribers, fetches and policies and every bound:

* `TypeCorrect`: the type invariant, whatever the flags. An earlier form of it said that the count of a query is the number of those who hear of it; the attempt to prove it
  showed that it is not, once the server has refused the query (see the runs by hand).
* `FetchReadsTheAnswer`: `FetchComplete`, whatever the flags. `FInv` adds that a query that is FULFILLED, or whose answer is being handled, has it in the database (`Answered`); who may have begun an
  update of the views (`BegunPart`: the callbacks run after the handler's own update, not after that of somebody else); and where a fetch is that waits (`FetchPart`).
* `LoadedHasTheAnswer`: `LoadedHonest`, under `~Overlap`, which the run by hand shows to be needed. `LInv` adds that what a subscriber was told last is what its variables hold
  (`SubPart`); that an update of the views which runs has the answer if the database has it (`ViewPart`); that a subscriber which is no longer new has been given the view there is, but for a change not flushed (`GivenPart`); and
  that while nothing is lost or refused, it waits for the server until the answer is there, and from then on for the database or has it (`WaitPart`). The last is what `LoadedHonest` alone does not say: the two flags of a subscriber are
  reset by different callbacks, the one with results and the one with the sync state, which come in either order.

`ReadsProofs` extends `Pages` too, whose names are kept apart from those of `Reads` by a prefix (`PagesInit`, `pageDue`). For every finite set of ids, every set of keys, every page size and any number of moves and writes. All four theorems assume `~Hasty` (the caller
moves when it has the page) and `~Adrift` (rows from the cursor on are neither deleted nor moved; insertions may come anywhere); the runs by hand show that each is needed.

* `PagesTypeCorrect`: `PagesTypeOK`, the type invariant. It needs the rest of the invariant: the limit grows with the first cursor, and must not with the next.
* `PagesAreHonest`: `PageHonest`, and `PageFlagsHonest`: `FlagsHonest`, what the documentation says of the two flags.
* `PagesTurnsTile`: `TurnsTile`.

The argument is about places: the place of a row is one more than the rows before it. In a finite set with a strict total order the places are the numbers up to its size, each taken once
(`Ranks`, by counting: a set with as many elements as the injective image of another is that image, so no induction over the rows is needed). So `Sorted` puts each row at its place (`SortedPlaces`), the rows from
a row on, or up to one, are a suffix or a prefix of all (`SuffixPlaces`, `PrefixPlaces`), and the flipped order is the reverse (`SortedAhead`). From that, `ResultsAre` gives the results of each of the three queries
there are: none, forward and reversed cursor. `PageInv` adds to the properties: the cursor is a row, with a row on its far side (`PageCursor`), so that a page that has one is never empty,
and the first result is the row that is taken off; the page that was shown is the rows i + 1 to j of all, and the ends from which it can be turned are those that the code has kept (`PageSettled`); and
after a move with no write since, the query starts where the page that was left ends (`PageTurn`), or was reset because that page was among the first `PageSize` + 1 rows. The last is the case in which `prevPage` shows
the first page again with rows of the page that was left in it.

Only model-checked: liveness (`EventuallySynced`, `PushSettles`, `QueriesSettle`, `QueriesAnswered`, `NobodyLeft`, `Reconnects`, `FetchReturns`, `ListenersSettle`),
which is out of TLAPS's reach; and `Query`, what rests on its recursive operators, likewise.

## Not modelled, and the plan

What is left, in order of importance:

1. `Views`, what it lacks: `after`, views that depend on views, inclusions, `resetSubscriptions`.
2. Several transactions over equal keys (`MemoryTransaction`), overlapping pushes of schemas,
   chunked messages, `subscribeWithExpand` and `subscribeBackground`.

Not planned: permissions, the validation of schemas and the preparation of queries (pure evaluation over rich data, one value at a time), the worker
client (a remote-procedure wrapper), the HTTP routes, hosts, CLI, console, UI bindings and docs. Most of the repository's lines are in
these. Where the models need them they are external: a
permission check is a nondeterministic rejection, a view update may throw.
