------------------------------ MODULE QuerySync ------------------------------
(***************************************************************************)
(* Subscribed queries between a client and the server: connectQuery and    *)
(* disconnectQuery of the sync engine, CONNECT_QUERY, DISCONNECT_QUERY and *)
(* ENTITY_DATA, bufferEntityData and its flush on the server, and the one  *)
(* latest_server_timestamp with which a client connects a query again.     *)
(*                                                                         *)
(* Entities are whole values.  What keeps the server's views up to date is *)
(* the subject of Views: here UpdateViews brings all of them to the store. *)
(* A timestamp is a number of its own: equal and retrograde ones are the   *)
(* subject of Replica.                                                     *)
(***************************************************************************)
EXTENDS Naturals, Sequences, SequencesExt

CONSTANTS
  Ids, Values, None,
  Queries,          \* query hashes
  Filtered, Wanted, \* queries with a filter, and the values that pass it
  Listeners,        \* calls of subscribe, each used once
  MaxWrites,        \* bound: writes on the server
  MaxDrops,         \* bound: lost connections
  MaxCrashes,       \* bound: restarts of the client over its stored data
  MaxErrors,        \* bound: CONNECT_QUERYs that the server answers with ERROR
  Leaves,           \* a subscriber may unsubscribe
  ServerYields,     \* an await of the server's storage lets other tasks run
  ClientYields      \* an await of the client's storage does

ASSUME QuerySyncAssumption ==
  /\ Filtered \subseteq Queries /\ Wanted \subseteq Values
  /\ None \notin Values /\ None \notin Queries
  /\ {"same", "gone"} \intersect Values = {} /\ {"new", "gone"} \intersect Queries = {}
  /\ MaxWrites \in Nat /\ MaxDrops \in Nat /\ MaxCrashes \in Nat /\ MaxErrors \in Nat
  /\ Leaves \in BOOLEAN /\ ServerYields \in BOOLEAN /\ ClientYields \in BOOLEAN

VARIABLES
  store,       \* server: the entities
  at,          \* the timestamp of each, which outlives the entity
  now,         \* the clock
  lag,         \* a write or a connection that updateQueryViews has not run for
  conn,        \* the server's SyncConnection
  link,        \* the socket
  toServer, toClient,
  cache,       \* client, stored: confirmed entities
  checkpoint,  \* latest_server_timestamp; 0: none
  mounted,     \* client, in memory: this.queries
  serverReady,
  calls,       \* connectQuery calls that await
  handlers,    \* message handlers that await
  listener,    \* the query of a subscriber; "new" before, "gone" after
  failed,      \* subscribers that were called with an error
  used         \* counts for the bounds

server == <<store, at, now, lag, conn>>
stored == <<cache, checkpoint>>
memory == <<mounted, serverReady, calls, handlers, listener, failed>>
vars == <<server, link, toServer, toClient, stored, memory, used>>

-----------------------------------------------------------------------------
(* Data.                                                                   *)

Matches(q, v) == v # None /\ (q \in Filtered => v \in Wanted)

(* What a fetch of q gives.                                                *)
Answer(q, s) == [i \in Ids |-> IF Matches(q, s[i]) THEN s[i] ELSE None]

Empty == [i \in Ids |-> None]

(* A change of an entity: "same", "gone", or its new value.                *)
NoChanges == [i \in Ids |-> "same"]

Apply(c, chs) == [i \in Ids |-> CASE chs[i] = "same" -> c[i]
                                  [] chs[i] = "gone" -> None
                                  [] OTHER -> chs[i]]

(* mergeDBChanges and diffChanges.                                         *)
BadOver(chs, news) == [i \in Ids |-> IF chs[i] = "same" THEN news[i] ELSE chs[i]]
Over(chs, news) == [i \in Ids |-> IF news[i] = "same" THEN chs[i] ELSE news[i]]

Diff(old, new) == [i \in Ids |-> IF old[i] = new[i] THEN "same"
                                 ELSE IF new[i] = None THEN "gone" ELSE new[i]]

-----------------------------------------------------------------------------
(* The server's connection.  entities is the Map queryEntities, in its     *)
(* order; a query has an entry in queries while it is connected.  fresh:   *)
(* its listener has not been called; first: ~serverHasRespondedOnce.       *)

NewConn == [canSync |-> FALSE, queries |-> [q \in Queries |-> None], entities |-> <<>>,
            calling |-> {}, tasks |-> {}, changes |-> NoChanges, changed |-> {}]

Connected == {q \in Queries : conn.queries[q] # None}

Entry(q) == SelectInSeq(conn.entities, LAMBDA e : e.query = q)

WithEntities(q, of) ==
  IF Entry(q) = 0 THEN Append(conn.entities, [query |-> q, of |-> of])
  ELSE [conn.entities EXCEPT ![Entry(q)].of = of]

WithoutEntities(q) == RemoveAt(conn.entities, Entry(q))

(* The entities of all queries; the later query of the Map wins.           *)
Union(entities) ==
  [i \in Ids |->
     LET having == {k \in DOMAIN entities : entities[k].of[i] # None}
     IN  IF having = {} THEN None ELSE entities[Max(having)].of[i]]

(* A task of the server starts when nothing of another one can be waiting. *)
ServerFree ==
  /\ conn.calling = {}
  /\ ServerYields \/ (~lag /\ conn.tasks = {})

Write(i, v) ==
  /\ ServerFree /\ used.writes < MaxWrites
  /\ v # store[i]
  /\ store' = [store EXCEPT ![i] = v]
  /\ at' = [at EXCEPT ![i] = now]
  /\ now' = now + 1
  /\ lag' = TRUE
  /\ used' = [used EXCEPT !.writes = @ + 1]
  /\ UNCHANGED <<conn, link, toServer, toClient, stored, memory>>

(* updateQueryViews and broadcastToQuerySubscribers: what is to be called. *)
UpdateViews ==
  /\ lag /\ conn.calling = {}
  /\ lag' = FALSE
  /\ conn' = [conn EXCEPT !.calling =
       {q \in Connected : conn.queries[q].fresh
                          \/ conn.entities[Entry(q)].of # Answer(q, store)}]
  /\ UNCHANGED <<store, at, now, link, toServer, toClient, stored, memory, used>>

(* bufferEntityData up to its first await, which only the first results of *)
(* a query with a checkpoint come to.                                      *)
BufferEntityData(q) ==
  LET sub == conn.queries[q]
      results == Answer(q, store)
      entities == WithEntities(q, results)
  IN  /\ q \in conn.calling
      /\ conn' = IF sub.first /\ sub.state # None
                 THEN [conn EXCEPT !.calling = @ \ {q}, !.entities = entities,
                                   !.queries[q].fresh = FALSE,
                                   !.tasks = @ \union {[query |-> q, of |-> results,
                                       state |-> sub.state, orphan |-> FALSE]}]
                 ELSE [conn EXCEPT !.calling = @ \ {q}, !.entities = entities,
                                   !.queries[q] = [@ EXCEPT !.fresh = FALSE, !.first = FALSE],
                                   !.changes = Over(@, Diff(Union(conn.entities),
                                                            Union(entities))),
                                   !.changed = @ \union {q}]
      /\ UNCHANGED <<store, at, now, lag, link, toServer, toClient, stored, memory, used>>

(* The rest: an entity of the client that is in the results is sent if it  *)
(* is as new as the checkpoint; one that is not is sent as it is now.      *)
BadUnchanged(i, state) == TRUE
Unchanged(i, state) == at[i] < state.ts

SinceCheckpoint(t) ==
  [i \in Ids |->
     IF t.of[i] # None THEN IF i \in t.state.ids /\ Unchanged(i, t.state) THEN "same"
                            ELSE t.of[i]
     ELSE IF i \notin t.state.ids THEN "same"
     ELSE IF store[i] = None THEN "gone" ELSE store[i]]

Buffered(t) ==
  /\ t \in conn.tasks
  /\ conn.calling = {}
  /\ conn' = [conn EXCEPT !.tasks = @ \ {t},
                          !.queries[t.query] = IF t.orphan THEN @ ELSE [@ EXCEPT !.first = FALSE],
                          !.changes = Over(@, SinceCheckpoint(t)),
                          !.changed = @ \union {t.query}]
  /\ UNCHANGED <<store, at, now, lag, link, toServer, toClient, stored, memory, used>>

(* flushEntityDataToClient, every 10 ms.                                   *)
Data(chs, ts, qs) == [type |-> "ENTITY_DATA", changes |-> chs, timestamp |-> ts, for |-> qs]

FlushEntityData ==
  /\ ServerFree /\ conn.changed # {}
  /\ toClient' = Append(toClient, Data(conn.changes, now, conn.changed))
  /\ now' = now + 1
  /\ conn' = [conn EXCEPT !.changes = NoChanges, !.changed = {}]
  /\ UNCHANGED <<store, at, lag, link, toServer, stored, memory, used>>

ServerStart ==
  /\ ServerFree /\ link = "up" /\ ~conn.canSync
  /\ conn' = [conn EXCEPT !.canSync = TRUE]
  /\ toClient' = Append(toClient, [type |-> "READY"])
  /\ UNCHANGED <<store, at, now, lag, link, toServer, stored, memory, used>>

(* dispatchCommand: a message that comes before start has sent READY is    *)
(* refused with an ERROR that the client does not act on.                  *)
Received(type) == ServerFree /\ toServer # <<>> /\ Head(toServer).type = type

Orphaned(tasks, q) == {[t EXCEPT !.orphan = @ \/ t.query = q] : t \in tasks}

HandleConnectQuery ==
  /\ Received("CONNECT_QUERY")
  /\ LET m == Head(toServer)
     IN  conn' = IF ~conn.canSync THEN conn
                 ELSE [conn EXCEPT !.entities = WithEntities(m.query, Empty),
                                   !.queries[m.query] = [first |-> TRUE, fresh |-> TRUE,
                                                         state |-> m.state],
                                   !.tasks = Orphaned(@, m.query)]
  /\ lag' = (lag \/ conn.canSync)
  /\ toServer' = Tail(toServer)
  /\ UNCHANGED <<store, at, now, link, toClient, stored, memory, used>>

(* It throws before it subscribes.                                         *)
RefuseConnectQuery ==
  /\ Received("CONNECT_QUERY") /\ conn.canSync
  /\ used.errors < MaxErrors
  /\ LET q == Head(toServer).query
     IN  /\ conn' = [conn EXCEPT !.entities = WithEntities(q, Empty)]
         /\ toClient' = Append(toClient, [type |-> "ERROR", query |-> q])
  /\ used' = [used EXCEPT !.errors = @ + 1]
  /\ toServer' = Tail(toServer)
  /\ UNCHANGED <<store, at, now, lag, link, stored, memory>>

HandleDisconnectQuery ==
  /\ Received("DISCONNECT_QUERY")
  /\ LET q == Head(toServer).query
     IN  conn' = IF ~conn.canSync \/ q \notin Connected THEN conn
                 ELSE [conn EXCEPT !.queries[q] = None, !.entities = WithoutEntities(q),
                                   !.tasks = Orphaned(@, q)]
  /\ toServer' = Tail(toServer)
  /\ UNCHANGED <<store, at, now, lag, link, toClient, stored, memory, used>>

-----------------------------------------------------------------------------
(* The client.                                                             *)

ClientFree == ClientYields \/ (calls = <<>> /\ handlers = <<>>)

(* connectQuery after its checks: the checkpoint is read first.            *)
Call(q, l) == [query |-> q, timestamp |-> checkpoint, by |-> l, orphan |-> FALSE]

Subscribe(l, q) ==
  /\ ClientFree /\ listener[l] = "new"
  /\ listener' = [listener EXCEPT ![l] = q]
  /\ IF mounted[q] = None
     THEN /\ mounted' = [mounted EXCEPT ![q] = [syncState |-> "NOT_STARTED",
                                                hasSent |-> FALSE, subCount |-> 1]]
          /\ calls' = IF serverReady THEN Append(calls, Call(q, l)) ELSE calls
     ELSE /\ mounted' = [mounted EXCEPT ![q].subCount = @ + 1]
          /\ UNCHANGED calls
  /\ UNCHANGED <<server, link, toServer, toClient, stored, serverReady, handlers, failed, used>>

(* The rest of connectQuery: nothing is checked again.  An orphan is a     *)
(* call for an entry that this.queries does not hold any more.             *)
QueryState(c) ==
  IF c.timestamp = 0 THEN None
  ELSE [ts |-> c.timestamp, ids |-> {i \in Ids : Answer(c.query, cache)[i] # None}]

ConnectQuery(k) ==
  LET c == calls[k]
  IN  /\ k \in DOMAIN calls
      /\ calls' = RemoveAt(calls, k)
      /\ IF link = "up"
         THEN /\ toServer' = Append(toServer, [type |-> "CONNECT_QUERY", query |-> c.query,
                                               state |-> QueryState(c)])
              /\ mounted' = IF c.orphan THEN mounted
                            ELSE [mounted EXCEPT ![c.query] =
                                    [@ EXCEPT !.syncState = "IN_FLIGHT", !.hasSent = TRUE]]
         ELSE UNCHANGED <<toServer, mounted>>
      /\ UNCHANGED <<server, link, toClient, stored, serverReady, handlers, listener, failed, used>>

(* disconnectQuery.                                                        *)
BadDisconnect(q) ==
  /\ mounted' = [mounted EXCEPT ![q] = None]
  /\ UNCHANGED <<toServer, calls>>

Disconnect(q) ==
  /\ toServer' = IF mounted[q].hasSent /\ link = "up"
                 THEN Append(toServer, [type |-> "DISCONNECT_QUERY", query |-> q])
                 ELSE toServer
  /\ mounted' = [mounted EXCEPT ![q] = None]
  /\ calls' = [k \in DOMAIN calls |-> [calls[k] EXCEPT !.orphan = @ \/ calls[k].query = q]]

(* The function that subscribe returns, which is there when connectQuery   *)
(* has ended.  It looks for the entry of the query, whoever made it.       *)
Unsubscribe(l) ==
  LET q == listener[l]
  IN  /\ Leaves /\ ClientFree /\ q \in Queries
      /\ \A k \in DOMAIN calls : calls[k].by # l
      /\ listener' = [listener EXCEPT ![l] = "gone"]
      /\ CASE mounted[q] = None -> UNCHANGED <<toServer, mounted, calls>>
           [] mounted[q] # None /\ mounted[q].subCount = 1 -> Disconnect(q)
           [] OTHER -> /\ mounted' = [mounted EXCEPT ![q].subCount = @ - 1]
                       /\ UNCHANGED <<toServer, calls>>
      /\ UNCHANGED <<server, link, toClient, stored, serverReady, handlers, failed, used>>

Arrived(type) == ClientFree /\ toClient # <<>> /\ Head(toClient).type = type

(* READY: initializeSync awaits syncWrites, then connects every query.     *)
HandleReady ==
  /\ Arrived("READY")
  /\ toClient' = Tail(toClient)
  /\ serverReady' = TRUE
  /\ handlers' = IF serverReady THEN handlers ELSE Append(handlers, Head(toClient))
  /\ UNCHANGED <<server, link, toServer, stored, mounted, calls, listener, failed, used>>

BadUnsent == {q \in Queries : mounted[q] # None /\ mounted[q].syncState = "IN_FLIGHT"}
Unsent == {q \in Queries : mounted[q] # None /\ ~mounted[q].hasSent}

InitializeSync(k) ==
  /\ k \in DOMAIN handlers /\ handlers[k].type = "READY"
  /\ handlers' = RemoveAt(handlers, k)
  /\ calls' = IF serverReady
              THEN calls \o SetToSeq({Call(q, None) : q \in Unsent})
              ELSE calls
  /\ UNCHANGED <<server, link, toServer, toClient, stored, mounted, serverReady, listener,
                 failed, used>>

(* ENTITY_DATA: the changes are stored, then the checkpoint, and then the  *)
(* queries are fulfilled that are mounted by now.                          *)
HandleEntityData ==
  /\ Arrived("ENTITY_DATA")
  /\ toClient' = Tail(toClient)
  /\ cache' = Apply(cache, Head(toClient).changes)
  /\ handlers' = Append(handlers, Head(toClient))
  /\ UNCHANGED <<server, link, toServer, checkpoint, mounted, serverReady, calls, listener,
                 failed, used>>

EntityDataStored(k) ==
  /\ k \in DOMAIN handlers /\ handlers[k].type = "ENTITY_DATA"
  /\ handlers' = RemoveAt(handlers, k)
  /\ checkpoint' = handlers[k].timestamp
  /\ mounted' = [q \in Queries |->
       IF q \in handlers[k].for /\ mounted[q] # None
       THEN [mounted[q] EXCEPT !.syncState = "FULFILLED"] ELSE mounted[q]]
  /\ UNCHANGED <<server, link, toServer, toClient, cache, serverReady, calls, listener,
                 failed, used>>

(* ERROR for a query: its subscribers are told, and it is disconnected.    *)
HandleError ==
  /\ Arrived("ERROR")
  /\ toClient' = Tail(toClient)
  /\ LET q == Head(toClient).query
     IN  IF mounted[q] = None THEN UNCHANGED <<toServer, mounted, calls, failed>>
         ELSE /\ Disconnect(q)
              /\ failed' = failed \union {l \in Listeners : listener[l] = q}
  /\ UNCHANGED <<server, link, stored, serverReady, handlers, listener, used>>

-----------------------------------------------------------------------------
(* The connection.                                                         *)

(* resetSyncConnectionState.                                               *)
BadReset(qs) == [q \in Queries |-> IF qs[q] = None THEN None
                                   ELSE [qs[q] EXCEPT !.syncState = "NOT_STARTED"]]
Reset(qs) == [q \in Queries |-> IF qs[q] = None THEN None
                                ELSE [qs[q] EXCEPT !.hasSent = FALSE,
                                                   !.syncState = "NOT_STARTED"]]

(* The socket is lost, and onclose runs.                                   *)
Drop ==
  /\ ServerFree /\ ClientFree
  /\ link = "up" /\ used.drops < MaxDrops
  /\ link' = "down"
  /\ conn' = NewConn
  /\ toServer' = <<>> /\ toClient' = <<>>
  /\ serverReady' = FALSE
  /\ mounted' = Reset(mounted)
  /\ used' = [used EXCEPT !.drops = @ + 1]
  /\ UNCHANGED <<store, at, now, lag, stored, calls, handlers, listener, failed>>

Open ==
  /\ ClientFree /\ link = "down"
  /\ link' = "up"
  /\ UNCHANGED <<server, toServer, toClient, stored, memory, used>>

(* The client ends and starts again over what it stored.                   *)
Crash ==
  /\ ServerFree /\ used.crashes < MaxCrashes
  /\ link' = "down"
  /\ conn' = NewConn
  /\ toServer' = <<>> /\ toClient' = <<>>
  /\ serverReady' = FALSE
  /\ mounted' = [q \in Queries |-> None]
  /\ calls' = <<>> /\ handlers' = <<>>
  /\ listener' = [l \in Listeners |-> IF listener[l] = "new" THEN "new" ELSE "gone"]
  /\ used' = [used EXCEPT !.crashes = @ + 1]
  /\ UNCHANGED <<store, at, now, lag, stored, failed>>

-----------------------------------------------------------------------------
Init ==
  /\ store = [i \in Ids |-> None] /\ at = [i \in Ids |-> 0]
  /\ now = 1 /\ lag = FALSE
  /\ conn = NewConn
  /\ link = "down" /\ toServer = <<>> /\ toClient = <<>>
  /\ cache = Empty /\ checkpoint = 0
  /\ mounted = [q \in Queries |-> None]
  /\ serverReady = FALSE
  /\ calls = <<>> /\ handlers = <<>>
  /\ listener = [l \in Listeners |-> "new"]
  /\ failed = {}
  /\ used = [writes |-> 0, drops |-> 0, crashes |-> 0, errors |-> 0]

ServerStep ==
  \/ UpdateViews
  \/ \E q \in Queries : BufferEntityData(q)
  \/ \E t \in conn.tasks : Buffered(t)
  \/ FlushEntityData
  \/ ServerStart
  \/ HandleConnectQuery \/ HandleDisconnectQuery

ClientStep ==
  \/ \E k \in DOMAIN calls : ConnectQuery(k)
  \/ HandleReady \/ HandleEntityData \/ HandleError
  \/ \E k \in DOMAIN handlers : InitializeSync(k) \/ EntityDataStored(k)
  \/ Open

Next ==
  \/ ServerStep \/ RefuseConnectQuery
  \/ ClientStep
  \/ \E l \in Listeners : Unsubscribe(l) \/ \E q \in Queries : Subscribe(l, q)
  \/ \E i \in Ids, v \in Values \union {None} : Write(i, v)
  \/ Drop \/ Crash

(* What the event loops, the storages, the flush timer and the reconnect   *)
(* timer do by themselves.                                                 *)
Fairness ==
  /\ WF_vars(UpdateViews)
  /\ WF_vars(\E q \in Queries : BufferEntityData(q))
  /\ WF_vars(\E t \in conn.tasks : Buffered(t))
  /\ WF_vars(FlushEntityData)
  /\ WF_vars(ServerStart)
  /\ WF_vars(HandleConnectQuery \/ HandleDisconnectQuery)
  /\ WF_vars(\E k \in DOMAIN calls : ConnectQuery(k))
  /\ WF_vars(HandleReady \/ HandleEntityData \/ HandleError)
  /\ WF_vars(\E k \in DOMAIN handlers : InitializeSync(k) \/ EntityDataStored(k))
  /\ WF_vars(Open)

Spec == Init /\ [][Next]_vars /\ Fairness

-----------------------------------------------------------------------------
(* Properties.                                                             *)

Result == [Ids -> Values \union {None}]
Changes == [Ids -> Values \union {"same", "gone"}]
States == [ts : Nat, ids : SUBSET Ids]
State == States \union {None}
Subs == [first : BOOLEAN, fresh : BOOLEAN, state : State]
Conns == [canSync : BOOLEAN,
          queries : [Queries -> Subs \union {None}],
          entities : Seq([query : Queries, of : Result]),
          calling : SUBSET Queries,
          tasks : SUBSET [query : Queries, of : Result, state : State, orphan : BOOLEAN],
          changes : Changes, changed : SUBSET Queries]
Mounts == [syncState : {"NOT_STARTED", "IN_FLIGHT", "FULFILLED"},
           hasSent : BOOLEAN, subCount : Nat]

ASSUME NoneAssumption == None \notin States \union Subs \union Mounts

TypeOK ==
  /\ store \in Result /\ cache \in Result
  /\ at \in [Ids -> Nat] /\ now \in Nat /\ checkpoint \in Nat
  /\ lag \in BOOLEAN /\ serverReady \in BOOLEAN /\ link \in {"up", "down"}
  /\ conn \in Conns
  /\ mounted \in [Queries -> Mounts \union {None}]
  /\ listener \in [Listeners -> Queries \union {"new", "gone"}]
  /\ failed \in SUBSET Listeners

(* Between the server and the client no change of a query that the server  *)
(* has answered is lost: where the client's result differs from the        *)
(* server's, the entity is on its way.                                     *)
Served(q) ==
  /\ mounted[q] # None /\ q \in Connected /\ ~conn.queries[q].fresh
  /\ \A t \in conn.tasks : t.query # q

OnItsWay(i) ==
  \/ lag \/ conn.calling # {} \/ conn.tasks # {}
  \/ conn.changes[i] # "same"
  \/ \E k \in DOMAIN toClient : /\ toClient[k].type = "ENTITY_DATA"
                                /\ toClient[k].changes[i] # "same"

NothingSkipped ==
  \A q \in Queries, i \in Ids :
    Served(q) /\ Answer(q, cache)[i] # Answer(q, store)[i] => OnItsWay(i)

(* What the server takes the checkpoint for (sync-connection.ts:228-244):  *)
(* an entity that the client shows and that did not change since is as the *)
(* server has it.                                                          *)
CheckpointHonest ==
  \A q \in Queries, i \in Ids :
    Answer(q, cache)[i] # None /\ at[i] < checkpoint => cache[i] = store[i]

(* "Subscribing to a query will keep your local database in sync with the  *)
(* remote database" (docs/src/pages/client/subscribe.mdx:11): once writes  *)
(* and faults stop, a query that is mounted is fulfilled and shows what    *)
(* the server has.                                                         *)
InSync(q) == /\ mounted[q].syncState = "FULFILLED"
             /\ Answer(q, cache) = Answer(q, store)

QueriesSettle == <>[](\A q \in Queries : mounted[q] # None => InSync(q))

(* Whatever becomes of the others, a query that stays mounted is answered. *)
QueriesAnswered ==
  <>[](\A q \in Queries : mounted[q] # None => mounted[q].syncState = "FULFILLED")

(* The server is left with no query that the client gave up.               *)
NobodyLeft == <>[](\A q \in Connected : mounted[q] # None)

(* A subscriber that was not told of an error has its query mounted: what  *)
(* others do does not end its subscription.                                *)
SubscribersServed ==
  \A l \in Listeners : listener[l] \in Queries /\ l \notin failed => mounted[listener[l]] # None
=============================================================================
