------------------------------ MODULE Replica -------------------------------
(***************************************************************************)
(* The timestamps by which the server and its clients decide what is news: *)
(* the hybrid logical clocks, the metadata of entities with the highest    *)
(* timestamp, applyChangesWithTimestamp on both sides, CHANGES, its ACK    *)
(* and the timestamp of ENTITY_DATA, and the checkpoint with which a       *)
(* client connects again.                                                  *)
(*                                                                         *)
(* The server has two clocks, db.clock for messages and the clock of       *)
(* ServerEntityStore for transactions of its own (HTTP routes); neither    *)
(* is stored.  Every client has one query for the whole collection: which  *)
(* queries are sent and when is the subject of QuerySync, and what makes   *)
(* up the pushed changes that of Outbox.                                   *)
(***************************************************************************)
EXTENDS Changes, Naturals, Sequences

CONSTANTS
  Clients,
  MaxTime,     \* bound: milliseconds
  MaxWrites,   \* bound: changes that are pushed or written on the server
  MaxRestarts, \* bound: restarts of the server
  MaxDrops,    \* bound: lost connections
  Ties,        \* pushes, transactions and flushes may share a millisecond
  StepsBack,   \* Date.now() may go back at a restart
  ServerYields \* an await of the server's storage lets other tasks run

ASSUME ReplicaAssumption ==
  /\ {MaxTime, MaxWrites, MaxRestarts, MaxDrops} \subseteq Nat
  /\ {Ties, StepsBack, ServerYields} \subseteq BOOLEAN

VARIABLES
  time,       \* Date.now() of the server
  doing,      \* what the server did in this millisecond, or "none"
  clock,      \* db.clock
  storeClock, \* the clock of ServerEntityStore
  server,     \* entities and metadata of the server
  accepted,   \* history: what the changes that the server took add up to
  up,         \* clients with a connection
  view,       \* what the server holds as the results of each connection
  news,       \* subscriptionDataBuffer.changes of each
  wire,       \* messages of the server to each client
  client,     \* entities and metadata of each client's cache
  checkpoint, \* latest_server_timestamp of each client
  pushed,     \* the locked buffer of each client: what it sent last
  unsent,     \* clients that have it to send (again)
  used        \* counts for the bounds

vars == <<time, doing, clock, storeClock, server, accepted, up, view, news, wire,
          client, checkpoint, pushed, unsent, used>>

-----------------------------------------------------------------------------
(* Timestamps: physical and logical time.  Their third part, the name of   *)
(* the clock, is 'server' in both clocks.                                  *)
Timestamps == Nat \X Nat
MIN == <<0, 0>>
Less(s, t) == s[1] < t[1] \/ (s[1] = t[1] /\ s[2] < t[2])

(* HybridLogicalClock.next and current.                                    *)
BadTick(c) == IF time > c[1] THEN <<time, 0>> ELSE c
Ticked(c) == IF time > c[1] THEN <<time, 0>> ELSE <<c[1], c[2] + 1>>
BadNow == clock
Now == <<time, clock[2]>>

-----------------------------------------------------------------------------
(* A replica: an EntityStoreKV.  A change to it is an entry for each id    *)
(* (NoEntry: none).                                                        *)
NewReplica == [data |-> [i \in Ids |-> None], meta |-> [i \in Ids |-> MIN], highest |-> MIN]

(* EntityMetadataStore.applyChanges: the ids whose change is not pruned.   *)
(* An id without metadata takes any change, as one with the least would.   *)
Fresh(r, chs, ts) ==
  {i \in Ids : chs[i] # NoEntry /\ (Less(r.highest, ts) \/ Less(r.meta[i], ts))}

ApplyWithTimestamp(r, chs, ts) ==
  [data |-> [i \in Ids |-> IF i \in Fresh(r, chs, ts) THEN Applied(r.data[i], chs[i])
                           ELSE r.data[i]],
   meta |-> [i \in Ids |-> IF i \in Fresh(r, chs, ts) THEN ts ELSE r.meta[i]],
   highest |-> IF Less(r.highest, ts) THEN ts ELSE r.highest]

(* The changes of an entity as a transaction leaves them.                  *)
Sets(ch) == [set |-> ch, del |-> FALSE]
One(i, entry) == [NoEntries EXCEPT ![i] = entry]

(* What may be written over an entity: an insertion has every attribute.   *)
Writes(e) ==
  IF e = None THEN {Sets(c) : c \in {d \in Entity : DOMAIN d.fields = Attrs}}
  ELSE {Deletes} \union {Sets(c) : c \in Patch}

(* What differs for the client (diffChanges): whole entities.              *)
BadDiffers(old, new) ==
  [i \in Ids |-> IF old[i] = new[i] THEN NoEntry ELSE Sets(new[i])]
Differs(old, new) ==
  [i \in Ids |-> IF old[i] = new[i] THEN NoEntry
                 ELSE IF new[i] = None THEN Deletes ELSE Sets(new[i])]

MergedAll(l, u) == [i \in Ids |-> IF u[i] = NoEntry THEN l[i] ELSE Merged(l[i], u[i])]

(* What a query that is connected with a checkpoint is answered first.     *)
SinceCheckpoint(c) ==
  [i \in Ids |->
     IF server.data[i] = None
     THEN IF client[c].data[i] = None THEN NoEntry ELSE Deletes
     ELSE IF /\ client[c].data[i] # None
             /\ checkpoint[c] # MIN /\ Less(server.meta[i], checkpoint[c])
          THEN NoEntry ELSE Sets(server.data[i])]

-----------------------------------------------------------------------------
(* The server.                                                             *)

Tick ==
  /\ time < MaxTime
  /\ time' = time + 1
  /\ doing' = "none"
  /\ UNCHANGED <<clock, storeClock, server, accepted, up, view, news, wire, client,
                 checkpoint, pushed, unsent, used>>

(* A task that starts: nothing of another one is waiting.                  *)
Does(what) ==
  /\ ServerYields \/ \A c \in up : view[c] = server.data
  /\ Ties \/ doing \in {"none", what}
  /\ doing' = what

Takes(chs, ts) ==
  /\ server' = ApplyWithTimestamp(server, chs, ts)
  /\ accepted' = [i \in Ids |-> Applied(accepted[i], chs[i])]

(* A transaction of the server (an HTTP route, a webhook's reader).        *)
Transact(i, entry) ==
  /\ Does("transact") /\ used.writes < MaxWrites
  /\ entry \in Writes(server.data[i])
  /\ storeClock' = Ticked(storeClock)
  /\ Takes(One(i, entry), storeClock')
  /\ used' = [used EXCEPT !.writes = @ + 1]
  /\ UNCHANGED <<time, clock, up, view, news, wire, client, checkpoint, pushed, unsent>>

(* CHANGES of a client, and their acknowledgement.                         *)
HandleChanges(c) ==
  /\ c \in up \intersect unsent
  /\ Does("push")
  /\ clock' = Ticked(clock)
  /\ Takes(pushed[c], clock')
  /\ unsent' = unsent \ {c}
  /\ wire' = [wire EXCEPT ![c] = Append(@, [type |-> "CHANGES_ACK", timestamp |-> clock'])]
  /\ UNCHANGED <<time, storeClock, up, view, news, client, checkpoint, pushed, used>>

(* The views have come up with the store, and the listener of a connection *)
(* is called.                                                              *)
BufferEntityData(c) ==
  /\ c \in up
  /\ view[c] # server.data
  /\ view' = [view EXCEPT ![c] = server.data]
  /\ news' = [news EXCEPT ![c] = MergedAll(@, Differs(view[c], server.data))]
  /\ UNCHANGED <<time, doing, clock, storeClock, server, accepted, up, wire, client,
                 checkpoint, pushed, unsent, used>>

FlushEntityData(c) ==
  /\ c \in up /\ news[c] # NoEntries
  /\ Does("flush")
  /\ wire' = [wire EXCEPT ![c] =
       Append(@, [type |-> "ENTITY_DATA", changes |-> news[c], timestamp |-> Now])]
  /\ news' = [news EXCEPT ![c] = NoEntries]
  /\ UNCHANGED <<time, clock, storeClock, server, accepted, up, view, client, checkpoint,
                 pushed, unsent, used>>

-----------------------------------------------------------------------------
(* A client.  Its outbox sends one batch at a time.                        *)

Push(c, i, entry) ==
  /\ pushed[c] = NoEntries /\ used.writes < MaxWrites
  /\ entry \in Writes(client[c].data[i])
  /\ pushed' = [pushed EXCEPT ![c] = One(i, entry)]
  /\ unsent' = unsent \union {c}
  /\ used' = [used EXCEPT !.writes = @ + 1]
  /\ UNCHANGED <<time, doing, clock, storeClock, server, accepted, up, view, news, wire,
                 client, checkpoint>>

Arrived(c, type) == wire[c] # <<>> /\ Head(wire[c]).type = type

HandleAck(c) ==
  /\ Arrived(c, "CHANGES_ACK")
  /\ client' = [client EXCEPT ![c] =
                  ApplyWithTimestamp(@, pushed[c], Head(wire[c]).timestamp)]
  /\ pushed' = [pushed EXCEPT ![c] = NoEntries]
  /\ wire' = [wire EXCEPT ![c] = Tail(@)]
  /\ UNCHANGED <<time, doing, clock, storeClock, server, accepted, up, view, news,
                 checkpoint, unsent, used>>

HandleEntityData(c) ==
  /\ Arrived(c, "ENTITY_DATA")
  /\ LET m == Head(wire[c])
     IN  /\ client' = [client EXCEPT ![c] = ApplyWithTimestamp(@, m.changes, m.timestamp)]
         /\ checkpoint' = [checkpoint EXCEPT ![c] = m.timestamp]
  /\ wire' = [wire EXCEPT ![c] = Tail(@)]
  /\ UNCHANGED <<time, doing, clock, storeClock, server, accepted, up, view, news, pushed,
                 unsent, used>>

-----------------------------------------------------------------------------
(* Connections.                                                            *)

(* The clients of a set lose what is on the way to them; a batch whose     *)
(* acknowledgement is lost is to be sent again.                            *)
Lost(cs) ==
  /\ up' = up \ cs
  /\ news' = [c \in Clients |-> IF c \in cs THEN NoEntries ELSE news[c]]
  /\ wire' = [c \in Clients |-> IF c \in cs THEN <<>> ELSE wire[c]]
  /\ unsent' = unsent \union {c \in cs : pushed[c] # NoEntries}

Drop(c) ==
  /\ c \in up /\ used.drops < MaxDrops
  /\ Lost({c})
  /\ used' = [used EXCEPT !.drops = @ + 1]
  /\ UNCHANGED <<time, doing, clock, storeClock, server, accepted, view, client, checkpoint,
                 pushed>>

(* The server ends and starts again: its clocks start from nothing.        *)
Restart ==
  /\ used.restarts < MaxRestarts
  /\ Lost(Clients)
  /\ clock' = MIN /\ storeClock' = MIN
  /\ \E t \in 1..MaxTime : /\ t > time \/ StepsBack
                           /\ time' = t
  /\ doing' = "none"
  /\ used' = [used EXCEPT !.restarts = @ + 1]
  /\ UNCHANGED <<server, accepted, view, client, checkpoint, pushed>>

(* A client connects its query (again) with what it has.                   *)
Connect(c) ==
  /\ c \notin up
  /\ up' = up \union {c}
  /\ view' = [view EXCEPT ![c] = server.data]
  /\ news' = [news EXCEPT ![c] = SinceCheckpoint(c)]
  /\ UNCHANGED <<time, doing, clock, storeClock, server, accepted, wire, client, checkpoint,
                 pushed, unsent, used>>

-----------------------------------------------------------------------------
Init ==
  /\ time = 1 /\ doing = "none"
  /\ clock = MIN /\ storeClock = MIN
  /\ server = NewReplica /\ accepted = NewReplica.data
  /\ up = {}
  /\ view = [c \in Clients |-> NewReplica.data]
  /\ news = [c \in Clients |-> NoEntries]
  /\ wire = [c \in Clients |-> <<>>]
  /\ client = [c \in Clients |-> NewReplica]
  /\ checkpoint = [c \in Clients |-> MIN]
  /\ pushed = [c \in Clients |-> NoEntries]
  /\ unsent = {}
  /\ used = [writes |-> 0, restarts |-> 0, drops |-> 0]

Entries == {Deletes} \union {Sets(c) : c \in Entity \union Patch}

Next ==
  \/ Tick \/ Restart
  \/ \E i \in Ids, entry \in Entries : Transact(i, entry)
  \/ \E c \in Clients :
       \/ HandleChanges(c) \/ BufferEntityData(c) \/ FlushEntityData(c)
       \/ HandleAck(c) \/ HandleEntityData(c)
       \/ Drop(c) \/ Connect(c)
       \/ \E i \in Ids, entry \in Entries : Push(c, i, entry)

Spec == Init /\ [][Next]_vars

-----------------------------------------------------------------------------
(* Properties.                                                             *)

Data == [Ids -> Entity \union {None}]
Replicas == [data : Data, meta : [Ids -> Timestamps], highest : Timestamps]
News == [Ids -> Entry]
Messages == [type : {"CHANGES_ACK"}, timestamp : Timestamps]
            \union [type : {"ENTITY_DATA"}, timestamp : Timestamps, changes : News]

TypeOK ==
  /\ time \in Nat /\ doing \in {"none", "push", "transact", "flush"}
  /\ clock \in Timestamps /\ storeClock \in Timestamps
  /\ server \in Replicas /\ accepted \in Data
  /\ up \in SUBSET Clients
  /\ view \in [Clients -> Data] /\ news \in [Clients -> News]
  /\ wire \in [Clients -> Seq(Messages)]
  /\ client \in [Clients -> Replicas] /\ checkpoint \in [Clients -> Timestamps]
  /\ pushed \in [Clients -> News] /\ unsent \in SUBSET Clients
  /\ used \in [writes : Nat, restarts : Nat, drops : Nat]

(* What the server has taken and acknowledged is in its data: no change is *)
(* pruned after its writer was told that it is stored.                     *)
AckedApplied == server.data = accepted

(* When nothing is on its way to a connected client, its cache is what the *)
(* server has: no news was pruned, or taken for known by a checkpoint.     *)
Settled(c) ==
  /\ c \in up /\ wire[c] = <<>> /\ news[c] = NoEntries /\ pushed[c] = NoEntries
  /\ view[c] = server.data

Converged == \A c \in Clients : Settled(c) => client[c].data = server.data

(* What an entity of a client is stamped with, and what it will be, never  *)
(* goes back: the stamps that the server sends a client grow.              *)
StampsGrow ==
  \A c \in Clients :
    /\ \A k \in DOMAIN wire[c] : ~Less(wire[c][k].timestamp, checkpoint[c])
    /\ \A k, m \in DOMAIN wire[c] : k < m => ~Less(wire[c][m].timestamp, wire[c][k].timestamp)
=============================================================================
