------------------------------- MODULE Overlay -------------------------------
(***************************************************************************)
(* What the client's outbox means: how KVDoubleBuffer and its two          *)
(* DurableWriteBuffers merge sets and deletes, how a query lays them over  *)
(* the cache (overlay-change-buffer.ts), and how the cache and the server  *)
(* apply them when a push succeeds (EntityDataStore).                      *)
(*                                                                         *)
(* Outbox models the push protocol and its interleavings, with an entry    *)
(* reduced to the writes merged into it.  Here every handler is atomic,    *)
(* and the entry is what the code keeps: a set, a delete, or both.         *)
(***************************************************************************)
EXTENDS Changes, Naturals

CONSTANTS
  Reinserts,     \* the application inserts an id again that it deleted
  Upserts,       \* it inserts an id that is visible
  BlindWrites,   \* it updates or deletes an id that is not visible
  ResendRejects, \* the server rejects a batch that it applied before
  SharedValues   \* the store returns the objects it holds (memory), not copies

ASSUME UseAssumption == /\ Reinserts \in BOOLEAN /\ Upserts \in BOOLEAN
                        /\ BlindWrites \in BOOLEAN
                        /\ ResendRejects \in BOOLEAN /\ SharedValues \in BOOLEAN

VARIABLES
  cache,    \* the client's data store: what the server has confirmed
  buf,      \* the two write buffers
  active,   \* activeBufferIndex
  server,   \* the server's data store
  push,     \* the last CHANGES message: none, on its way, or applied
  batch,    \* what it carries
  held,     \* ids whose object in the cache a live query holds
  stored,   \* history: the server has applied what is locked
  used      \* history: ids that have existed

vars == <<cache, buf, active, server, push, batch, held, stored, used>>

Locked == buf[1 - active]
Unlocked == buf[active]

(* Definitions named Bad... are plausible bugs: each replaces the one it   *)
(* precedes to show that a property notices.                               *)
BadSwitched(b) == b + 1
Switched(b) == 1 - b

-----------------------------------------------------------------------------
(* Merging entries and applying them.                                      *)

(* DurableWriteBuffer.write: the delete first.  It takes the pending set   *)
(* with it, and leaves no delete where that set was an insertion.          *)
BadWritten(e, ch) ==
  [set |-> IF ch.del THEN ch.set ELSE Over(e.set, ch.set),
   del |-> e.del \/ (ch.del /\ e.set = None)]
Written(e, ch) ==
  [set |-> IF ch.del THEN ch.set ELSE Over(e.set, ch.set),
   del |-> e.del \/ (ch.del /\ ~IsInsert(e.set))]

(* applyOverlay, where a store that returns nothing gives None.            *)
ApplyOverlay(primary, del, update) ==
  IF update = None /\ ~del THEN primary
  ELSE IF primary = None \/ del THEN update
  ELSE Merge(primary, update)

(* overlayChangesOnCollection: entities of the collection scan, then sets  *)
(* that no entity took.                                                    *)
OnCollection(primary, ch) ==
  IF primary = None /\ ch.del THEN None ELSE ApplyOverlay(primary, ch.del, ch.set)

(* DBTransaction: the changes of a transaction before it commits.          *)
StagedInsert(ch, c) == [ch EXCEPT !.set = c]
StagedUpdate(ch, c) == [ch EXCEPT !.set = Over(@, c)]
StagedDelete(ch) == IF IsInsert(ch.set) THEN [ch EXCEPT !.set = None] ELSE Deletes

(* What the client answers for an id: to a query that scans the            *)
(* collection, and to a lookup of that id.  getChangesForEntity makes an   *)
(* empty object of two buffers that set nothing.                           *)
ScanRead(i) == OnCollection(cache[i], Merged(Locked[i], Unlocked[i]))

Nothing == [whole |-> FALSE, fields |-> <<>>]
PointRead(i) ==
  LET l == Locked[i]
      u == Unlocked[i]
      update == IF l = NoEntry /\ u = NoEntry THEN None
                ELSE Over(Over(Nothing, l.set), u.set)
  IN  ApplyOverlay(cache[i], l.del \/ u.del, update)

-----------------------------------------------------------------------------
(* The application, one operation a transaction (MCOverlay checks how a    *)
(* transaction folds several).  A live query then updates its result in    *)
(* place, and with it the cache, if that still has the same object.        *)
InPlace(i, c) ==
  IF i \in held /\ c # None THEN [cache EXCEPT ![i] = Merge(@, c)] ELSE cache

Transact(i, ch) ==
  /\ buf' = [buf EXCEPT ![active][i] = Written(@, ch)]
  /\ cache' = InPlace(i, ch.set)
  /\ held' = IF ch.del THEN held \ {i} ELSE held
  /\ UNCHANGED <<active, server, push, batch, stored>>

Insert(i, c) ==
  /\ IF ScanRead(i) # None THEN Upserts ELSE i \in used => Reinserts
  /\ Transact(i, StagedInsert(NoEntry, c))
  /\ used' = used \union {i}

Update(i, c) ==
  /\ ScanRead(i) # None \/ BlindWrites
  /\ Transact(i, StagedUpdate(NoEntry, c))
  /\ UNCHANGED used

Delete(i) ==
  /\ ScanRead(i) # None \/ BlindWrites
  /\ Transact(i, StagedDelete(NoEntry))
  /\ UNCHANGED used

(* clearPendingChangesForEntity and clearPendingChangesAll.                *)
ClearEntity(i) ==
  /\ buf' = [buf EXCEPT ![active][i] = NoEntry]
  /\ UNCHANGED <<cache, active, server, push, batch, held, stored, used>>

ClearAll ==
  /\ buf' = [buf EXCEPT ![active] = NoEntries]
  /\ UNCHANGED <<cache, active, server, push, batch, held, stored, used>>

(* A scan.  mergeDBChanges merges the unlocked set into the object of the  *)
(* locked one, which a store that shares its values still holds.           *)
Fetch ==
  /\ buf' = IF ~SharedValues THEN buf
            ELSE [buf EXCEPT ![1 - active] =
                    [i \in Ids |-> IF Locked[i].set = None \/ Unlocked[i].del THEN Locked[i]
                                   ELSE [Locked[i] EXCEPT !.set = Over(@, Unlocked[i].set)]]]
  /\ UNCHANGED <<cache, active, server, push, batch, held, stored, used>>

(* A live query fetches its first result: where the outbox changes nothing *)
(* that is the object of the cache, which a memory store does not copy.    *)
Subscribe(i) ==
  /\ cache[i] # None /\ Locked[i] = NoEntry /\ Unlocked[i] = NoEntry
  /\ held' = IF SharedValues THEN held \union {i} ELSE held
  /\ UNCHANGED <<cache, buf, active, server, push, batch, stored, used>>

-----------------------------------------------------------------------------
(* syncWrites: switch if nothing is locked, send what then is.             *)
SyncWrites ==
  LET lock == IF Locked = NoEntries THEN active ELSE 1 - active
  IN  /\ push = "none"
      /\ active' = Switched(lock)
      /\ batch' = buf[lock]
      /\ push' = IF buf[lock] = NoEntries THEN "none" ELSE "sent"
      /\ UNCHANGED <<cache, buf, server, held, stored, used>>

ServerApply ==
  /\ push = "sent"
  /\ push' = "applied"
  /\ server' = [i \in Ids |-> Applied(server[i], batch[i])]
  /\ stored' = TRUE
  /\ UNCHANGED <<cache, buf, active, batch, held, used>>

(* CHANGES_ACK: the locked buffer moves to the cache.  An insertion is     *)
(* stored as the object the buffer held; the changes of the outbox that    *)
(* applyChangesWithTimestamp then merges reach it where values are shared. *)
BadAcked(i) == Applied(cache[i], Merged(Locked[i], Unlocked[i]))
Acked(i) ==
  LET e == Applied(cache[i], Locked[i])
  IN  IF /\ SharedValues /\ IsInsert(Locked[i].set) /\ ~Unlocked[i].del
         /\ cache[i] = None \/ Locked[i].del
      THEN Over(e, Unlocked[i].set) ELSE e

Ack ==
  /\ push = "applied"
  /\ push' = "none"
  /\ batch' = NoEntries
  /\ cache' = [i \in Ids |-> Acked(i)]
  /\ buf' = [buf EXCEPT ![1 - active] = NoEntries]
  /\ held' = {i \in held : Locked[i] = NoEntry}
  /\ stored' = FALSE
  /\ UNCHANGED <<active, server, used>>

(* ERROR: the unlocked changes are written over the locked ones, and the   *)
(* buffers switch.                                                         *)
Reject ==
  /\ push = "sent"
  /\ stored => ResendRejects
  /\ push' = "none"
  /\ batch' = NoEntries
  /\ buf' = [buf EXCEPT ![1 - active] = [i \in Ids |-> Written(Locked[i], Unlocked[i])],
                        ![active] = NoEntries]
  /\ active' = Switched(active)
  /\ stored' = FALSE
  /\ UNCHANGED <<cache, server, held, used>>

(* The connection is lost with the message or its answer; syncWrites sends *)
(* the locked buffer again.                                                *)
Drop ==
  /\ push # "none"
  /\ push' = "none"
  /\ batch' = NoEntries
  /\ UNCHANGED <<cache, buf, active, server, held, stored, used>>

-----------------------------------------------------------------------------
Init ==
  /\ cache \in [Ids -> Entity \union {None}]
  /\ server = cache
  /\ buf = [b \in 0..1 |-> NoEntries]
  /\ active = 0
  /\ push = "none"
  /\ batch = NoEntries
  /\ held = {}
  /\ stored = FALSE
  /\ used = {i \in Ids : cache[i] # None}

Next ==
  \/ \E i \in Ids :
       \/ \E c \in Entity : Insert(i, c)
       \/ \E c \in Patch : Update(i, c)
       \/ Delete(i)
       \/ ClearEntity(i)
       \/ Subscribe(i)
  \/ ClearAll
  \/ Fetch
  \/ SyncWrites \/ ServerApply \/ Ack \/ Reject \/ Drop

Spec == Init /\ [][Next]_vars

-----------------------------------------------------------------------------
(* Properties.                                                             *)

TypeOK ==
  /\ cache \in [Ids -> Entity \union {None}]
  /\ server \in [Ids -> Entity \union {None}]
  /\ buf \in [0..1 -> [Ids -> Entry]]
  /\ active \in 0..1
  /\ push \in {"none", "sent", "applied"}
  /\ batch \in [Ids -> Entry]
  /\ held \in SUBSET (IF SharedValues THEN Ids ELSE {})
  /\ stored \in BOOLEAN
  /\ used \in SUBSET Ids

(* The store implements Snapshots: what queries show is exactly what the   *)
(* application wrote over what is being pushed over what is confirmed, and *)
(* what a push gives the server is what the client shows for it.           *)
VisibleLayer == [i \in Ids |-> ScanRead(i)]
PushedLayer == [i \in Ids |-> OnCollection(cache[i], Locked[i])]

Layers == INSTANCE Snapshots WITH
  visible <- VisibleLayer,
  pushed <- PushedLayer,
  confirmed <- cache,
  server <- server

ImplementsSnapshots == Layers!Spec

(* The cache is a copy of what the server has confirmed: it equals the     *)
(* server's data, up to the batch that was applied and not yet acked,      *)
(* however often that batch is sent again and whatever the application     *)
(* does to its outbox meanwhile.                                           *)
CacheTracksServer ==
  \A i \in Ids : server[i] = IF stored THEN Applied(cache[i], Locked[i]) ELSE cache[i]

(* A query that scans the collection shows an insert, an update or a       *)
(* delete as soon as it is made, wherever the push of earlier writes       *)
(* stands and whatever else was read.                                      *)
WritesShow ==
  [][\A i \in Ids :
       /\ \A c \in Entity : Insert(i, c) => ScanRead(i)' = c
       /\ \A c \in Patch : Update(i, c) => ScanRead(i)' = Merge(ScanRead(i), c)
       /\ Delete(i) => ScanRead(i)' = None]_vars

(* "delete() deletes a record from a collection" (client/delete.mdx): also *)
(* one that insert() has upserted before.                                  *)
DeleteHides == [][\A i \in Ids : Delete(i) => ScanRead(i)' = None]_vars

(* "insert() inserts a new record into a collection" (client/insert.mdx):  *)
(* also one whose id was deleted before.                                   *)
InsertShows ==
  [][\A i \in Ids : \A c \in Entity : Insert(i, c) => ScanRead(i)' # None]_vars

(* "rolled back outbox changes will correctly update in subscriptions"     *)
(* (integration-tests/tests/outbox.spec.ts): when nothing is being pushed, *)
(* an entity whose pending changes are cleared shows what is confirmed.    *)
ClearRestores ==
  [][\A i \in Ids : ClearEntity(i) /\ Locked[i] = NoEntry => ScanRead(i)' = server[i]]_vars

(* A lookup by id, which update() starts with, finds an entity exactly if  *)
(* a scan shows it: after a delete it finds none (db/test/db.spec.ts).     *)
LookupAgrees == \A i \in Ids : ScanRead(i) = None <=> PointRead(i) = None
=============================================================================
