---------------------------- MODULE OverlayProofs ----------------------------
(***************************************************************************)
(* Theorems about Overlay, for every set of ids, attributes and values: the *)
(* client's cache stays a copy of the server's data, and the two buffers   *)
(* of sets and deletes implement the layers of Snapshots.                  *)
(***************************************************************************)
EXTENDS Overlay, TLAPS

-----------------------------------------------------------------------------
(* What the functions of Changes return.                                   *)

Stored == Entity \union {None}

(* deepObjectAssign of two changes is a change, whole if one of them is.    *)
LEMMA MergeType ==
  ASSUME NEW c \in Change, NEW d \in Change
  PROVE  Merge(c, d) \in Change /\ (Merge(c, d).whole <=> c.whole \/ d.whole)
<1> DEFINE D == DOMAIN c.fields \union DOMAIN d.fields
           f == [x \in D |-> IF x \in DOMAIN d.fields THEN d.fields[x] ELSE c.fields[x]]
<1>1. PICK C \in SUBSET Attrs : c.fields \in [C -> Values]
  BY DEF Change, Fields
<1>2. PICK E \in SUBSET Attrs : d.fields \in [E -> Values]
  BY DEF Change, Fields
<1>3. D \in SUBSET Attrs /\ f \in [D -> Values]
  BY <1>1, <1>2
<1>4. f \in Fields
  BY <1>3 DEF Fields
<1>5. c.whole \in BOOLEAN /\ d.whole \in BOOLEAN
  BY DEF Change
<1> QED BY <1>4, <1>5 DEF Merge, Change

(* Assigning the same change twice assigns it once.                        *)
LEMMA MergeTwice ==
  ASSUME NEW c \in Change, NEW d \in Change
  PROVE  Merge(Merge(c, d), d) = Merge(c, d) /\ Merge(d, d) = d
<1>1. PICK C \in SUBSET Attrs : c.fields \in [C -> Values]
  BY DEF Change, Fields
<1>2. PICK E \in SUBSET Attrs : d.fields \in [E -> Values]
  BY DEF Change, Fields
<1>3. DOMAIN c.fields = C /\ DOMAIN d.fields = E
  BY <1>1, <1>2
<1> DEFINE f == [x \in C \union E |-> IF x \in E THEN d.fields[x] ELSE c.fields[x]]
<1>4. Merge(c, d) = [whole |-> c.whole \/ d.whole, fields |-> f]
  BY <1>3 DEF Merge
<1>5. [x \in (C \union E) \union E |-> IF x \in E THEN d.fields[x] ELSE f[x]] = f
  OBVIOUS
<1>6. Merge(Merge(c, d), d)
        = [whole |-> (c.whole \/ d.whole) \/ d.whole,
           fields |-> [x \in (C \union E) \union E |-> IF x \in E THEN d.fields[x] ELSE f[x]]]
  BY <1>3, <1>4 DEF Merge
<1>7. Merge(Merge(c, d), d) = Merge(c, d)
  <2>1. c.whole \in BOOLEAN /\ d.whole \in BOOLEAN
    BY DEF Change
  <2> QED BY <1>4, <1>5, <1>6, <2>1
<1>8. Merge(d, d) = d
  <2>1. [x \in E \union E |-> IF x \in E THEN d.fields[x] ELSE d.fields[x]] = d.fields
    BY <1>2
  <2>2. Merge(d, d) = [whole |-> d.whole \/ d.whole, fields |-> d.fields]
    BY <1>3, <2>1 DEF Merge
  <2>3. d.whole \in BOOLEAN /\ d = [whole |-> d.whole, fields |-> d.fields]
    BY DEF Change
  <2> QED BY <2>2, <2>3
<1> QED BY <1>7, <1>8

LEMMA OverType ==
  ASSUME NEW c \in Change \union {None}, NEW d \in Change \union {None}
  PROVE  Over(c, d) \in Change \union {None}
BY MergeType DEF Over

LEMMA AppliedType ==
  ASSUME NEW e \in Stored, NEW ch \in Entry
  PROVE  Applied(e, ch) \in Stored
<1>1. ch.set \in Change \union {None}
  BY DEF Entry
<1>2. CASE ch.set = None
  BY <1>2 DEF Applied, Stored
<1>3. CASE ch.set # None
  <2>1. ASSUME NEW c \in Entity PROVE Merge(c, ch.set) \in Entity
    BY <1>1, <1>3, MergeType DEF Entity
  <2>2. IsInsert(ch.set) => ch.set \in Entity
    BY <1>1, <1>3 DEF IsInsert, Entity
  <2> QED BY <1>3, <2>1, <2>2, NoneAssumption DEF Applied, Over, Stored, Entity
<1> QED BY <1>2, <1>3

(* The server may be sent a batch again whose answer was lost.             *)
LEMMA AppliedTwice ==
  ASSUME NEW e \in Stored, NEW ch \in Entry
  PROVE  Applied(Applied(e, ch), ch) = Applied(e, ch)
<1>1. ch.set \in Change \union {None}
  BY DEF Entry
<1>2. CASE ch.set = None
  BY <1>2 DEF Applied
<1>3. CASE ch.set # None /\ (ch.del \/ e = None)
  BY <1>1, <1>3, MergeTwice, NoneAssumption DEF Applied, Over
<1>4. CASE ch.set # None /\ ~ch.del /\ e # None
  <2>1. e \in Change
    BY <1>4 DEF Stored, Entity
  <2>2. Merge(e, ch.set) \in Change /\ Merge(Merge(e, ch.set), ch.set) = Merge(e, ch.set)
    BY <1>1, <1>4, <2>1, MergeType, MergeTwice
  <2> QED BY <1>4, <2>2, NoneAssumption DEF Applied, Over
<1> QED BY <1>2, <1>3, <1>4

LEMMA NoEntriesType == NoEntry \in Entry /\ Deletes \in Entry /\ NoEntries \in [Ids -> Entry]
BY DEF NoEntry, Deletes, NoEntries, Entry

LEMMA WrittenType ==
  ASSUME NEW e \in Entry, NEW ch \in Entry
  PROVE  Written(e, ch) \in Entry
<1>1. e.set \in Change \union {None} /\ ch.set \in Change \union {None}
      /\ e.del \in BOOLEAN /\ ch.del \in BOOLEAN
  BY DEF Entry
<1>2. Over(e.set, ch.set) \in Change \union {None}
  BY <1>1, OverType
<1>3. (e.del \/ (ch.del /\ ~IsInsert(e.set))) \in BOOLEAN
  OBVIOUS
<1> QED BY <1>1, <1>2, <1>3 DEF Written, Entry

-----------------------------------------------------------------------------
(* The cache is a copy of the server's data.                               *)

(* A store whose scans return copies, and a server that does not reject a  *)
(* batch it has applied.                                                   *)
Copies == ~SharedValues /\ ~ResendRejects

(* A push is about what is locked, and something is.                       *)
PushIsLocked ==
  /\ push # "none" => batch = Locked /\ Locked # NoEntries
  /\ push = "applied" => stored
  /\ stored => Locked # NoEntries

CInv == TypeOK /\ CacheTracksServer /\ PushIsLocked

(* A step that changes only what is not locked disturbs none of it.        *)
LEMMA WriteKeeps ==
  ASSUME CInv, NEW x \in [Ids -> Entry],
         buf' = [buf EXCEPT ![active] = x], used' \in SUBSET Ids,
         UNCHANGED <<cache, active, server, push, batch, held, stored>>
  PROVE  CInv' /\ Locked' = Locked /\ Unlocked' = x
<1>1. active \in 0..1 /\ 1 - active \in 0..1 /\ 1 - active # active
      /\ buf \in [0..1 -> [Ids -> Entry]]
  BY DEF CInv, TypeOK
<1>2. buf' \in [0..1 -> [Ids -> Entry]] /\ buf'[active] = x /\ buf'[1 - active] = buf[1 - active]
  BY <1>1
<1>3. Locked' = Locked /\ Unlocked' = x
  BY <1>2 DEF Locked, Unlocked
<1>4. TypeOK'
  BY <1>2 DEF CInv, TypeOK
<1>5. CacheTracksServer' /\ PushIsLocked'
  BY <1>3 DEF CInv, CacheTracksServer, PushIsLocked
<1> QED BY <1>3, <1>4, <1>5 DEF CInv

(* The local changes a step of the application writes, by id.              *)
LEMMA TransactKeeps ==
  ASSUME Copies, CInv, NEW i \in Ids, NEW ch \in Entry, Transact(i, ch), used' \in SUBSET Ids
  PROVE  /\ CInv' /\ cache' = cache
         /\ Locked' = Locked
         /\ Unlocked' = [Unlocked EXCEPT ![i] = Written(@, ch)]
<1> DEFINE x == [Unlocked EXCEPT ![i] = Written(@, ch)]
<1>1. active \in 0..1 /\ buf \in [0..1 -> [Ids -> Entry]]
  BY DEF CInv, TypeOK
<1>2. Unlocked \in [Ids -> Entry]
  BY <1>1 DEF Unlocked
<1>3. Written(Unlocked[i], ch) \in Entry
  BY <1>2, WrittenType
<1>4. x \in [Ids -> Entry]
  BY <1>2, <1>3
<1>5. buf' = [buf EXCEPT ![active] = x]
  BY <1>1 DEF Transact, Unlocked
<1>6. held = {}
  BY DEF CInv, TypeOK, Copies
<1>7. cache' = cache /\ held' = held
  BY <1>6 DEF Transact, InPlace
<1> QED BY <1>4, <1>5, <1>7, WriteKeeps DEF Transact

LEMMA CInit == Init => CInv
<1> SUFFICES ASSUME Init PROVE CInv
  OBVIOUS
<1>1. TypeOK
  <2>1. buf \in [0..1 -> [Ids -> Entry]] /\ batch \in [Ids -> Entry]
    BY NoEntriesType DEF Init
  <2>2. active \in 0..1
    BY DEF Init
  <2>3. used \in SUBSET Ids /\ cache \in [Ids -> Stored] /\ server \in [Ids -> Stored]
    BY DEF Init, Stored
  <2> QED BY <2>1, <2>2, <2>3 DEF Init, TypeOK, Stored
<1>2. CacheTracksServer /\ PushIsLocked
  BY DEF Init, CacheTracksServer, PushIsLocked
<1> QED BY <1>1, <1>2 DEF CInv

LEMMA CStep ==
  ASSUME Copies, CInv, [Next]_vars
  PROVE  CInv'
<1>1. /\ active \in 0..1 /\ 1 - active \in 0..1 /\ 1 - active # active
      /\ 1 - (1 - active) = active
      /\ buf \in [0..1 -> [Ids -> Entry]]
      /\ Locked \in [Ids -> Entry] /\ Unlocked \in [Ids -> Entry]
      /\ cache \in [Ids -> Stored] /\ server \in [Ids -> Stored]
  BY DEF CInv, TypeOK, Locked, Unlocked, Stored
<1>2. used \in SUBSET Ids
  BY DEF CInv, TypeOK
<1>3. ASSUME NEW i \in Ids, NEW c \in Entity, Insert(i, c) PROVE CInv'
  <2>1. StagedInsert(NoEntry, c) \in Entry
    BY DEF StagedInsert, NoEntry, Entry, Entity
  <2> QED BY <1>2, <1>3, <2>1, TransactKeeps DEF Insert
<1>4. ASSUME NEW i \in Ids, NEW c \in Patch, Update(i, c) PROVE CInv'
  <2>1. StagedUpdate(NoEntry, c) \in Entry
    BY OverType DEF StagedUpdate, NoEntry, Entry, Patch
  <2> QED BY <1>2, <1>4, <2>1, TransactKeeps DEF Update
<1>5. ASSUME NEW i \in Ids, Delete(i) PROVE CInv'
  <2>1. StagedDelete(NoEntry) \in Entry
    BY NoEntriesType DEF StagedDelete, NoEntry, IsInsert
  <2> QED BY <1>2, <1>5, <2>1, TransactKeeps DEF Delete
<1>6. ASSUME NEW i \in Ids, ClearEntity(i) PROVE CInv'
  <2> DEFINE x == [Unlocked EXCEPT ![i] = NoEntry]
  <2>1. x \in [Ids -> Entry] /\ buf' = [buf EXCEPT ![active] = x]
    BY <1>1, <1>6, NoEntriesType DEF ClearEntity, Unlocked
  <2> QED BY <1>2, <1>6, <2>1, WriteKeeps DEF ClearEntity
<1>7. ASSUME ClearAll PROVE CInv'
  BY <1>2, <1>7, NoEntriesType, WriteKeeps DEF ClearAll
<1>8. ASSUME Fetch PROVE CInv'
  BY <1>8 DEF Fetch, Copies, CInv, TypeOK, CacheTracksServer, PushIsLocked, Locked
<1>9. ASSUME SyncWrites PROVE CInv'
  <2>1. push = "none"
    BY <1>9 DEF SyncWrites
  <2>2. CASE Locked = NoEntries
    <3>1. active' = 1 - active /\ batch' = Unlocked /\ ~stored
          /\ push' = IF Unlocked = NoEntries THEN "none" ELSE "sent"
      BY <1>1, <1>9, <2>2 DEF SyncWrites, Switched, Unlocked, CInv, PushIsLocked
    <3>2. Locked' = Unlocked
      BY <1>1, <1>9, <3>1 DEF SyncWrites, Locked, Unlocked
    <3>3. TypeOK'
      BY <1>1, <1>9, <3>1 DEF SyncWrites, CInv, TypeOK
    <3>4. CacheTracksServer' /\ PushIsLocked'
      BY <1>9, <3>1, <3>2 DEF SyncWrites, CInv, CacheTracksServer, PushIsLocked
    <3> QED BY <3>3, <3>4 DEF CInv
  <2>3. CASE Locked # NoEntries
    <3>1. active' = active /\ batch' = Locked /\ push' = "sent"
      BY <1>1, <1>9, <2>3 DEF SyncWrites, Switched, Locked
    <3>2. Locked' = Locked
      BY <1>9, <3>1 DEF SyncWrites, Locked
    <3>3. TypeOK'
      BY <1>1, <1>9, <3>1 DEF SyncWrites, CInv, TypeOK
    <3>4. CacheTracksServer' /\ PushIsLocked'
      BY <1>9, <2>3, <3>1, <3>2 DEF SyncWrites, CInv, CacheTracksServer, PushIsLocked
    <3> QED BY <3>3, <3>4 DEF CInv
  <2> QED BY <2>2, <2>3
<1>10. ASSUME ServerApply PROVE CInv'
  <2>1. batch = Locked /\ Locked # NoEntries /\ Locked' = Locked
    BY <1>10 DEF ServerApply, CInv, PushIsLocked, Locked
  <2>2. \A i \in Ids : server'[i] = Applied(server[i], Locked[i])
    BY <1>10, <2>1 DEF ServerApply
  <2>3. \A i \in Ids : Applied(server[i], Locked[i]) \in Stored
    BY <1>1, AppliedType
  <2>4. \A i \in Ids : server'[i] = Applied(cache[i], Locked[i])
    BY <1>1, <2>2, AppliedTwice DEF CInv, CacheTracksServer
  <2>5. TypeOK'
    BY <1>10, <2>1, <2>3 DEF ServerApply, CInv, TypeOK, Stored
  <2>6. CacheTracksServer' /\ PushIsLocked'
    BY <1>10, <2>1, <2>4 DEF ServerApply, CacheTracksServer, PushIsLocked
  <2> QED BY <2>5, <2>6 DEF CInv
<1>11. ASSUME Ack PROVE CInv'
  <2>1. stored
    BY <1>11 DEF Ack, CInv, PushIsLocked
  <2>2. \A i \in Ids : Acked(i) = Applied(cache[i], Locked[i])
    BY DEF Acked, Copies
  <2>3. \A i \in Ids : Acked(i) \in Stored /\ server[i] = Acked(i)
    BY <1>1, <2>1, <2>2, AppliedType DEF CInv, CacheTracksServer
  <2>4. buf' \in [0..1 -> [Ids -> Entry]]
    BY <1>1, <1>11, NoEntriesType DEF Ack
  <2>5. TypeOK'
    BY <1>11, <2>3, <2>4, NoEntriesType DEF Ack, CInv, TypeOK, Stored
  <2>6. CacheTracksServer' /\ PushIsLocked'
    BY <1>11, <2>3 DEF Ack, CacheTracksServer, PushIsLocked
  <2> QED BY <2>5, <2>6 DEF CInv
<1>12. ASSUME Reject PROVE CInv'
  <2> DEFINE x == [i \in Ids |-> Written(Locked[i], Unlocked[i])]
  <2>1. ~stored /\ ~stored'
    BY <1>12 DEF Reject, Copies
  <2>2. x \in [Ids -> Entry]
    BY <1>1, WrittenType
  <2>3. buf' \in [0..1 -> [Ids -> Entry]]
    BY <1>1, <1>12, <2>2, NoEntriesType DEF Reject
  <2>4. TypeOK'
    BY <1>1, <1>12, <2>3, NoEntriesType DEF Reject, Switched, CInv, TypeOK
  <2>5. CacheTracksServer' /\ PushIsLocked'
    BY <1>12, <2>1 DEF Reject, CInv, CacheTracksServer, PushIsLocked
  <2> QED BY <2>4, <2>5 DEF CInv
<1>13. ASSUME Drop PROVE CInv'
  <2>1. Locked' = Locked
    BY <1>13 DEF Drop, Locked
  <2>2. TypeOK'
    BY <1>13, NoEntriesType DEF Drop, CInv, TypeOK
  <2>3. CacheTracksServer' /\ PushIsLocked'
    BY <1>13, <2>1 DEF Drop, CInv, CacheTracksServer, PushIsLocked
  <2> QED BY <2>2, <2>3 DEF CInv
<1>14. ASSUME NEW i \in Ids, Subscribe(i) PROVE CInv'
  BY <1>14 DEF Subscribe, Copies, CInv, TypeOK, CacheTracksServer, PushIsLocked, Locked
<1>15. ASSUME UNCHANGED vars PROVE CInv'
  BY <1>15 DEF vars, CInv, TypeOK, CacheTracksServer, PushIsLocked, Locked
<1> QED
  BY <1>3, <1>4, <1>5, <1>6, <1>7, <1>8, <1>9, <1>10, <1>11, <1>12, <1>13, <1>14, <1>15
  DEF Next

(* Whatever the application does with its outbox, and however often a push *)
(* is lost and sent again, the client's cache is a copy of the server's    *)
(* data, up to the locked batch that was applied and not yet acknowledged. *)
THEOREM AlwaysCacheTracksServer ==
  ASSUME Copies
  PROVE  Spec => []CacheTracksServer
<1>1. CInv /\ [Next]_vars => CInv'
  BY CStep
<1>2. CInv => CacheTracksServer
  BY DEF CInv
<1> QED BY CInit, <1>1, <1>2, PTL DEF Spec

(* The state keeps its type, whatever the application does.               *)
THEOREM TypeCorrect ==
  ASSUME Copies
  PROVE  Spec => []TypeOK
<1>1. CInv /\ [Next]_vars => CInv'
  BY CStep
<1>2. CInv => TypeOK
  BY DEF CInv
<1> QED BY CInit, <1>1, <1>2, PTL DEF Spec

-----------------------------------------------------------------------------
(* The buffers implement the layers of Snapshots, for an application that  *)
(* inserts new ids and updates and deletes what a scan shows.              *)

FreshUse == Copies /\ ~Reinserts /\ ~Upserts /\ ~BlindWrites

(* What a buffer holds for an id, over the entity below it: nothing, an    *)
(* insertion where there was none, or an update or a delete of one.        *)
Fits(base, e) ==
  \/ e = NoEntry
  \/ base = None /\ e.set \in Entity /\ e.del = FALSE
  \/ base # None /\ e.set \in Patch /\ e.del = FALSE
  \/ base # None /\ e = Deletes

(* Nothing is written over an entity whose delete is locked, since its id  *)
(* is not used again.                                                      *)
LayersFit ==
  \A i \in Ids : /\ Fits(cache[i], Locked[i])
                 /\ Fits(PushedLayer[i], Unlocked[i])
                 /\ Locked[i] = Deletes => Unlocked[i] = NoEntry

NewIdsAreNew ==
  \A i \in Ids \ used : cache[i] = None /\ Locked[i] = NoEntry /\ Unlocked[i] = NoEntry

IInv == CInv /\ LayersFit /\ NewIdsAreNew

(* Merging is associative, and patches merge into patches.                 *)
LEMMA MergeAssociative ==
  ASSUME NEW b \in Change, NEW c \in Change, NEW d \in Change
  PROVE  Merge(b, Merge(c, d)) = Merge(Merge(b, c), d)
<1>1. PICK B \in SUBSET Attrs : b.fields \in [B -> Values]
  BY DEF Change, Fields
<1>2. PICK C \in SUBSET Attrs : c.fields \in [C -> Values]
  BY DEF Change, Fields
<1>3. PICK D \in SUBSET Attrs : d.fields \in [D -> Values]
  BY DEF Change, Fields
<1>4. DOMAIN b.fields = B /\ DOMAIN c.fields = C /\ DOMAIN d.fields = D
  BY <1>1, <1>2, <1>3
<1> DEFINE cd == [x \in C \union D |-> IF x \in D THEN d.fields[x] ELSE c.fields[x]]
           bc == [x \in B \union C |-> IF x \in C THEN c.fields[x] ELSE b.fields[x]]
           left == [x \in B \union (C \union D) |-> IF x \in C \union D THEN cd[x] ELSE b.fields[x]]
           right == [x \in (B \union C) \union D |-> IF x \in D THEN d.fields[x] ELSE bc[x]]
<1>5. left = right
  OBVIOUS
<1>6. Merge(c, d) = [whole |-> c.whole \/ d.whole, fields |-> cd]
      /\ Merge(b, c) = [whole |-> b.whole \/ c.whole, fields |-> bc]
  BY <1>4 DEF Merge
<1>7. Merge(b, Merge(c, d)) = [whole |-> b.whole \/ (c.whole \/ d.whole), fields |-> left]
  BY <1>4, <1>6 DEF Merge
<1>8. Merge(Merge(b, c), d) = [whole |-> (b.whole \/ c.whole) \/ d.whole, fields |-> right]
  BY <1>4, <1>6 DEF Merge
<1>9. b.whole \in BOOLEAN /\ c.whole \in BOOLEAN /\ d.whole \in BOOLEAN
  BY DEF Change
<1>10. (b.whole \/ (c.whole \/ d.whole)) = ((b.whole \/ c.whole) \/ d.whole)
  BY <1>9
<1> HIDE DEF left, right
<1> QED BY <1>5, <1>7, <1>8, <1>10

LEMMA PatchMerge ==
  ASSUME NEW c \in Patch, NEW d \in Patch
  PROVE  Merge(c, d) \in Patch
<1>1. c \in Change /\ d \in Change /\ ~c.whole /\ ~d.whole /\ DOMAIN d.fields # {}
  BY DEF Patch
<1>2. DOMAIN Merge(c, d).fields = DOMAIN c.fields \union DOMAIN d.fields
  BY DEF Merge
<1> QED BY <1>1, <1>2, MergeType DEF Patch

LEMMA EntityMerge ==
  ASSUME NEW c \in Entity, NEW d \in Patch
  PROVE  Merge(c, d) \in Entity
BY MergeType DEF Entity, Patch

(* An entry over the entity below it: an entity, or none.                  *)
LEMMA FitsRead ==
  ASSUME NEW b \in Stored, NEW e \in Entry, Fits(b, e)
  PROVE  /\ OnCollection(b, e) \in Stored
         /\ Applied(b, e) = OnCollection(b, e)
<1>1. CASE e = NoEntry
  BY <1>1 DEF NoEntry, OnCollection, ApplyOverlay, Applied
<1>2. CASE b = None /\ e.set \in Entity /\ e.del = FALSE
  BY <1>2, NoneAssumption
  DEF OnCollection, ApplyOverlay, Applied, Over, IsInsert, Stored, Entity
<1>3. CASE b # None /\ e.set \in Patch /\ e.del = FALSE
  <2>1. b \in Entity /\ Merge(b, e.set) \in Entity
    BY <1>3, EntityMerge DEF Stored
  <2> QED BY <1>3, <2>1, NoneAssumption
      DEF OnCollection, ApplyOverlay, Applied, Over, Stored, Patch
<1>4. CASE b # None /\ e = Deletes
  BY <1>4 DEF Deletes, OnCollection, ApplyOverlay, Applied, Stored
<1> QED BY <1>1, <1>2, <1>3, <1>4 DEF Fits

(* The four forms of an entry that fits, and how each reads.               *)
LEMMA FitsCases ==
  ASSUME NEW b \in Stored, NEW e \in Entry, Fits(b, e)
  PROVE  \/ e.set = None /\ e.del = FALSE /\ OnCollection(b, e) = b
         \/ b = None /\ e.set \in Entity /\ e.del = FALSE /\ OnCollection(b, e) = e.set
         \/ b \in Entity /\ e.set \in Patch /\ e.del = FALSE
              /\ OnCollection(b, e) = Merge(b, e.set)
         \/ b \in Entity /\ e.set = None /\ e.del = TRUE /\ OnCollection(b, e) = None
<1>1. CASE e = NoEntry
  BY <1>1 DEF NoEntry, OnCollection, ApplyOverlay
<1>2. CASE b = None /\ e.set \in Entity /\ e.del = FALSE
  BY <1>2, NoneAssumption DEF OnCollection, ApplyOverlay, Entity
<1>3. CASE b # None /\ e.set \in Patch /\ e.del = FALSE
  BY <1>3, NoneAssumption DEF OnCollection, ApplyOverlay, Stored, Patch
<1>4. CASE b # None /\ e = Deletes
  BY <1>4 DEF Deletes, OnCollection, ApplyOverlay, Stored
<1> QED BY <1>1, <1>2, <1>3, <1>4 DEF Fits

(* The converse: an entry of one of these forms fits.                       *)
LEMMA FormsFit ==
  ASSUME NEW b \in Stored, NEW e \in Entry,
         \/ e.set = None /\ e.del = FALSE
         \/ b = None /\ e.set \in Entity /\ e.del = FALSE
         \/ b \in Entity /\ e.set \in Patch /\ e.del = FALSE
         \/ b \in Entity /\ e.set = None /\ e.del = TRUE
  PROVE  Fits(b, e)
<1>1. e = [set |-> e.set, del |-> e.del]
  BY DEF Entry
<1>2. b \in Entity => b # None
  BY NoneAssumption DEF Entity
<1> QED BY <1>1, <1>2 DEF Fits, NoEntry, Deletes

(* A scan merges the two buffers and lays them over the cache: the same as *)
(* laying one over the other.                                              *)
LEMMA MergedRead ==
  ASSUME NEW b \in Stored, NEW l \in Entry, NEW u \in Entry,
         Fits(b, l), Fits(OnCollection(b, l), u), l = Deletes => u = NoEntry
  PROVE  OnCollection(b, Merged(l, u)) = OnCollection(OnCollection(b, l), u)
<1> DEFINE p == OnCollection(b, l)
<1>1. p \in Stored
  BY FitsRead
<1>2. CASE l.del = TRUE
  <2>1. l = Deletes /\ u = NoEntry
    BY <1>2, NoneAssumption DEF Fits, NoEntry
  <2>2. Merged(l, u) = Deletes
    BY <2>1 DEF Merged, Deletes, NoEntry, Over
  <2> QED BY <2>1, <2>2 DEF OnCollection, ApplyOverlay, NoEntry, Deletes
<1>3. CASE l.del = FALSE /\ u.del = TRUE
  <2>1. u.set = None /\ OnCollection(p, u) = None
    BY <1>1, <1>3, FitsCases
  <2>2. Merged(l, u) = [set |-> None, del |-> TRUE]
    BY <1>3, <2>1 DEF Merged
  <2> QED BY <2>1, <2>2 DEF OnCollection, ApplyOverlay
<1>4. CASE l.del = FALSE /\ u.del = FALSE
  <2>1. Merged(l, u) = [set |-> Over(l.set, u.set), del |-> FALSE]
    BY <1>4 DEF Merged
  <2>2. CASE u.set = None
    BY <1>4, <2>1, <2>2 DEF OnCollection, ApplyOverlay, Over
  <2>3. CASE l.set = None /\ u.set # None
    BY <1>4, <2>1, <2>3 DEF OnCollection, ApplyOverlay, Over
  <2>4. CASE l.set # None /\ u.set # None
    <3>1. p # None
      BY <1>4, <2>4, FitsCases, NoneAssumption, EntityMerge, ZenonT(60) DEF Entity
    <3>2. u.set \in Patch /\ OnCollection(p, u) = Merge(p, u.set)
      BY <1>1, <1>4, <2>4, <3>1, FitsCases
    <3>3. Over(l.set, u.set) = Merge(l.set, u.set)
      BY <2>4 DEF Over
    <3>4. l.set \in Change /\ u.set \in Change /\ Merge(l.set, u.set) # None
      BY <2>4, <3>2, MergeType, NoneAssumption DEF Entry, Patch
    <3>5. CASE b = None
      BY <1>4, <2>1, <2>4, <3>2, <3>3, <3>4, <3>5 DEF OnCollection, ApplyOverlay
    <3>6. CASE b # None
      <4>1. b \in Change /\ Merge(b, Merge(l.set, u.set)) = Merge(Merge(b, l.set), u.set)
        BY <3>4, <3>6, MergeAssociative DEF Stored, Entity
      <4>2. p = Merge(b, l.set)
        BY <1>4, <2>4, <3>6 DEF OnCollection, ApplyOverlay
      <4>3. OnCollection(b, Merged(l, u)) = Merge(b, Merge(l.set, u.set))
        BY <2>1, <3>3, <3>4, <3>6 DEF OnCollection, ApplyOverlay
      <4> QED BY <3>2, <4>1, <4>2, <4>3
    <3> QED BY <3>5, <3>6
  <2> QED BY <2>2, <2>3, <2>4
<1> QED BY <1>2, <1>3, <1>4 DEF Entry

(* A rejected push: the unlocked entry written over the locked one reads   *)
(* like both.                                                              *)
LEMMA WrittenRead ==
  ASSUME NEW b \in Stored, NEW l \in Entry, NEW u \in Entry,
         Fits(b, l), Fits(OnCollection(b, l), u), l = Deletes => u = NoEntry
  PROVE  /\ Fits(b, Written(l, u))
         /\ OnCollection(b, Written(l, u)) = OnCollection(OnCollection(b, l), u)
<1> DEFINE p == OnCollection(b, l)
           w == Written(l, u)
<1>1. p \in Stored /\ w \in Entry
  BY FitsRead, WrittenType
<1>2. CASE u.set = None /\ u.del = FALSE
  <2>1. w = l
    BY <1>2 DEF Written, Over, Entry
  <2>2. OnCollection(p, u) = p
    BY <1>2 DEF OnCollection, ApplyOverlay
  <2> QED BY <2>1, <2>2
<1>3. CASE u.del = TRUE
  <2>1. p \in Entity /\ u.set = None /\ OnCollection(p, u) = None
    BY <1>1, <1>3, FitsCases
  <2>2. l.del = FALSE
    BY <2>1, FitsCases, NoneAssumption DEF Entity, Entry
  <2> DEFINE stays == l.del \/ (u.del /\ ~IsInsert(l.set))
  <2>3. w = [set |-> None, del |-> stays]
    BY <1>3, <2>1 DEF Written
  <2>4. IsInsert(l.set) => stays = FALSE
    BY <2>2
  <2>5. ~IsInsert(l.set) => stays = TRUE
    BY <1>3
  <2> HIDE DEF stays
  <2>6. CASE b = None
    <3>1. IsInsert(l.set)
      BY <2>1, <2>2, <2>6, FitsCases, NoneAssumption DEF IsInsert, Entity
    <3>2. w.set = None /\ w.del = FALSE
      BY <2>3, <2>4, <3>1
    <3> HIDE DEF w
    <3>3. Fits(b, w) /\ OnCollection(b, w) = None
      BY <1>1, <2>6, <3>2, FormsFit DEF OnCollection, ApplyOverlay
    <3> QED BY <2>1, <3>3 DEF w
  <2>7. CASE b # None
    <3>1. ~IsInsert(l.set) /\ b \in Entity
      BY <2>1, <2>2, <2>7, FitsCases, NoneAssumption DEF IsInsert, Entity, Stored, Patch
    <3>2. w.set = None /\ w.del = TRUE
      BY <2>3, <2>5, <3>1
    <3> HIDE DEF w
    <3>3. Fits(b, w) /\ OnCollection(b, w) = None
      BY <1>1, <3>1, <3>2, FormsFit DEF OnCollection, ApplyOverlay
    <3> QED BY <2>1, <3>3 DEF w
  <2> QED BY <2>6, <2>7
<1>4. CASE u.del = FALSE /\ u.set # None
  <2>1. l # Deletes
    BY <1>4 DEF NoEntry
  <2>2. l.del = FALSE
    BY <2>1, NoneAssumption DEF Fits, NoEntry
  <2>3. w = [set |-> Over(l.set, u.set), del |-> FALSE]
    BY <1>4, <2>2 DEF Written
  <2>4. Merged(l, u) = w
    BY <1>4, <2>2, <2>3 DEF Merged
  <2>5. CASE l.set = None
    <3>1. p = b /\ w.set = u.set /\ w.del = FALSE
      BY <2>2, <2>3, <2>5 DEF OnCollection, ApplyOverlay, Over
    <3>2. Fits(b, w)
      BY <1>1, <1>4, <3>1, FitsCases, FormsFit
    <3> QED BY <2>4, <3>2, MergedRead
  <2>6. CASE l.set # None
    <3>1. w.set = Merge(l.set, u.set) /\ w.del = FALSE
      BY <1>4, <2>3, <2>6 DEF Over
    <3>2. p \in Entity
      BY <2>2, <2>6, FitsCases, EntityMerge
    <3>3. u.set \in Patch
      BY <1>1, <1>4, <3>2, FitsCases, NoneAssumption DEF Entity
    <3> HIDE DEF w
    <3>4. CASE b = None
      <4>1. l.set \in Entity
        BY <2>2, <2>6, <3>4, FitsCases, NoneAssumption DEF Entity
      <4>2. w.set \in Entity
        BY <3>1, <3>3, <4>1, EntityMerge
      <4>3. Fits(b, w)
        BY <1>1, <3>1, <3>4, <4>2, FormsFit
      <4> QED BY <2>4, <4>3, MergedRead DEF w
    <3>5. CASE b # None
      <4>1. b \in Entity /\ l.set \in Patch
        BY <2>2, <2>6, <3>5, FitsCases
      <4>2. w.set \in Patch
        BY <3>1, <3>3, <4>1, PatchMerge
      <4>3. Fits(b, w)
        BY <1>1, <3>1, <4>1, <4>2, FormsFit
      <4> QED BY <2>4, <4>3, MergedRead DEF w
    <3> QED BY <3>4, <3>5
  <2> QED BY <2>5, <2>6
<1> QED BY <1>2, <1>3, <1>4 DEF Entry

-----------------------------------------------------------------------------
(* The steps.                                                              *)

LEMMA IInvTypes ==
  ASSUME IInv
  PROVE  /\ active \in 0..1 /\ 1 - active \in 0..1 /\ 1 - active # active
         /\ 1 - (1 - active) = active
         /\ buf \in [0..1 -> [Ids -> Entry]]
         /\ Locked \in [Ids -> Entry] /\ Unlocked \in [Ids -> Entry]
         /\ cache \in [Ids -> Stored] /\ server \in [Ids -> Stored]
         /\ used \in SUBSET Ids
BY DEF IInv, CInv, TypeOK, Locked, Unlocked, Stored

(* A scan reads one layer over the other.                                  *)
LEMMA ScanReadsLayers ==
  ASSUME IInv, NEW i \in Ids
  PROVE  /\ PushedLayer[i] = OnCollection(cache[i], Locked[i])
         /\ PushedLayer[i] \in Stored
         /\ Fits(cache[i], Locked[i]) /\ Fits(PushedLayer[i], Unlocked[i])
         /\ Locked[i] = Deletes => Unlocked[i] = NoEntry
         /\ VisibleLayer[i] = ScanRead(i)
         /\ ScanRead(i) = OnCollection(PushedLayer[i], Unlocked[i])
         /\ ScanRead(i) \in Stored
<1>1. cache[i] \in Stored /\ Locked[i] \in Entry /\ Unlocked[i] \in Entry
  BY IInvTypes
<1>2. PushedLayer[i] = OnCollection(cache[i], Locked[i]) /\ VisibleLayer[i] = ScanRead(i)
  BY DEF PushedLayer, VisibleLayer
<1>3. /\ Fits(cache[i], Locked[i]) /\ Fits(PushedLayer[i], Unlocked[i])
      /\ Locked[i] = Deletes => Unlocked[i] = NoEntry
  BY DEF IInv, LayersFit
<1>4. ScanRead(i) = OnCollection(PushedLayer[i], Unlocked[i])
  BY <1>1, <1>2, <1>3, MergedRead DEF ScanRead
<1>5. PushedLayer[i] \in Stored
  BY <1>1, <1>2, <1>3, FitsRead
<1>6. ScanRead(i) \in Stored
  BY <1>1, <1>3, <1>4, <1>5, FitsRead
<1> QED BY <1>2, <1>3, <1>4, <1>5, <1>6

(* What is visible is not deleted in either buffer.                        *)
LEMMA VisibleIsLive ==
  ASSUME IInv, NEW i \in Ids, ScanRead(i) # None
  PROVE  Locked[i] # Deletes /\ Unlocked[i] # Deletes
<1>1. \A base : OnCollection(base, Deletes) = None
  BY DEF OnCollection, ApplyOverlay, Deletes
<1>2. Unlocked[i] # Deletes
  BY <1>1, ScanReadsLayers
<1>3. ASSUME Locked[i] = Deletes PROVE FALSE
  <2>1. PushedLayer[i] = None /\ Unlocked[i] = NoEntry
    BY <1>1, <1>3, ScanReadsLayers
  <2>2. OnCollection(None, NoEntry) = None
    BY DEF OnCollection, ApplyOverlay, NoEntry
  <2> QED BY <2>1, <2>2, ScanReadsLayers
<1> QED BY <1>2, <1>3

(* A write of the application changes the visible layer, at its id.        *)
LEMMA WriteIsVisible ==
  ASSUME Copies, IInv, NEW i \in Ids, NEW ch \in Entry, Transact(i, ch), used' \in SUBSET Ids,
         Fits(ScanRead(i), ch), Locked[i] # Deletes, Unlocked[i] # Deletes
  PROVE  /\ CInv' /\ LayersFit' /\ cache' = cache
         /\ VisibleLayer' = [VisibleLayer EXCEPT ![i] = OnCollection(ScanRead(i), ch)]
         /\ PushedLayer' = PushedLayer
         /\ Locked' = Locked
         /\ \A j \in Ids : j # i => Unlocked'[j] = Unlocked[j]
<1>1. CInv' /\ Locked' = Locked /\ Unlocked' = [Unlocked EXCEPT ![i] = Written(@, ch)]
      /\ cache' = cache
  BY TransactKeeps DEF IInv
<1>2. PushedLayer' = PushedLayer
  BY <1>1 DEF PushedLayer
<1>3. Unlocked'[i] = Written(Unlocked[i], ch) /\ \A j \in Ids : j # i => Unlocked'[j] = Unlocked[j]
  BY <1>1, IInvTypes
<1>4. /\ Fits(PushedLayer[i], Written(Unlocked[i], ch))
      /\ OnCollection(PushedLayer[i], Written(Unlocked[i], ch)) = OnCollection(ScanRead(i), ch)
  <2>1. Unlocked[i] \in Entry
    BY IInvTypes
  <2> QED BY <2>1, ScanReadsLayers, WrittenRead
<1>5. ASSUME NEW j \in Ids
      PROVE  Fits(PushedLayer[j], Unlocked'[j]) /\ (Locked[j] = Deletes => Unlocked'[j] = NoEntry)
  BY <1>3, <1>4, ScanReadsLayers
<1>6. LayersFit'
  <2>1. \A j \in Ids : Fits(cache[j], Locked[j])
    BY ScanReadsLayers
  <2> QED BY <1>1, <1>2, <1>5, <2>1 DEF LayersFit
<1>7. ASSUME NEW j \in Ids
      PROVE  ScanRead(j)' = OnCollection(PushedLayer[j], Unlocked'[j])
  <2>1. cache[j] \in Stored /\ Locked[j] \in Entry /\ Unlocked'[j] \in Entry
    BY <1>1, IInvTypes DEF CInv, TypeOK, Unlocked
  <2>2. ScanRead(j)' = OnCollection(cache[j], Merged(Locked[j], Unlocked'[j]))
    BY <1>1 DEF ScanRead
  <2> QED BY <1>5, <2>1, <2>2, ScanReadsLayers, MergedRead
<1>8. \A j \in Ids : ScanRead(j)' = IF j = i THEN OnCollection(ScanRead(i), ch) ELSE ScanRead(j)
  BY <1>3, <1>4, <1>7, ScanReadsLayers
<1>9. VisibleLayer' = [VisibleLayer EXCEPT ![i] = OnCollection(ScanRead(i), ch)]
  BY <1>8 DEF VisibleLayer
<1> QED BY <1>1, <1>2, <1>3, <1>6, <1>9

(* Snapshots speaks of the same entities and patches.                      *)
LEMMA SameChanges ==
  /\ Layers!Entity = Entity /\ Layers!Patch = Patch
  /\ \A c, d : Layers!Merge(c, d) = Merge(c, d)
BY DEF Layers!Entity, Layers!Patch, Layers!Merge, Layers!Change, Layers!Fields,
       Entity, Patch, Merge, Change, Fields

LEMMA IInit == Init => IInv /\ Layers!Init
<1> SUFFICES ASSUME Init PROVE IInv /\ Layers!Init
  OBVIOUS
<1>1. CInv
  BY CInit
<1>2. Locked = NoEntries /\ Unlocked = NoEntries
  BY DEF Init, Locked, Unlocked
<1>3. /\ \A b : OnCollection(b, NoEntry) = b
      /\ Merged(NoEntry, NoEntry) = NoEntry
  BY DEF OnCollection, ApplyOverlay, NoEntry, Merged, Over
<1>4. LayersFit
  BY <1>2, <1>3 DEF LayersFit, Fits, NoEntries, PushedLayer
<1>5. NewIdsAreNew
  BY <1>2 DEF Init, NewIdsAreNew, NoEntries
<1>6. VisibleLayer = cache /\ PushedLayer = cache
  <2>1. cache \in [Ids -> Stored]
    BY DEF Init, Stored
  <2> QED BY <1>2, <1>3, <2>1 DEF VisibleLayer, PushedLayer, ScanRead, NoEntries
<1>7. Layers!Init
  BY <1>6, SameChanges DEF Init, Layers!Init
<1> QED BY <1>1, <1>4, <1>5, <1>7 DEF IInv

(* What a step has to show: the invariant again, and a step of Snapshots.  *)
Implements == IInv' /\ [Layers!Next]_(Layers!vars)

LEMMA InsertImplements ==
  ASSUME FreshUse, IInv, NEW i \in Ids, NEW c \in Entity, Insert(i, c)
  PROVE  IInv' /\ Layers!Insert(i, c)
<1> DEFINE ch == StagedInsert(NoEntry, c)
<1>1. ch \in Entry /\ ch.set = c /\ ch.del = FALSE
  BY DEF StagedInsert, NoEntry, Entry, Entity
<1>2. ScanRead(i) = None /\ i \notin used
  BY DEF Insert, FreshUse
<1>3. Locked[i] = NoEntry /\ Unlocked[i] = NoEntry
  BY <1>2 DEF IInv, NewIdsAreNew
<1>4. Fits(ScanRead(i), ch)
  BY <1>1, <1>2 DEF Fits
<1>5. NoEntry # Deletes
  BY DEF NoEntry, Deletes
<1>6. used' = used \union {i} /\ used' \in SUBSET Ids
  BY IInvTypes DEF Insert
<1>7. /\ CInv' /\ LayersFit' /\ cache' = cache
      /\ VisibleLayer' = [VisibleLayer EXCEPT ![i] = OnCollection(ScanRead(i), ch)]
      /\ PushedLayer' = PushedLayer
      /\ Locked' = Locked
      /\ \A j \in Ids : j # i => Unlocked'[j] = Unlocked[j]
  BY <1>1, <1>3, <1>4, <1>5, <1>6, WriteIsVisible DEF Insert, FreshUse
<1>8. NewIdsAreNew'
  BY <1>6, <1>7 DEF IInv, NewIdsAreNew, Insert, Transact
<1>9. OnCollection(ScanRead(i), ch) = c
  BY <1>1, <1>2, NoneAssumption DEF OnCollection, ApplyOverlay, Entity
<1>10. Layers!Insert(i, c)
  BY <1>2, <1>7, <1>9, ScanReadsLayers DEF Layers!Insert, Insert, Transact
<1> QED BY <1>7, <1>8, <1>10 DEF IInv

LEMMA UpdateImplements ==
  ASSUME FreshUse, IInv, NEW i \in Ids, NEW c \in Patch, Update(i, c)
  PROVE  IInv' /\ Layers!Update(i, c)
<1> DEFINE ch == StagedUpdate(NoEntry, c)
<1>1. ch \in Entry /\ ch.set = c /\ ch.del = FALSE
  <2>1. Over(None, c) = c
    BY NoneAssumption DEF Over, Patch
  <2> QED BY <2>1 DEF StagedUpdate, NoEntry, Entry, Patch
<1>2. ScanRead(i) # None /\ ScanRead(i) \in Stored
  BY ScanReadsLayers DEF Update, FreshUse
<1>3. Fits(ScanRead(i), ch)
  BY <1>1, <1>2 DEF Fits
<1>4. used' = used /\ used' \in SUBSET Ids
  BY IInvTypes DEF Update
<1>5. /\ CInv' /\ LayersFit' /\ cache' = cache
      /\ VisibleLayer' = [VisibleLayer EXCEPT ![i] = OnCollection(ScanRead(i), ch)]
      /\ PushedLayer' = PushedLayer
      /\ Locked' = Locked
      /\ \A j \in Ids : j # i => Unlocked'[j] = Unlocked[j]
  BY <1>1, <1>2, <1>3, <1>4, VisibleIsLive, WriteIsVisible DEF Update, FreshUse
<1>6. i \in used
  <2>1. OnCollection(None, Merged(NoEntry, NoEntry)) = None
    BY DEF OnCollection, ApplyOverlay, NoEntry, Merged, Over
  <2> QED BY <1>2, <2>1 DEF IInv, NewIdsAreNew, ScanRead
<1>7. NewIdsAreNew'
  BY <1>4, <1>5, <1>6 DEF IInv, NewIdsAreNew, Update, Transact
<1>8. OnCollection(ScanRead(i), ch) = Merge(ScanRead(i), c)
  BY <1>1, <1>2, NoneAssumption DEF OnCollection, ApplyOverlay, Patch
<1>9. Layers!Update(i, c)
  BY <1>2, <1>5, <1>8, ScanReadsLayers, SameChanges
  DEF Layers!Update, Update, Transact
<1> QED BY <1>5, <1>7, <1>9 DEF IInv

LEMMA DeleteImplements ==
  ASSUME FreshUse, IInv, NEW i \in Ids, Delete(i)
  PROVE  IInv' /\ Layers!Delete(i)
<1>1. StagedDelete(NoEntry) = Deletes /\ Deletes \in Entry
  BY NoEntriesType DEF StagedDelete, NoEntry, IsInsert
<1>2. ScanRead(i) # None /\ ScanRead(i) \in Stored
  BY ScanReadsLayers DEF Delete, FreshUse
<1>3. Fits(ScanRead(i), Deletes)
  BY <1>2 DEF Fits
<1>4. used' = used /\ used' \in SUBSET Ids
  BY IInvTypes DEF Delete
<1>5. /\ CInv' /\ LayersFit' /\ cache' = cache
      /\ VisibleLayer' = [VisibleLayer EXCEPT ![i] = OnCollection(ScanRead(i), Deletes)]
      /\ PushedLayer' = PushedLayer
      /\ Locked' = Locked
      /\ \A j \in Ids : j # i => Unlocked'[j] = Unlocked[j]
  BY <1>1, <1>2, <1>3, <1>4, VisibleIsLive, WriteIsVisible DEF Delete, FreshUse
<1>6. i \in used
  <2>1. OnCollection(None, Merged(NoEntry, NoEntry)) = None
    BY DEF OnCollection, ApplyOverlay, NoEntry, Merged, Over
  <2> QED BY <1>2, <2>1 DEF IInv, NewIdsAreNew, ScanRead
<1>7. NewIdsAreNew'
  BY <1>4, <1>5, <1>6 DEF IInv, NewIdsAreNew, Delete, Transact
<1>8. OnCollection(ScanRead(i), Deletes) = None
  BY DEF OnCollection, ApplyOverlay, Deletes
<1>9. Layers!Delete(i)
  BY <1>2, <1>5, <1>8, ScanReadsLayers DEF Layers!Delete, Delete, Transact
<1> QED BY <1>5, <1>7, <1>9 DEF IInv

(* Giving up what is not locked, for some ids.                             *)
LEMMA ClearReads ==
  ASSUME IInv, NEW x \in [Ids -> Entry],
         buf' = [buf EXCEPT ![active] = x],
         \A i \in Ids : x[i] \in {Unlocked[i], NoEntry},
         UNCHANGED <<cache, active, server, push, batch, held, stored, used>>
  PROVE  /\ IInv' /\ PushedLayer' = PushedLayer
         /\ VisibleLayer' = [i \in Ids |-> IF x[i] = Unlocked[i] THEN VisibleLayer[i]
                                                                ELSE PushedLayer[i]]
<1>1. CInv' /\ Locked' = Locked /\ Unlocked' = x
  BY IInvTypes, WriteKeeps DEF IInv
<1>2. PushedLayer' = PushedLayer
  BY <1>1 DEF PushedLayer
<1>3. ASSUME NEW i \in Ids
      PROVE  Fits(PushedLayer[i], x[i]) /\ (Locked[i] = Deletes => x[i] = NoEntry)
  BY ScanReadsLayers DEF Fits
<1>4. LayersFit'
  BY <1>1, <1>2, <1>3, ScanReadsLayers DEF LayersFit
<1>5. NewIdsAreNew'
  BY <1>1 DEF IInv, NewIdsAreNew
<1>6. ASSUME NEW i \in Ids
      PROVE  ScanRead(i)' = IF x[i] = Unlocked[i] THEN ScanRead(i) ELSE PushedLayer[i]
  <2>1. cache[i] \in Stored /\ Locked[i] \in Entry /\ x[i] \in Entry
    BY IInvTypes
  <2>2. ScanRead(i)' = OnCollection(cache[i], Merged(Locked[i], x[i]))
    BY <1>1 DEF ScanRead
  <2>3. ScanRead(i)' = OnCollection(PushedLayer[i], x[i])
    BY <1>3, <2>1, <2>2, ScanReadsLayers, MergedRead
  <2>4. OnCollection(PushedLayer[i], NoEntry) = PushedLayer[i]
    BY DEF OnCollection, ApplyOverlay, NoEntry
  <2> QED BY <2>3, <2>4, ScanReadsLayers
<1>7. VisibleLayer' = [i \in Ids |-> IF x[i] = Unlocked[i] THEN VisibleLayer[i]
                                                          ELSE PushedLayer[i]]
  BY <1>6 DEF VisibleLayer
<1> QED BY <1>1, <1>2, <1>4, <1>5, <1>7 DEF IInv

LEMMA ClearImplements ==
  ASSUME IInv, ClearAll \/ \E i \in Ids : ClearEntity(i)
  PROVE  Implements
<1>1. CASE ClearAll
  <2>1. /\ IInv' /\ PushedLayer' = PushedLayer
        /\ VisibleLayer' = [i \in Ids |-> IF NoEntries[i] = Unlocked[i] THEN VisibleLayer[i]
                                                                     ELSE PushedLayer[i]]
    BY <1>1, NoEntriesType, ClearReads DEF ClearAll, NoEntries
  <2>2. ASSUME NEW i \in Ids, NoEntries[i] = Unlocked[i] PROVE VisibleLayer[i] = PushedLayer[i]
    BY <2>2, ScanReadsLayers DEF NoEntries, OnCollection, ApplyOverlay, NoEntry
  <2>3. VisibleLayer' = PushedLayer
    BY <2>1, <2>2 DEF PushedLayer
  <2>4. Layers!ClearAll
    BY <1>1, <2>1, <2>3 DEF Layers!ClearAll, ClearAll
  <2> QED BY <2>1, <2>4 DEF Implements, Layers!Next
<1>2. ASSUME NEW i \in Ids, ClearEntity(i) PROVE Implements
  <2> DEFINE x == [Unlocked EXCEPT ![i] = NoEntry]
  <2>1. x \in [Ids -> Entry] /\ buf' = [buf EXCEPT ![active] = x]
        /\ x[i] = NoEntry /\ \A j \in Ids : j # i => x[j] = Unlocked[j]
    BY <1>2, IInvTypes, NoEntriesType DEF ClearEntity, Unlocked
  <2>2. /\ IInv' /\ PushedLayer' = PushedLayer
        /\ VisibleLayer' = [j \in Ids |-> IF x[j] = Unlocked[j] THEN VisibleLayer[j]
                                                               ELSE PushedLayer[j]]
    BY <1>2, <2>1, ClearReads DEF ClearEntity
  <2>3. x[i] = Unlocked[i] => VisibleLayer[i] = PushedLayer[i]
    BY <2>1, ScanReadsLayers DEF OnCollection, ApplyOverlay, NoEntry
  <2>4. VisibleLayer' = [VisibleLayer EXCEPT ![i] = PushedLayer[i]]
    BY <2>1, <2>2, <2>3 DEF VisibleLayer
  <2>5. Layers!Clear(i)
    BY <1>2, <2>2, <2>4 DEF Layers!Clear, ClearEntity
  <2> QED BY <2>2, <2>5 DEF Implements, Layers!Next
<1> QED BY <1>1, <1>2

(* Where nothing is locked over an entity, a scan reads what is not.       *)
LEMMA NothingLocked ==
  ASSUME NEW b \in Stored, NEW u \in Entry, Fits(b, u)
  PROVE  /\ OnCollection(b, NoEntry) = b
         /\ OnCollection(b, Merged(NoEntry, u)) = OnCollection(b, u)
<1>1. OnCollection(b, NoEntry) = b /\ Fits(b, NoEntry) /\ NoEntry \in Entry /\ NoEntry # Deletes
  BY NoEntriesType DEF OnCollection, ApplyOverlay, NoEntry, Fits, Deletes
<1> QED BY <1>1, MergedRead

(* A push is taken up: what is visible is now pushed.                      *)
LEMMA SyncImplements ==
  ASSUME FreshUse, IInv, SyncWrites
  PROVE  Implements
<1>1. CInv'
  BY CStep DEF FreshUse, IInv, Next
<1>2. cache' = cache /\ server' = server /\ buf' = buf /\ used' = used
  BY DEF SyncWrites
<1>3. CASE Locked # NoEntries
  <2>1. active' = active
    BY <1>3, IInvTypes DEF SyncWrites, Switched
  <2>2. Locked' = Locked /\ Unlocked' = Unlocked
    BY <1>2, <2>1 DEF Locked, Unlocked
  <2>3. VisibleLayer' = VisibleLayer /\ PushedLayer' = PushedLayer
    BY <1>2, <2>2 DEF VisibleLayer, PushedLayer, ScanRead
  <2>4. LayersFit' /\ NewIdsAreNew'
    BY <1>2, <2>2, <2>3 DEF IInv, LayersFit, NewIdsAreNew
  <2> QED BY <1>1, <1>2, <2>3, <2>4 DEF Implements, IInv, Layers!vars
<1>4. CASE Locked = NoEntries
  <2>1. active' = 1 - active
    BY <1>4, IInvTypes DEF SyncWrites, Switched
  <2>2. Locked' = Unlocked /\ Unlocked' = NoEntries
    BY <1>2, <1>4, <2>1, IInvTypes DEF Locked, Unlocked
  <2>3. ASSUME NEW i \in Ids
        PROVE  /\ Locked[i] = NoEntry /\ NoEntries[i] = NoEntry
               /\ PushedLayer[i] = cache[i] /\ Fits(cache[i], Unlocked[i])
               /\ ScanRead(i) = OnCollection(cache[i], Unlocked[i])
    <3>1. NoEntries[i] = NoEntry /\ Locked[i] = NoEntry
      BY <1>4 DEF NoEntries
    <3>2. OnCollection(cache[i], NoEntry) = cache[i]
      BY DEF OnCollection, ApplyOverlay, NoEntry
    <3>3. PushedLayer[i] = cache[i]
      BY <3>1, <3>2, ScanReadsLayers
    <3> QED BY <3>1, <3>3, ScanReadsLayers
  <2>4. ASSUME NEW i \in Ids
        PROVE  /\ PushedLayer'[i] = ScanRead(i) /\ ScanRead(i)' = ScanRead(i)
    <3>1. PushedLayer'[i] = OnCollection(cache[i], Unlocked[i])
      BY <1>2, <2>2 DEF PushedLayer
    <3>2. ScanRead(i)' = OnCollection(cache[i], Merged(Unlocked[i], NoEntry))
      BY <1>2, <2>2, <2>3 DEF ScanRead
    <3>3. Fits(ScanRead(i), NoEntry) /\ OnCollection(ScanRead(i), NoEntry) = ScanRead(i)
          /\ NoEntry \in Entry
      BY NoEntriesType DEF Fits, OnCollection, ApplyOverlay, NoEntry
    <3>4. cache[i] \in Stored /\ Unlocked[i] \in Entry
      BY IInvTypes
    <3>5. OnCollection(cache[i], Merged(Unlocked[i], NoEntry)) = ScanRead(i)
      BY <2>3, <3>3, <3>4, MergedRead
    <3> QED BY <2>3, <3>1, <3>2, <3>5
  <2>5. PushedLayer' = VisibleLayer /\ VisibleLayer' = VisibleLayer
    BY <2>4 DEF PushedLayer, VisibleLayer
  <2>6. PushedLayer = cache
    BY <2>3, IInvTypes DEF PushedLayer
  <2>7. LayersFit'
    <3>1. \A i \in Ids : Fits(PushedLayer'[i], NoEntry)
      BY DEF Fits
    <3> QED BY <1>2, <2>2, <2>3, <3>1 DEF LayersFit
  <2>8. NewIdsAreNew'
    BY <1>2, <2>2, <2>3 DEF IInv, NewIdsAreNew
  <2>9. Layers!Push
    BY <1>2, <2>5, <2>6 DEF Layers!Push
  <2> QED BY <1>1, <2>7, <2>8, <2>9 DEF Implements, IInv, Layers!Next
<1> QED BY <1>3, <1>4

(* The push reaches the server.                                            *)
LEMMA ServerImplements ==
  ASSUME FreshUse, IInv, ServerApply
  PROVE  Implements
<1>1. CInv'
  BY CStep DEF FreshUse, IInv, Next
<1>2. cache' = cache /\ Locked' = Locked /\ Unlocked' = Unlocked /\ used' = used /\ stored'
  BY DEF ServerApply, Locked, Unlocked
<1>3. VisibleLayer' = VisibleLayer /\ PushedLayer' = PushedLayer
  BY <1>2 DEF VisibleLayer, PushedLayer, ScanRead
<1>4. LayersFit' /\ NewIdsAreNew'
  BY <1>2, <1>3 DEF IInv, LayersFit, NewIdsAreNew
<1>5. ASSUME NEW i \in Ids PROVE server'[i] = PushedLayer[i]
  <2>1. server'[i] = Applied(cache[i], Locked[i])
    BY <1>1, <1>2 DEF CInv, CacheTracksServer
  <2>2. cache[i] \in Stored /\ Locked[i] \in Entry
    BY IInvTypes
  <2> QED BY <2>1, <2>2, ScanReadsLayers, FitsRead
<1>6. server' = PushedLayer
  <2>1. server' = [i \in Ids |-> server'[i]]
    BY DEF ServerApply
  <2> QED BY <1>5, <2>1 DEF PushedLayer
<1>7. Layers!Arrive
  BY <1>2, <1>3, <1>6 DEF Layers!Arrive
<1> QED BY <1>1, <1>4, <1>7 DEF Implements, IInv, Layers!Next

(* The client learns that it has: what was locked is now cached.           *)
LEMMA AckImplements ==
  ASSUME FreshUse, IInv, Ack
  PROVE  Implements
<1>1. CInv'
  BY CStep DEF FreshUse, IInv, Next
<1>2. stored
  BY DEF Ack, IInv, CInv, PushIsLocked
<1>3. active' = active /\ server' = server /\ used' = used
      /\ Locked' = NoEntries /\ Unlocked' = Unlocked
  <2>1. buf' = [buf EXCEPT ![1 - active] = NoEntries] /\ active' = active
    BY DEF Ack
  <2> QED BY <2>1, IInvTypes DEF Ack, Locked, Unlocked
<1>4. ASSUME NEW i \in Ids
      PROVE  /\ cache'[i] = PushedLayer[i] /\ server[i] = PushedLayer[i]
             /\ Locked'[i] = NoEntry
  <2>1. cache'[i] = Applied(cache[i], Locked[i])
    BY DEF Ack, Acked, FreshUse, Copies
  <2>2. server[i] = Applied(cache[i], Locked[i])
    BY <1>2 DEF IInv, CInv, CacheTracksServer
  <2>3. cache[i] \in Stored /\ Locked[i] \in Entry
    BY IInvTypes
  <2> QED BY <1>3, <2>1, <2>2, <2>3, ScanReadsLayers, FitsRead DEF NoEntries
<1>5. ASSUME NEW i \in Ids
      PROVE  PushedLayer'[i] = PushedLayer[i] /\ ScanRead(i)' = ScanRead(i)
  <2>1. PushedLayer'[i] = OnCollection(PushedLayer[i], NoEntry)
    BY <1>4 DEF PushedLayer
  <2>2. ScanRead(i)' = OnCollection(PushedLayer[i], Merged(NoEntry, Unlocked[i]))
    BY <1>3, <1>4 DEF ScanRead
  <2>3. PushedLayer[i] \in Stored /\ Unlocked[i] \in Entry
    BY IInvTypes, ScanReadsLayers
  <2> QED BY <2>1, <2>2, <2>3, ScanReadsLayers, NothingLocked
<1>6. PushedLayer' = PushedLayer /\ VisibleLayer' = VisibleLayer
  BY <1>5 DEF PushedLayer, VisibleLayer
<1>7. cache' = PushedLayer /\ server = PushedLayer
  <2>1. cache' = [i \in Ids |-> cache'[i]] /\ server = [i \in Ids |-> server[i]]
    BY IInvTypes DEF Ack
  <2> QED BY <1>4, <2>1 DEF PushedLayer
<1>8. LayersFit'
  <2>1. \A i \in Ids : Fits(cache'[i], NoEntry)
    BY DEF Fits
  <2>2. NoEntry # Deletes
    BY DEF NoEntry, Deletes
  <2> QED BY <1>3, <1>4, <1>6, <2>1, <2>2, ScanReadsLayers DEF LayersFit
<1>9. NewIdsAreNew'
  <2>1. ASSUME NEW i \in Ids \ used PROVE cache'[i] = None
    <3>1. cache[i] = None /\ Locked[i] = NoEntry
      BY DEF IInv, NewIdsAreNew
    <3> QED BY <1>4, <3>1, ScanReadsLayers DEF OnCollection, NoEntry, ApplyOverlay
  <2> QED BY <1>3, <1>4, <2>1 DEF IInv, NewIdsAreNew
<1>10. Layers!Confirm
  BY <1>3, <1>6, <1>7 DEF Layers!Confirm
<1> QED BY <1>1, <1>8, <1>9, <1>10 DEF Implements, IInv, Layers!Next

(* The server rejects the push: it is visible, but no longer pushed.       *)
LEMMA RejectImplements ==
  ASSUME FreshUse, IInv, Reject
  PROVE  Implements
<1> DEFINE W == [i \in Ids |-> Written(Locked[i], Unlocked[i])]
<1>1. CInv'
  BY CStep DEF FreshUse, IInv, Next
<1>2. ~stored /\ server' = server /\ cache' = cache /\ used' = used
  BY DEF Reject, FreshUse, Copies
<1>3. Locked' = NoEntries /\ Unlocked' = W
  <2>1. active' = 1 - active
        /\ buf' = [buf EXCEPT ![1 - active] = W, ![active] = NoEntries]
    BY DEF Reject, Switched
  <2> HIDE DEF W
  <2>2. buf'[1 - active] = W /\ buf'[active] = NoEntries
    BY <2>1, IInvTypes
  <2> QED BY <2>1, <2>2, IInvTypes DEF Locked, Unlocked
<1>4. ASSUME NEW i \in Ids
      PROVE  /\ W[i] \in Entry /\ Fits(cache[i], W[i])
             /\ OnCollection(cache[i], W[i]) = ScanRead(i)
  <2>1. cache[i] \in Stored /\ Locked[i] \in Entry /\ Unlocked[i] \in Entry
    BY IInvTypes
  <2> QED BY <2>1, ScanReadsLayers, WrittenRead, WrittenType
<1> HIDE DEF W
<1>5. ASSUME NEW i \in Ids
      PROVE  PushedLayer'[i] = cache[i] /\ ScanRead(i)' = ScanRead(i)
  <2>1. PushedLayer'[i] = OnCollection(cache[i], NoEntry)
    BY <1>2, <1>3 DEF PushedLayer, NoEntries
  <2>2. ScanRead(i)' = OnCollection(cache[i], Merged(NoEntry, W[i]))
    BY <1>2, <1>3 DEF ScanRead, NoEntries
  <2>3. cache[i] \in Stored
    BY IInvTypes
  <2> QED BY <1>4, <2>1, <2>2, <2>3, NothingLocked
<1>6. PushedLayer' = cache /\ VisibleLayer' = VisibleLayer
  BY <1>5, IInvTypes DEF PushedLayer, VisibleLayer
<1>7. server = cache
  <2>1. \A i \in Ids : server[i] = cache[i]
    BY <1>2 DEF IInv, CInv, CacheTracksServer
  <2> QED BY <2>1, IInvTypes
<1>8. LayersFit'
  <2>1. \A i \in Ids : NoEntries[i] = NoEntry
    BY DEF NoEntries
  <2>2. NoEntry # Deletes /\ \A i \in Ids : Fits(cache[i], NoEntry)
    BY DEF NoEntry, Deletes, Fits
  <2> QED BY <1>2, <1>3, <1>4, <1>6, <2>1, <2>2 DEF LayersFit
<1>9. NewIdsAreNew'
  <2>1. ASSUME NEW i \in Ids \ used PROVE cache[i] = None /\ W[i] = NoEntry
    <3>1. cache[i] = None /\ Locked[i] = NoEntry /\ Unlocked[i] = NoEntry
      BY DEF IInv, NewIdsAreNew
    <3>2. Written(NoEntry, NoEntry) = NoEntry
      BY DEF Written, NoEntry, Over
    <3> QED BY <3>1, <3>2 DEF W
  <2> QED BY <1>2, <1>3, <2>1 DEF NewIdsAreNew, NoEntries
<1>10. Layers!Reject
  BY <1>2, <1>6, <1>7 DEF Layers!Reject
<1> QED BY <1>1, <1>8, <1>9, <1>10 DEF Implements, IInv, Layers!Next

(* The connection is lost, or nothing happens.                             *)
LEMMA StutterImplements ==
  ASSUME FreshUse, IInv, Drop \/ UNCHANGED vars
  PROVE  Implements
<1>1. CInv'
  BY CStep DEF FreshUse, IInv, Next
<1>2. cache' = cache /\ server' = server /\ used' = used
      /\ Locked' = Locked /\ Unlocked' = Unlocked
  BY DEF Drop, vars, Locked, Unlocked
<1>3. VisibleLayer' = VisibleLayer /\ PushedLayer' = PushedLayer
  BY <1>2 DEF VisibleLayer, PushedLayer, ScanRead
<1>4. LayersFit' /\ NewIdsAreNew'
  BY <1>2, <1>3 DEF IInv, LayersFit, NewIdsAreNew
<1> QED BY <1>1, <1>2, <1>3, <1>4 DEF Implements, IInv, Layers!vars

LEMMA StepImplements ==
  ASSUME FreshUse, IInv, [Next]_vars
  PROVE  Implements
<1>1. Fetch \/ (\E i \in Ids : Subscribe(i)) => UNCHANGED vars
  BY DEF Fetch, Subscribe, FreshUse, Copies, vars
<1>2. ASSUME NEW i \in Ids, NEW c \in Entity, Insert(i, c) PROVE Implements
  BY <1>2, InsertImplements, SameChanges DEF Implements, Layers!Next
<1>3. ASSUME NEW i \in Ids, NEW c \in Patch, Update(i, c) PROVE Implements
  BY <1>3, UpdateImplements, SameChanges DEF Implements, Layers!Next
<1>4. ASSUME NEW i \in Ids, Delete(i) PROVE Implements
  BY <1>4, DeleteImplements DEF Implements, Layers!Next
<1> QED
  BY <1>1, <1>2, <1>3, <1>4, ClearImplements, SyncImplements, ServerImplements,
     AckImplements, RejectImplements, StutterImplements
  DEF Next

(* For an application that inserts new ids and writes what it sees, over a *)
(* store that copies values, the two buffers of sets and deletes behave    *)
(* like four values for an entity: queries show what was written, over     *)
(* what is pushed, over what is confirmed; and the server gets what was    *)
(* shown.                                                                  *)
THEOREM FreshUseImplementsSnapshots ==
  ASSUME FreshUse
  PROVE  Spec => ImplementsSnapshots
<1>1. Init => IInv /\ Layers!Init
  BY IInit
<1>2. IInv /\ [Next]_vars => IInv' /\ [Layers!Next]_(Layers!vars)
  BY StepImplements DEF Implements
<1> QED BY <1>1, <1>2, PTL DEF Spec, ImplementsSnapshots, Layers!Spec

(* In particular a query shows each insert, update and delete as soon as   *)
(* it is made, wherever the push of earlier writes stands.                 *)
THEOREM FreshUseWritesShow ==
  ASSUME FreshUse
  PROVE  Spec => WritesShow
<1> DEFINE Shows ==
      \A i \in Ids :
        /\ \A c \in Entity : Insert(i, c) => ScanRead(i)' = c
        /\ \A c \in Patch : Update(i, c) => ScanRead(i)' = Merge(ScanRead(i), c)
        /\ Delete(i) => ScanRead(i)' = None
<1>1. Init => IInv
  BY IInit
<1>2. IInv /\ [Next]_vars => IInv'
  BY StepImplements DEF Implements
<1>3. IInv => Shows
  <2>1. \A i \in Ids : VisibleLayer[i] = ScanRead(i) /\ VisibleLayer'[i] = ScanRead(i)'
    BY DEF VisibleLayer
  <2>2. DOMAIN VisibleLayer = Ids
    BY DEF VisibleLayer
  <2>3. ASSUME IInv, NEW i \in Ids, NEW c \in Entity, Insert(i, c) PROVE ScanRead(i)' = c
    BY <2>1, <2>2, <2>3, InsertImplements DEF Layers!Insert
  <2>4. ASSUME IInv, NEW i \in Ids, NEW c \in Patch, Update(i, c)
        PROVE  ScanRead(i)' = Merge(ScanRead(i), c)
    BY <2>1, <2>2, <2>4, UpdateImplements, SameChanges DEF Layers!Update
  <2>5. ASSUME IInv, NEW i \in Ids, Delete(i) PROVE ScanRead(i)' = None
    BY <2>1, <2>2, <2>5, DeleteImplements DEF Layers!Delete
  <2> QED BY <2>3, <2>4, <2>5
<1>4. IInv /\ [Next]_vars => [Shows]_vars
  BY <1>3
<1> QED BY <1>1, <1>2, <1>4, PTL DEF Spec, WritesShow
=============================================================================
