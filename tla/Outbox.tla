------------------------------- MODULE Outbox -------------------------------
(***************************************************************************)
(* The client's outbox and its push protocol with the server: the double   *)
(* write buffer of packages/db (KVDoubleBuffer over two DurableWriteBuffers *)
(* in the client's key-value store) and the part of the client SyncEngine  *)
(* that sends the buffer as CHANGES and handles CHANGES_ACK and ERROR.     *)
(*                                                                         *)
(* JavaScript runs one thread, but every handler is an async function: at  *)
(* each await of a storage operation the rest of the handler may be put    *)
(* off behind other tasks.  How far depends on the storage:                *)
(*   - memory: no storage operation leaves the current task;               *)
(*   - indexeddb (cached): reads are served from a B-tree, a commit waits  *)
(*     for an IndexedDB transaction (CommitsYield);                        *)
(*   - indexeddb without cache, expo-sqlite: reads wait too (ReadsYield).  *)
(* An action is the code between two such points; LoopFree says when a new *)
(* task may run between them.                                              *)
(*                                                                         *)
(* A local write is a number, in the order the application made them.  A   *)
(* buffer entry for an entity is the set of writes merged into it; the     *)
(* last of them is the value the entry gives the attribute they all set.   *)
(***************************************************************************)
EXTENDS Naturals, Sequences, FiniteSets

CONSTANTS
  Entities,      \* the entities the application writes to
  ReadsYield,    \* a storage read may let another task run
  CommitsYield,  \* a storage commit may let another task run
  MaxOverlap,    \* bound: activations suspended at the same time
  MaxWrites,     \* bound: local writes
  MaxDrops,      \* bound: connections lost or closed by the user
  MaxRejects,    \* bound: CHANGES messages the server rejects
  MaxViewErrors, \* bound: CHANGES messages applied whose view update then throws
  MaxCrashes     \* bound: restarts of the client process over the same store

ASSUME YieldAssumption == ReadsYield \in BOOLEAN /\ CommitsYield \in BOOLEAN
ASSUME BoundAssumption == /\ MaxOverlap \in Nat \ {0}
                          /\ MaxWrites \in Nat /\ MaxDrops \in Nat
                          /\ MaxRejects \in Nat /\ MaxCrashes \in Nat
                          /\ MaxViewErrors \in Nat

Writes == 1..MaxWrites

(* The stores of the client's key-value database the protocol touches: the *)
(* two halves of the outbox, and the cache of confirmed data.              *)
Buffers == {"buf0", "buf1"}
Keys == (Buffers \union {"cache"}) \X Entities
Batch == [Entities -> SUBSET Writes]
NoChanges == [e \in Entities |-> {}]

(* The async activations that may be suspended at a storage operation: a   *)
(* key-value transaction of each kind, and a syncWrites call of each caller. *)
TxKinds == {"write", "clear", "clearAll", "ack", "error"}
Callers == {"commit", "user", "clear", "ack", "ready"}
NoTx == [open |-> FALSE, keys |-> {}, vals |-> [k \in Keys |-> {}]]
Tx == [open : BOOLEAN, keys : SUBSET Keys, vals : [Keys -> SUBSET Writes]]

(* Server messages.  "changes" is a history field: the real CHANGES_ACK    *)
(* and ERROR carry no identity of the push they answer.                    *)
Ready == [type |-> "READY", changes |-> NoChanges]
Ack(batch) == [type |-> "CHANGES_ACK", changes |-> batch]
Error(batch) == [type |-> "ERROR", changes |-> batch]
ServerMessage == [type : {"READY", "CHANGES_ACK", "ERROR"}, changes : Batch]

VARIABLES
  kv,             \* the client's key-value store
  active,         \* activeBufferIndex: the buffer local writes go to
  tx,             \* the key-value transactions that wait for their commit
  call,           \* where each syncWrites call is suspended
  dirty,          \* a commit asked the throttled onCommit callback to sync
  syncInProgress, serverReady, status,   \* SyncEngine fields
  link,           \* the WebSocket is OPEN
  canSync,        \* the server's SyncConnection has sent READY
  up, down,       \* messages of the current connection
  applied,        \* the writes the server has applied
  serverLast,     \* per entity, the last entry the server applied
  n,              \* local writes started
  committed,      \* history: writes whose transact() has resolved
  latest,         \* history: the last committed write of each entity
  discarded,      \* history: writes the application cleared from the outbox
  drops, rejects, viewErrors, crashes

storeVars == <<kv, active, tx>>
engineVars == <<call, dirty, syncInProgress, serverReady, status>>
netVars == <<link, canSync, up, down>>
serverVars == <<applied, serverLast>>
historyVars == <<n, committed, latest, discarded>>
boundVars == <<drops, rejects, viewErrors, crashes>>
vars == <<storeVars, engineVars, netVars, serverVars, historyVars, boundVars>>

-----------------------------------------------------------------------------
(* Definitions named Bad... are plausible bugs: each replaces the one it   *)
(* precedes to show that a property notices.                               *)
Switched == IF active = "buf0" THEN "buf1" ELSE "buf0"
locked == IF active = "buf0" THEN "buf1" ELSE "buf0"
Contents(b) == [e \in Entities |-> kv[<<b, e>>]]
Pending(b) == {e \in Entities : kv[<<b, e>>] # {}}

(* commit() overwrites exactly the keys the transaction set or deleted.    *)
Committed(kind) ==
  [k \in Keys |-> IF k \in tx[kind].keys THEN tx[kind].vals[k] ELSE kv[k]]
Open(kind, keys, vals) ==
  [tx EXCEPT ![kind] = [open |-> TRUE, keys |-> keys, vals |-> vals]]
Close(kind) == [tx EXCEPT ![kind] = NoTx]

(* The edits that move what buffer "from" holds into the store "to": merge *)
(* it over the entries there, and delete it from the buffer.               *)
BadMoveKeys(from, to) == {to} \X Pending(from)
MoveKeys(from, to) == {from, to} \X Pending(from)
BadMoveVals(from, to) ==
  [k \in Keys |-> IF k[1] = to THEN kv[<<from, k[2]>>] ELSE {}]
MoveVals(from, to) ==
  [k \in Keys |-> IF k[1] = to THEN kv[k] \union kv[<<from, k[2]>>] ELSE {}]

MidCommit == \E kind \in TxKinds : tx[kind].open
MidRead == \E c \in Callers : call[c] # "idle"
(* A suspended activation lets other tasks run only where storage yields.  *)
Suspended == Cardinality({kind \in TxKinds : tx[kind].open})
             + Cardinality({c \in Callers : call[c] # "idle"})
ReadsDone == MidRead => ReadsYield
CommitsDone == MidCommit => CommitsYield
LoopFree == ReadsDone /\ CommitsDone /\ Suspended < MaxOverlap

-----------------------------------------------------------------------------
(* Local writes: transact() writes the changes to the active buffer inside *)
(* its transaction, then commits; the listeners run after the commit.      *)
WriteBegin(e) ==
  LET key == <<active, e>>
  IN  /\ LoopFree
      /\ ~tx["write"].open
      /\ n < MaxWrites
      /\ n' = n + 1
      /\ tx' = Open("write", {key},
                    [k \in Keys |-> IF k = key THEN kv[k] \union {n + 1} ELSE {}])
      /\ UNCHANGED <<kv, active, engineVars, netVars, serverVars,
                     committed, latest, discarded, boundVars>>

WriteCommit ==
  /\ tx["write"].open
  /\ ReadsDone
  /\ kv' = Committed("write")
  /\ tx' = Close("write")
  /\ dirty' = TRUE
  /\ committed' = committed \union {n}
  /\ latest' = [e \in Entities |-> IF \E b \in Buffers : <<b, e>> \in tx["write"].keys
                                   THEN n ELSE latest[e]]
  /\ UNCHANGED <<active, call, syncInProgress, serverReady, status, netVars,
                 serverVars, n, discarded, boundVars>>

-----------------------------------------------------------------------------
(* syncWrites().  CanSync is its three early returns; Starting(c) is the   *)
(* call up to its first await, given syncInProgress has the value s.       *)
BadCanSync(s) == status = "OPEN" /\ serverReady
CanSync(s) == ~s /\ status = "OPEN" /\ serverReady
Starting(c, s) == IF CanSync(s) THEN [call EXCEPT ![c] = "isEmpty"] ELSE call

(* The throttled onCommit callback.                                        *)
SyncOnCommit ==
  /\ LoopFree
  /\ dirty
  /\ call["commit"] = "idle"
  /\ dirty' = FALSE
  /\ call' = Starting("commit", syncInProgress)
  /\ UNCHANGED <<storeVars, syncInProgress, serverReady, status, netVars,
                 serverVars, historyVars, boundVars>>

(* The application calls client.syncWrites().                              *)
SyncByUser ==
  /\ LoopFree
  /\ call["user"] = "idle"
  /\ CanSync(syncInProgress)
  /\ call' = Starting("user", syncInProgress)
  /\ UNCHANGED <<storeVars, dirty, syncInProgress, serverReady, status, netVars,
                 serverVars, historyVars, boundVars>>

(* isEmpty() of the locked buffer has resolved: switch if it is empty, and *)
(* enter trySyncLockedBuffer up to its await.                              *)
BadShouldSwitch == TRUE
ShouldSwitch == Contents(locked) = NoChanges

SyncSwitch(c) ==
  /\ call[c] = "isEmpty"
  /\ CommitsDone
  /\ active' = IF ShouldSwitch THEN Switched ELSE active
  /\ syncInProgress' = TRUE
  /\ call' = [call EXCEPT ![c] = "getChanges"]
  /\ UNCHANGED <<kv, tx, dirty, serverReady, status, netVars, serverVars,
                 historyVars, boundVars>>

(* getChanges() of the locked buffer has resolved: send it if it holds     *)
(* anything.  sendMessage drops the message when the socket is not open.   *)
BadSends(changes) == TRUE
Sends(changes) == changes # NoChanges

SyncSend(c) ==
  LET changes == Contents(locked)
  IN  /\ call[c] = "getChanges"
      /\ CommitsDone
      /\ call' = [call EXCEPT ![c] = "idle"]
      /\ syncInProgress' = Sends(changes)
      /\ up' = IF changes # NoChanges /\ link THEN Append(up, changes) ELSE up
      /\ UNCHANGED <<storeVars, dirty, serverReady, status, link, canSync, down,
                     serverVars, historyVars, boundVars>>

-----------------------------------------------------------------------------
(* The server.  A SyncConnection announces READY once it may sync, and     *)
(* answers anything before that with an ERROR.                             *)
ServerStart ==
  /\ link
  /\ ~canSync
  /\ canSync' = TRUE
  /\ down' = Append(down, Ready)
  /\ UNCHANGED <<storeVars, engineVars, link, up, serverVars, historyVars, boundVars>>

ServerNotReady ==
  /\ up # <<>>
  /\ ~canSync
  /\ up' = Tail(up)
  /\ down' = Append(down, Error(Head(up)))
  /\ UNCHANGED <<storeVars, engineVars, link, canSync, serverVars, historyVars, boundVars>>

(* handleChangesMessage applies the whole batch in one transaction and     *)
(* acknowledges it; then it updates the query views of every subscriber,   *)
(* and an error thrown there is answered as if the batch had failed.       *)
ServerApplies(batch) ==
  /\ applied' = applied \union UNION {batch[e] : e \in Entities}
  /\ serverLast' = [e \in Entities |-> IF batch[e] = {} THEN serverLast[e] ELSE batch[e]]

ServerApply ==
  /\ up # <<>>
  /\ canSync
  /\ up' = Tail(up)
  /\ ServerApplies(Head(up))
  /\ down' = Append(down, Ack(Head(up)))
  /\ UNCHANGED <<storeVars, engineVars, link, canSync, historyVars, boundVars>>

ServerApplyViewError ==
  /\ up # <<>>
  /\ canSync
  /\ viewErrors < MaxViewErrors
  /\ viewErrors' = viewErrors + 1
  /\ up' = Tail(up)
  /\ ServerApplies(Head(up))
  /\ down' = down \o <<Ack(Head(up)), Error(Head(up))>>
  /\ UNCHANGED <<storeVars, engineVars, link, canSync, historyVars, drops, rejects, crashes>>

ServerReject ==
  /\ up # <<>>
  /\ canSync
  /\ rejects < MaxRejects
  /\ rejects' = rejects + 1
  /\ up' = Tail(up)
  /\ down' = Append(down, Error(Head(up)))
  /\ UNCHANGED <<storeVars, engineVars, link, canSync, serverVars, historyVars,
                 drops, viewErrors, crashes>>

-----------------------------------------------------------------------------
Receives(type) == down # <<>> /\ Head(down).type = type

(* READY: the first one of a connection starts the sync.                   *)
HandleReady ==
  /\ LoopFree
  /\ Receives("READY")
  /\ call["ready"] = "idle"
  /\ down' = Tail(down)
  /\ serverReady' = TRUE
  /\ call' = IF ~serverReady /\ ~syncInProgress /\ status = "OPEN"
             THEN [call EXCEPT !["ready"] = "isEmpty"] ELSE call
  /\ UNCHANGED <<storeVars, dirty, syncInProgress, status, link, canSync, up, serverVars,
                 historyVars, boundVars>>

(* CHANGES_ACK: whatever the locked buffer holds now moves to the cache.   *)
AckBegin ==
  /\ LoopFree
  /\ Receives("CHANGES_ACK")
  /\ ~tx["ack"].open
  /\ call["ack"] = "idle"
  /\ down' = Tail(down)
  /\ tx' = Open("ack", MoveKeys(locked, "cache"), MoveVals(locked, "cache"))
  /\ UNCHANGED <<kv, active, engineVars, link, canSync, up, serverVars,
                 historyVars, boundVars>>

AckCommit ==
  /\ tx["ack"].open
  /\ ReadsDone
  /\ kv' = Committed("ack")
  /\ tx' = Close("ack")
  /\ syncInProgress' = FALSE
  /\ call' = Starting("ack", FALSE)
  /\ UNCHANGED <<active, dirty, serverReady, status, netVars, serverVars,
                 historyVars, boundVars>>

(* ERROR for CHANGES: the unlocked changes are rebased on the failed ones  *)
(* and the buffers switch, so that the application can repair them.        *)
ErrorBegin ==
  /\ LoopFree
  /\ Receives("ERROR")
  /\ ~tx["error"].open
  /\ down' = Tail(down)
  /\ tx' = Open("error", MoveKeys(active, locked), MoveVals(active, locked))
  /\ UNCHANGED <<kv, active, engineVars, link, canSync, up, serverVars,
                 historyVars, boundVars>>

ErrorCommit ==
  /\ tx["error"].open
  /\ ReadsDone
  /\ kv' = Committed("error")
  /\ tx' = Close("error")
  /\ active' = Switched
  /\ syncInProgress' = FALSE
  /\ UNCHANGED <<call, dirty, serverReady, status, netVars, serverVars,
                 historyVars, boundVars>>

-----------------------------------------------------------------------------
(* The application gives up pending changes of one entity, or all of them. *)
ClearBegin(kind, es) ==
  /\ LoopFree
  /\ ~tx[kind].open
  /\ es # {}
  /\ tx' = Open(kind, {active} \X es, [k \in Keys |-> {}])
  /\ UNCHANGED <<kv, active, engineVars, netVars, serverVars, historyVars, boundVars>>

ClearEntityBegin(e) ==
  /\ call["clear"] = "idle"
  /\ ClearBegin("clear", Pending(active) \intersect {e})
ClearAllBegin == ClearBegin("clearAll", Pending(active))

ClearCommit(kind) ==
  /\ tx[kind].open
  /\ ReadsDone
  /\ kv' = Committed(kind)
  /\ tx' = Close(kind)
  /\ discarded' = discarded \union UNION {kv[k] : k \in tx[kind].keys}
  /\ UNCHANGED <<active, dirty, syncInProgress, serverReady, status, netVars,
                 serverVars, n, committed, latest, boundVars>>

(* clearPendingChangesForEntity ends in syncWrites(), the other does not.  *)
ClearEntityCommit ==
  /\ ClearCommit("clear")
  /\ call' = Starting("clear", syncInProgress)

ClearAllCommit ==
  /\ ClearCommit("clearAll")
  /\ UNCHANGED call

-----------------------------------------------------------------------------
(* resetSyncConnectionState(), what it does to the outbox.                 *)
BadResetSync == UNCHANGED syncInProgress
ResetSync == syncInProgress' = FALSE

(* The connection.  A lost socket takes the messages in flight with it; its *)
(* onclose handler runs later.  disconnect() marks the session CLOSING.    *)
Drop ==
  /\ LoopFree
  /\ link
  /\ drops < MaxDrops
  /\ drops' = drops + 1
  /\ link' = FALSE
  /\ canSync' = FALSE
  /\ up' = <<>>
  /\ down' = <<>>
  /\ status' \in {"OPEN", "CLOSING"}
  /\ UNCHANGED <<storeVars, call, dirty, syncInProgress, serverReady, serverVars,
                 historyVars, rejects, viewErrors, crashes>>

OnClose ==
  /\ LoopFree
  /\ ~link
  /\ status # "CLOSED"
  /\ status' = "CLOSED"
  /\ serverReady' = FALSE
  /\ ResetSync
  /\ UNCHANGED <<storeVars, call, dirty, netVars, serverVars, historyVars, boundVars>>

(* The socket opens.                                                       *)
Connect ==
  /\ LoopFree
  /\ status = "CLOSED"
  /\ status' = "OPEN"
  /\ link' = TRUE
  /\ UNCHANGED <<storeVars, call, dirty, syncInProgress, serverReady, canSync, up, down,
                 serverVars, historyVars, boundVars>>

(* The process ends and starts again over the same store: everything but   *)
(* the store is lost, activeBufferIndex included.                          *)
Crash ==
  /\ crashes < MaxCrashes
  /\ crashes' = crashes + 1
  /\ active' = "buf0"
  /\ tx' = [kind \in TxKinds |-> NoTx]
  /\ call' = [c \in Callers |-> "idle"]
  /\ dirty' = FALSE
  /\ syncInProgress' = FALSE
  /\ serverReady' = FALSE
  /\ status' = "CLOSED"
  /\ link' = FALSE
  /\ canSync' = FALSE
  /\ up' = <<>>
  /\ down' = <<>>
  /\ UNCHANGED <<kv, serverVars, historyVars, drops, rejects, viewErrors>>

-----------------------------------------------------------------------------
Init ==
  /\ kv = [k \in Keys |-> {}]
  /\ active = "buf0"
  /\ tx = [kind \in TxKinds |-> NoTx]
  /\ call = [c \in Callers |-> "idle"]
  /\ dirty = FALSE
  /\ syncInProgress = FALSE
  /\ serverReady = FALSE
  /\ status = "CLOSED"
  /\ link = FALSE
  /\ canSync = FALSE
  /\ up = <<>>
  /\ down = <<>>
  /\ applied = {}
  /\ serverLast = NoChanges
  /\ n = 0
  /\ committed = {}
  /\ latest = [e \in Entities |-> 0]
  /\ discarded = {}
  /\ drops = 0
  /\ rejects = 0
  /\ viewErrors = 0
  /\ crashes = 0

Next ==
  \/ \E e \in Entities : WriteBegin(e) \/ ClearEntityBegin(e)
  \/ WriteCommit
  \/ ClearAllBegin \/ ClearEntityCommit \/ ClearAllCommit
  \/ SyncOnCommit \/ SyncByUser
  \/ \E c \in Callers : SyncSwitch(c) \/ SyncSend(c)
  \/ ServerStart \/ ServerNotReady
  \/ ServerApply \/ ServerApplyViewError \/ ServerReject
  \/ HandleReady \/ AckBegin \/ AckCommit \/ ErrorBegin \/ ErrorCommit
  \/ Drop \/ OnClose \/ Connect
  \/ Crash

Spec == Init /\ [][Next]_vars

(* What the event loop, the storage, the network and the server guarantee: *)
(* a resolved await resumes, a message on an open connection is delivered  *)
(* and handled, a closed connection is reported and opened again.  Nothing *)
(* makes the user write, clear, call syncWrites or disconnect.             *)
Fairness ==
  /\ WF_vars(WriteCommit) /\ WF_vars(ClearEntityCommit) /\ WF_vars(ClearAllCommit)
  /\ WF_vars(SyncOnCommit)
  /\ \A c \in Callers : WF_vars(SyncSwitch(c)) /\ WF_vars(SyncSend(c))
  /\ WF_vars(ServerStart) /\ WF_vars(ServerNotReady)
  /\ WF_vars(ServerApply \/ ServerApplyViewError \/ ServerReject)
  /\ WF_vars(HandleReady)
  /\ WF_vars(AckBegin) /\ WF_vars(AckCommit)
  /\ WF_vars(ErrorBegin) /\ WF_vars(ErrorCommit)
  /\ WF_vars(OnClose) /\ WF_vars(Connect)

FairSpec == Spec /\ Fairness

-----------------------------------------------------------------------------
(* Properties.                                                             *)

Outboxed(e) == kv[<<"buf0", e>>] \union kv[<<"buf1", e>>]

TypeOK ==
  /\ kv \in [Keys -> SUBSET Writes]
  /\ active \in Buffers
  /\ tx \in [TxKinds -> Tx]
  /\ call \in [Callers -> {"idle", "isEmpty", "getChanges"}]
  /\ dirty \in BOOLEAN /\ syncInProgress \in BOOLEAN /\ serverReady \in BOOLEAN
  /\ status \in {"OPEN", "CLOSING", "CLOSED"}
  /\ link \in BOOLEAN /\ canSync \in BOOLEAN
  /\ up \in Seq(Batch) /\ down \in Seq(ServerMessage)
  /\ applied \in SUBSET Writes /\ serverLast \in Batch
  /\ n \in 0..MaxWrites
  /\ committed \in SUBSET Writes /\ discarded \in SUBSET Writes
  /\ latest \in [Entities -> 0..MaxWrites]
  /\ drops \in 0..MaxDrops /\ rejects \in 0..MaxRejects
  /\ viewErrors \in 0..MaxViewErrors /\ crashes \in 0..MaxCrashes

(* A write whose transact() resolved is still in the outbox until the      *)
(* server has applied it or the application has given it up, through lost  *)
(* connections, rejected pushes and restarts.                              *)
NoWriteLost ==
  \A w \in committed :
    w \in applied \union discarded \/ \E e \in Entities : w \in Outboxed(e)

(* "The cache is a local copy of the data that has been confirmed to have  *)
(* been received by the server" (docs/src/pages/client/index.mdx).         *)
CacheConfirmed == \A e \in Entities : kv[<<"cache", e>>] \subseteq applied

(* syncWrites is a no-op while a push is in progress: at most one CHANGES  *)
(* of a connection is unanswered.                                          *)
OnePushInFlight ==
  Len(up) + Cardinality({i \in DOMAIN down : down[i].type # "READY"}) <= 1

(* An answer carries no identity, so the client applies it to whatever the *)
(* locked buffer holds: that is exactly the push being answered.           *)
AnswerMatchesLocked ==
  /\ \A i \in DOMAIN up : up[i] = Contents(locked)
  /\ \A i \in DOMAIN down : down[i].type # "READY" => down[i].changes = Contents(locked)

(* The push protocol implements Push: whatever is lost, refused or resent  *)
(* between the two, a batch is handed over whole, one at a time, and what  *)
(* is confirmed or returned is the batch that the server had.              *)
Atomic == INSTANCE Push WITH
  written <- committed,
  queue <- Contents(active),
  batch <- Contents(locked),
  confirmed <- Contents("cache"),
  server <- serverLast

ImplementsPush == Atomic!Spec

(* What a query on the client sees of e: the unlocked buffer over the      *)
(* locked one over the cache.                                              *)
BadLocalView(e) ==
  IF kv[<<locked, e>>] # {} THEN kv[<<locked, e>>]
  ELSE IF kv[<<active, e>>] # {} THEN kv[<<active, e>>]
  ELSE kv[<<"cache", e>>]
LocalView(e) ==
  IF kv[<<active, e>>] # {} THEN kv[<<active, e>>]
  ELSE IF kv[<<locked, e>>] # {} THEN kv[<<locked, e>>]
  ELSE kv[<<"cache", e>>]

IsLast(w, entry) == w \in entry /\ \A v \in entry : v <= w

(* A client that has not restarted sees its own last write of an entity,   *)
(* whatever the push protocol is doing, unless it gave that write up.      *)
ReadYourWrites ==
  crashes = 0 =>
    \A e \in Entities :
      latest[e] \in {0} \union discarded \/ IsLast(latest[e], LocalView(e))

(* The server never replaces the value of an entity by one the same client *)
(* wrote earlier, as long as the client has not restarted.                 *)
ServerNeverReverts ==
  [][crashes = 0 =>
       \A e \in Entities : \A v \in serverLast[e] : \E w \in serverLast'[e] : v <= w]_vars

(* The same without the restriction: the outbox is a queue, also for a     *)
(* client that restarts over durable storage.                              *)
QueueOrder ==
  [][\A e \in Entities : \A v \in serverLast[e] : \E w \in serverLast'[e] : v <= w]_vars

(* A write that reached the cache does not leave it.                       *)
ConfirmedStays ==
  [][\A e \in Entities : kv[<<"cache", e>>] \subseteq kv'[<<"cache", e>>]]_vars

(* Every committed write reaches the server or is given up, once the       *)
(* connection stays up and the server rejects nothing.                     *)
EventuallySynced ==
  \A w \in Writes :
    w \in committed ~> w \in applied \union discarded \/ rejects + viewErrors > 0

(* While the connection lasts, a push that started is settled: whatever    *)
(* interleaves with it, some handler resets syncInProgress.                *)
PushSettles == syncInProgress ~> ~syncInProgress \/ drops > 0
=============================================================================
