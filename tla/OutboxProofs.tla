---------------------------- MODULE OutboxProofs ----------------------------
(* Proofs about Outbox for every value of its constants.                   *)
EXTENDS Outbox, FiniteSetTheorems, TLAPS

(* The storages whose operations do not leave the current task (memory, and *)
(* a synchronous store), with a server whose view updates do not throw.    *)
SerialBuild == ~ReadsYield /\ ~CommitsYield /\ MaxViewErrors = 0

-----------------------------------------------------------------------------
(* The inductive invariant of a serial build.                              *)

(* At most one activation is suspended.                                    *)
OneActivation ==
  /\ \A i, j \in TxKinds : tx[i].open /\ tx[j].open => i = j
  /\ \A c, d \in Callers : call[c] # "idle" /\ call[d] # "idle" => c = d
  /\ ~(MidCommit /\ MidRead)

(* The client believes the server ready only on a connection that is.      *)
Session ==
  /\ ~link => ~canSync
  /\ ~canSync => up = <<>> /\ down = <<>>
  /\ status = "CLOSED" => ~link /\ ~serverReady
  /\ serverReady /\ link => canSync
  /\ ~serverReady =>
       ~syncInProgress /\ ~MidRead /\ ~tx["ack"].open /\ ~tx["error"].open

(* At most one message is on the connection.  If it is a push or its       *)
(* answer, a push is in progress and the locked buffer still holds it.     *)
InFlight ==
  LET pushed == Contents(locked)
  IN  /\ up \in {<<>>, <<pushed>>}
      /\ down \in {<<>>, <<Ready>>, <<Ack(pushed)>>, <<Error(pushed)>>}
      /\ up # <<>> => down = <<>> /\ serverReady /\ syncInProgress
      /\ down = <<Ready>> => ~serverReady
      /\ down \notin {<<>>, <<Ready>>} => serverReady /\ syncInProgress
      /\ down = <<Ack(pushed)>> => \A e \in Entities : kv[<<locked, e>>] \subseteq applied

(* A suspended syncWrites has the connection to itself.                    *)
Calls ==
  \A c \in Callers :
    /\ call[c] = "isEmpty" => ~syncInProgress
    /\ call[c] # "idle" => up = <<>> /\ down = <<>>

(* An open transaction holds the edits that the store and the buffers now  *)
(* in their roles ask for.                                                 *)
WriteTx ==
  tx["write"].open =>
    \E e \in Entities :
      /\ tx["write"].keys = {<<active, e>>}
      /\ tx["write"].vals[<<active, e>>] = kv[<<active, e>>] \union {n}
ClearTx ==
  \A kind \in {"clear", "clearAll"} :
    tx[kind].open => /\ tx[kind].keys \subseteq {active} \X Entities
                     /\ \A k \in Keys : tx[kind].vals[k] = {}
AckTx ==
  tx["ack"].open =>
    /\ up = <<>> /\ down = <<>>
    /\ tx["ack"].keys = MoveKeys(locked, "cache")
    /\ tx["ack"].vals = MoveVals(locked, "cache")
    /\ \A e \in Entities : kv[<<locked, e>>] \subseteq applied
ErrorTx ==
  tx["error"].open =>
    /\ up = <<>> /\ down = <<>>
    /\ tx["error"].keys = MoveKeys(active, locked)
    /\ tx["error"].vals = MoveVals(active, locked)

(* A local write has its number before its transaction opens.              *)
WriteNumbered == tx["write"].open => n # 0

Protocol == OneActivation /\ Session /\ InFlight /\ Calls
Transactions == WriteTx /\ ClearTx /\ AckTx /\ ErrorTx
SInv == Protocol /\ Transactions /\ NoWriteLost /\ CacheConfirmed
IInv == TypeOK /\ WriteNumbered /\ SInv

-----------------------------------------------------------------------------
(* Type correctness, in every build.                                       *)

LEMMA BuffersType == TypeOK => /\ locked \in Buffers /\ locked # active
                              /\ Switched = locked
  BY DEF TypeOK, Buffers, locked, Switched

LEMMA KeysType ==
  \A b \in Buffers \union {"cache"}, e \in Entities : <<b, e>> \in Keys
  BY DEF Keys

LEMMA ContentsType == TypeOK => \A b \in Buffers : Contents(b) \in Batch
  <1> SUFFICES ASSUME TypeOK, NEW b \in Buffers, NEW e \in Entities
               PROVE  kv[<<b, e>>] \in SUBSET Writes
    BY DEF Contents, Batch
  <1> QED BY KeysType DEF TypeOK

LEMMA MessageType ==
  ASSUME NEW batch \in Batch
  PROVE  Ready \in ServerMessage /\ Ack(batch) \in ServerMessage /\ Error(batch) \in ServerMessage
  BY DEF Ready, Ack, Error, ServerMessage, NoChanges, Batch

LEMMA MoveType ==
  ASSUME TypeOK, NEW from \in Buffers, NEW to \in Buffers \union {"cache"}
  PROVE  /\ MoveKeys(from, to) \in SUBSET Keys
         /\ MoveVals(from, to) \in [Keys -> SUBSET Writes]
  <1>1. MoveKeys(from, to) \in SUBSET Keys
    BY DEF MoveKeys, Pending, Keys
  <1>2. ASSUME NEW k \in Keys PROVE kv[k] \in SUBSET Writes /\ kv[<<from, k[2]>>] \in SUBSET Writes
    BY KeysType DEF TypeOK, Keys
  <1> QED BY <1>1, <1>2 DEF MoveVals

LEMMA OpenType ==
  ASSUME TypeOK, NEW kind \in TxKinds, NEW keys \in SUBSET Keys, NEW vals \in [Keys -> SUBSET Writes]
  PROVE  Open(kind, keys, vals) \in [TxKinds -> Tx]
  <1>1. [open |-> TRUE, keys |-> keys, vals |-> vals] \in Tx
    BY DEF Tx
  <1> QED BY <1>1 DEF Open, TypeOK

LEMMA NoTxType == NoTx \in Tx
  BY DEF NoTx, Tx

LEMMA CloseType ==
  ASSUME TypeOK, NEW kind \in TxKinds
  PROVE  /\ Close(kind) \in [TxKinds -> Tx]
         /\ Committed(kind) \in [Keys -> SUBSET Writes]
  <1>1. tx \in [TxKinds -> Tx] /\ kv \in [Keys -> SUBSET Writes]
    BY DEF TypeOK
  <1>2. Committed(kind) \in [Keys -> SUBSET Writes]
    BY <1>1 DEF Committed, Tx
  <1> QED BY <1>1, <1>2, NoTxType DEF Close

LEMMA TypeInit == Init => TypeOK /\ WriteNumbered
  <1> SUFFICES ASSUME Init PROVE TypeOK /\ WriteNumbered
    OBVIOUS
  <1>1. /\ kv \in [Keys -> SUBSET Writes]
        /\ tx \in [TxKinds -> Tx]
        /\ call \in [Callers -> {"idle", "isEmpty", "getChanges"}]
        /\ serverLast \in Batch
        /\ latest \in [Entities -> 0..MaxWrites]
    BY NoTxType, BoundAssumption DEF Init, NoChanges, Batch
  <1>2. up \in Seq(Batch) /\ down \in Seq(ServerMessage)
    BY DEF Init
  <1>3. /\ n \in 0..MaxWrites /\ drops \in 0..MaxDrops /\ rejects \in 0..MaxRejects
        /\ viewErrors \in 0..MaxViewErrors /\ crashes \in 0..MaxCrashes
    BY BoundAssumption DEF Init
  <1>4. TypeOK
    BY <1>1, <1>2, <1>3 DEF Init, TypeOK, Buffers
  <1>5. WriteNumbered
    BY DEF Init, WriteNumbered, NoTx, TxKinds
  <1> QED BY <1>4, <1>5

LEMMA TypeNext == TypeOK /\ WriteNumbered /\ [Next]_vars => TypeOK' /\ WriteNumbered'
  <1> SUFFICES ASSUME TypeOK, WriteNumbered, [Next]_vars PROVE TypeOK' /\ WriteNumbered'
    OBVIOUS
  <1> USE BoundAssumption
  <1>k. /\ "write" \in TxKinds /\ "ack" \in TxKinds /\ "error" \in TxKinds
        /\ "clear" \in TxKinds /\ "clearAll" \in TxKinds
    BY DEF TxKinds
  <1>w. ASSUME NEW e \in Entities, WriteBegin(e) PROVE TypeOK' /\ WriteNumbered'
    <2> DEFINE key == <<active, e>>
    <2> DEFINE vals == [k \in Keys |-> IF k = key THEN kv[k] \union {n + 1} ELSE {}]
    <2>1. n + 1 \in Writes /\ n + 1 \in 0..MaxWrites /\ n + 1 # 0
      BY <1>w DEF WriteBegin, TypeOK, Writes
    <2>2. vals \in [Keys -> SUBSET Writes]
      BY <2>1 DEF TypeOK
    <2>3. {key} \in SUBSET Keys
      BY KeysType DEF TypeOK
    <2>4. Open("write", {key}, vals) \in [TxKinds -> Tx]
      BY <2>2, <2>3, <1>k, OpenType
    <2> QED BY <1>w, <2>1, <2>4
            DEF WriteBegin, TypeOK, WriteNumbered, engineVars, netVars, serverVars, boundVars
  <1>wc. ASSUME WriteCommit PROVE TypeOK' /\ WriteNumbered'
    <2>1. n \in Writes
      BY <1>wc DEF WriteCommit, WriteNumbered, TypeOK, Writes
    <2>2. Close("write") \in [TxKinds -> Tx] /\ Committed("write") \in [Keys -> SUBSET Writes]
      BY <1>k, CloseType
    <2>3. latest' \in [Entities -> 0..MaxWrites]
      BY <1>wc DEF WriteCommit, TypeOK
    <2> QED BY <1>wc, <1>k, <2>1, <2>2, <2>3
            DEF WriteCommit, Close, NoTx, TypeOK, WriteNumbered, netVars, serverVars, boundVars
  <1>sc. ASSUME SyncOnCommit \/ SyncByUser PROVE TypeOK' /\ WriteNumbered'
    BY <1>sc, ZenonT(60) DEF SyncOnCommit, SyncByUser, Starting, Callers, TypeOK, WriteNumbered,
                 storeVars, netVars, serverVars, historyVars, boundVars
  <1>ss. ASSUME NEW c \in Callers, SyncSwitch(c) PROVE TypeOK' /\ WriteNumbered'
    BY <1>ss, BuffersType
       DEF SyncSwitch, TypeOK, WriteNumbered, netVars, serverVars, historyVars, boundVars
  <1>se. ASSUME NEW c \in Callers, SyncSend(c) PROVE TypeOK' /\ WriteNumbered'
    <2>1. Contents(locked) \in Batch
      BY BuffersType, ContentsType
    <2>2. up' \in Seq(Batch)
      BY <1>se, <2>1 DEF SyncSend, TypeOK
    <2> QED BY <1>se, <2>2
            DEF SyncSend, Sends, TypeOK, WriteNumbered, storeVars, serverVars, historyVars, boundVars
  <1>st. ASSUME ServerStart PROVE TypeOK' /\ WriteNumbered'
    <2>1. Ready \in ServerMessage
      BY DEF Ready, ServerMessage, NoChanges, Batch
    <2>2. down' \in Seq(ServerMessage)
      BY <1>st, <2>1 DEF ServerStart, TypeOK
    <2> QED BY <1>st, <2>2
            DEF ServerStart, TypeOK, WriteNumbered, storeVars, engineVars, serverVars, historyVars, boundVars
  <1>sv. ASSUME ServerNotReady \/ ServerApply \/ ServerApplyViewError \/ ServerReject
         PROVE  TypeOK' /\ WriteNumbered'
    <2> DEFINE batch == Head(up)
    <2>1. up # <<>> /\ batch \in Batch /\ Tail(up) \in Seq(Batch)
      BY <1>sv DEF ServerNotReady, ServerApply, ServerApplyViewError, ServerReject, TypeOK
    <2>2. Ack(batch) \in ServerMessage /\ Error(batch) \in ServerMessage
      BY <2>1, MessageType
    <2>3. down' \in Seq(ServerMessage)
      <3>1. /\ Append(down, Ack(batch)) \in Seq(ServerMessage)
            /\ Append(down, Error(batch)) \in Seq(ServerMessage)
        BY <2>2 DEF TypeOK
      <3>2. <<Ack(batch), Error(batch)>> \in Seq(ServerMessage)
        BY <2>2
      <3>3. down \o <<Ack(batch), Error(batch)>> \in Seq(ServerMessage)
        BY <3>2 DEF TypeOK
      <3> QED BY <1>sv, <3>1, <3>3 DEF ServerNotReady, ServerApply, ServerApplyViewError, ServerReject
    <2>4. up' \in Seq(Batch)
      BY <1>sv, <2>1 DEF ServerNotReady, ServerApply, ServerApplyViewError, ServerReject
    <2>5. applied' \in SUBSET Writes /\ serverLast' \in Batch
      <3>1. CASE ServerApplies(batch)
        BY <2>1, <3>1 DEF ServerApplies, Batch, TypeOK
      <3>2. CASE UNCHANGED serverVars
        BY <3>2 DEF serverVars, TypeOK
      <3> QED BY <1>sv, <3>1, <3>2
              DEF ServerNotReady, ServerApply, ServerApplyViewError, ServerReject
    <2>6. rejects' \in 0..MaxRejects /\ viewErrors' \in 0..MaxViewErrors
      BY <1>sv, SMTT(30) DEF ServerNotReady, ServerApply, ServerApplyViewError, ServerReject,
          boundVars, TypeOK
    <2>7. UNCHANGED <<storeVars, engineVars, link, canSync, historyVars, drops, crashes>>
      BY <1>sv DEF ServerNotReady, ServerApply, ServerApplyViewError, ServerReject, boundVars
    <2> QED BY <2>3, <2>4, <2>5, <2>6, <2>7
            DEF TypeOK, WriteNumbered, storeVars, engineVars, historyVars
  <1>r. ASSUME HandleReady PROVE TypeOK' /\ WriteNumbered'
    BY <1>r DEF HandleReady, Receives, Callers, TypeOK, WriteNumbered, storeVars, serverVars,
                historyVars, boundVars
  <1>a. ASSUME AckBegin PROVE TypeOK' /\ WriteNumbered'
    <2>1. Open("ack", MoveKeys(locked, "cache"), MoveVals(locked, "cache")) \in [TxKinds -> Tx]
      BY <1>k, BuffersType, MoveType, OpenType
    <2> QED BY <1>a, <2>1
            DEF AckBegin, Receives, Open, TypeOK, WriteNumbered, engineVars, serverVars, historyVars, boundVars
  <1>ac. ASSUME AckCommit PROVE TypeOK' /\ WriteNumbered'
    <2>1. Close("ack") \in [TxKinds -> Tx] /\ Committed("ack") \in [Keys -> SUBSET Writes]
      BY <1>k, CloseType
    <2>2. tx'["write"] = tx["write"]
      BY <1>ac, <1>k DEF AckCommit, Close, TypeOK
    <2> QED BY <1>ac, <2>1, <2>2
            DEF AckCommit, Starting, Callers, TypeOK, WriteNumbered, netVars, serverVars, historyVars, boundVars
  <1>e. ASSUME ErrorBegin PROVE TypeOK' /\ WriteNumbered'
    <2>1. Open("error", MoveKeys(active, locked), MoveVals(active, locked)) \in [TxKinds -> Tx]
      BY <1>k, BuffersType, MoveType, OpenType DEF TypeOK
    <2> QED BY <1>e, <2>1
            DEF ErrorBegin, Receives, Open, TypeOK, WriteNumbered, engineVars, serverVars, historyVars, boundVars
  <1>ec. ASSUME ErrorCommit PROVE TypeOK' /\ WriteNumbered'
    <2>1. Close("error") \in [TxKinds -> Tx] /\ Committed("error") \in [Keys -> SUBSET Writes]
      BY <1>k, CloseType
    <2>2. tx'["write"] = tx["write"]
      BY <1>ec, <1>k DEF ErrorCommit, Close, TypeOK
    <2> QED BY <1>ec, <2>1, <2>2, BuffersType
            DEF ErrorCommit, TypeOK, WriteNumbered, netVars, serverVars, historyVars, boundVars
  <1>c. ASSUME NEW kind \in {"clear", "clearAll"}, NEW es \in SUBSET Entities, ClearBegin(kind, es)
        PROVE  TypeOK' /\ WriteNumbered'
    <2>1. {active} \X es \in SUBSET Keys /\ [k \in Keys |-> {}] \in [Keys -> SUBSET Writes]
      BY DEF TypeOK, Keys
    <2>2. Open(kind, {active} \X es, [k \in Keys |-> {}]) \in [TxKinds -> Tx]
      BY <1>k, <2>1, OpenType
    <2> QED BY <1>c, <2>2, <1>k
            DEF ClearBegin, Open, TypeOK, WriteNumbered, engineVars, netVars, serverVars, historyVars, boundVars
  <1>cc. ASSUME NEW kind \in {"clear", "clearAll"}, ClearCommit(kind),
                call' \in [Callers -> {"idle", "isEmpty", "getChanges"}]
         PROVE  TypeOK' /\ WriteNumbered'
    <2>1. Close(kind) \in [TxKinds -> Tx] /\ Committed(kind) \in [Keys -> SUBSET Writes]
      BY <1>k, CloseType
    <2>2. discarded' \in SUBSET Writes
      BY <1>cc, <1>k DEF ClearCommit, TypeOK, Tx
    <2>3. tx'["write"] = tx["write"]
      BY <1>cc, <1>k DEF ClearCommit, Close, TypeOK
    <2> QED BY <1>cc, <2>1, <2>2, <2>3
            DEF ClearCommit, TypeOK, WriteNumbered, netVars, serverVars, boundVars
  <1>l. ASSUME Drop \/ OnClose \/ Connect PROVE TypeOK' /\ WriteNumbered'
    <2>1. up' \in Seq(Batch) /\ down' \in Seq(ServerMessage)
      <3>1. CASE up' = <<>> /\ down' = <<>>
        BY <3>1
      <3>2. CASE UNCHANGED <<up, down>>
        BY <3>2 DEF TypeOK
      <3> QED BY <1>l, <3>1, <3>2 DEF Drop, OnClose, Connect, netVars
    <2>2. drops' \in 0..MaxDrops
      BY <1>l DEF Drop, OnClose, Connect, boundVars, TypeOK
    <2>3. /\ status' \in {"OPEN", "CLOSING", "CLOSED"}
          /\ link' \in BOOLEAN /\ canSync' \in BOOLEAN
          /\ syncInProgress' \in BOOLEAN /\ serverReady' \in BOOLEAN
      BY <1>l DEF Drop, OnClose, Connect, ResetSync, netVars, TypeOK
    <2>4. UNCHANGED <<storeVars, call, dirty, serverVars, historyVars, rejects, viewErrors, crashes>>
      BY <1>l DEF Drop, OnClose, Connect, boundVars
    <2> QED BY <2>1, <2>2, <2>3, <2>4
            DEF TypeOK, WriteNumbered, storeVars, serverVars, historyVars
  <1>x. ASSUME Crash PROVE TypeOK' /\ WriteNumbered'
    <2>1. tx' \in [TxKinds -> Tx] /\ ~tx'["write"].open
      BY <1>x, <1>k, NoTxType DEF Crash, NoTx
    <2>2. up' \in Seq(Batch) /\ down' \in Seq(ServerMessage)
      BY <1>x DEF Crash
    <2>3. call' \in [Callers -> {"idle", "isEmpty", "getChanges"}]
      BY <1>x DEF Crash
    <2>4. crashes' \in 0..MaxCrashes
      BY <1>x DEF Crash, TypeOK
    <2> QED BY <1>x, <2>1, <2>2, <2>3, <2>4
            DEF Crash, TypeOK, WriteNumbered, Buffers, serverVars, historyVars
  <1>u. ASSUME UNCHANGED vars PROVE TypeOK' /\ WriteNumbered'
    BY <1>u DEF vars, storeVars, engineVars, netVars, serverVars, historyVars, boundVars,
                TypeOK, WriteNumbered
  <1>n. ASSUME Next PROVE TypeOK' /\ WriteNumbered'
    <2>1. CASE \E e \in Entities : ClearEntityBegin(e)
      BY <2>1, <1>c DEF ClearEntityBegin, Pending
    <2>2. CASE ClearAllBegin
      BY <2>2, <1>c DEF ClearAllBegin, Pending
    <2>3. CASE ClearEntityCommit
      <3>1. call' \in [Callers -> {"idle", "isEmpty", "getChanges"}]
        BY <2>3 DEF ClearEntityCommit, Starting, TypeOK
      <3> QED BY <2>3, <3>1, <1>cc DEF ClearEntityCommit
    <2>4. CASE ClearAllCommit
      <3>1. call' \in [Callers -> {"idle", "isEmpty", "getChanges"}]
        BY <2>4 DEF ClearAllCommit, TypeOK
      <3> QED BY <2>4, <3>1, <1>cc DEF ClearAllCommit
    <2> QED BY <1>n, <2>1, <2>2, <2>3, <2>4, <1>w, <1>wc, <1>sc, <1>ss, <1>se, <1>st, <1>sv,
               <1>r, <1>a, <1>ac, <1>e, <1>ec, <1>l, <1>x DEF Next
  <1> QED BY <1>n, <1>u

(* The type invariant, in every build.                                     *)
THEOREM TypeCorrect == Spec => []TypeOK
  <1>1. TypeOK /\ WriteNumbered /\ [Next]_vars => (TypeOK /\ WriteNumbered)'
    BY TypeNext
  <1> QED BY <1>1, TypeInit, PTL DEF Spec

-----------------------------------------------------------------------------
(* Steps of a serial build.  Three facts about activations.                *)

LEMMA Idle ==
  ASSUME SerialBuild, LoopFree
  PROVE  /\ \A kind \in TxKinds : ~tx[kind].open
         /\ \A c \in Callers : call[c] = "idle"
  BY DEF SerialBuild, LoopFree, ReadsDone, CommitsDone, MidRead, MidCommit

LEMMA OpenAlone ==
  ASSUME TypeOK, \A kind \in TxKinds : ~tx[kind].open,
         NEW kind \in TxKinds, NEW keys, NEW vals, tx' = Open(kind, keys, vals)
  PROVE  /\ tx'[kind] = [open |-> TRUE, keys |-> keys, vals |-> vals]
         /\ \A j \in TxKinds : tx'[j].open <=> j = kind
  BY DEF Open, TypeOK

LEMMA CloseAlone ==
  ASSUME TypeOK, OneActivation, NEW kind \in TxKinds, tx[kind].open, tx' = Close(kind)
  PROVE  /\ \A j \in TxKinds : ~tx'[j].open
         /\ \A c \in Callers : call[c] = "idle"
  BY DEF Close, NoTx, TypeOK, OneActivation, MidRead, MidCommit

LEMMA StartAlone ==
  ASSUME TypeOK, \A d \in Callers : call[d] = "idle",
         NEW c \in Callers, NEW s, call' = Starting(c, s)
  PROVE  \A d \in Callers :
           call'[d] # "idle" => d = c /\ call'[d] = "isEmpty" /\ CanSync(s)
  BY DEF Starting, TypeOK

(* syncWrites gets past its early returns only on a quiet connection.      *)
LEMMA Quiet ==
  ASSUME InFlight, CanSync(syncInProgress)
  PROVE  up = <<>> /\ down = <<>>
  BY DEF InFlight, CanSync

(* What does not touch the store leaves the roles of the buffers alone.    *)
LEMMA StoreFrame ==
  ASSUME UNCHANGED <<kv, active>>
  PROVE  /\ locked' = locked
         /\ Contents(locked)' = Contents(locked)
         /\ MoveKeys(locked, "cache")' = MoveKeys(locked, "cache")
         /\ MoveVals(locked, "cache")' = MoveVals(locked, "cache")
         /\ MoveKeys(active, locked)' = MoveKeys(active, locked)
         /\ MoveVals(active, locked)' = MoveVals(active, locked)
  BY DEF locked, Contents, MoveKeys, MoveVals, Pending

LEMMA SerialInit == Init => SInv
  <1> SUFFICES ASSUME Init PROVE SInv
    OBVIOUS
  <1>1. /\ \A kind \in TxKinds : ~tx[kind].open
        /\ \A c \in Callers : call[c] = "idle"
    BY DEF Init, NoTx
  <1>2. Protocol
    BY <1>1 DEF Init, Protocol, OneActivation, MidCommit, MidRead, Session, InFlight, Calls, TxKinds
  <1>3. Transactions
    BY <1>1 DEF Transactions, WriteTx, ClearTx, AckTx, ErrorTx, TxKinds
  <1>4. CacheConfirmed
    BY KeysType DEF Init, CacheConfirmed
  <1>5. NoWriteLost
    BY DEF Init, NoWriteLost
  <1> QED BY <1>2, <1>3, <1>4, <1>5 DEF SInv

(* Opening a transaction touches nothing but tx, and the connection when a *)
(* message is taken off it.                                                *)
LEMMA SerialWriteBegin ==
  ASSUME SerialBuild, TypeOK, SInv, NEW e \in Entities, WriteBegin(e)
  PROVE  SInv'
  <1> DEFINE key == <<active, e>>
  <1> DEFINE vals == [k \in Keys |-> IF k = key THEN kv[k] \union {n + 1} ELSE {}]
  <1>1. /\ \A kind \in TxKinds : ~tx[kind].open
        /\ \A c \in Callers : call[c] = "idle"
    BY Idle DEF WriteBegin
  <1>2. /\ tx'["write"] = [open |-> TRUE, keys |-> {key}, vals |-> vals]
        /\ \A j \in TxKinds : tx'[j].open <=> j = "write"
    BY <1>1, OpenAlone DEF WriteBegin, TxKinds
  <1>3. /\ n' = n + 1
        /\ UNCHANGED <<kv, active, call, syncInProgress, serverReady, status, link, canSync,
                       up, down, applied, committed, discarded>>
    BY DEF WriteBegin, engineVars, netVars, serverVars
  <1>4. Protocol'
    BY <1>1, <1>2, <1>3, StoreFrame
       DEF SInv, Protocol, OneActivation, MidCommit, MidRead, Session, InFlight, Calls, TxKinds
  <1>5. WriteTx'
    <2>1. vals[key] = kv[key] \union {n + 1}
      BY KeysType DEF TypeOK
    <2> QED BY <1>2, <1>3, <2>1 DEF WriteTx
  <1>6. ClearTx' /\ AckTx' /\ ErrorTx'
    BY <1>2 DEF ClearTx, AckTx, ErrorTx, TxKinds
  <1>7. NoWriteLost' /\ CacheConfirmed'
    BY <1>3 DEF SInv, NoWriteLost, Outboxed, CacheConfirmed
  <1> QED BY <1>4, <1>5, <1>6, <1>7 DEF SInv, Transactions

LEMMA SerialClearBegin ==
  ASSUME SerialBuild, TypeOK, SInv, NEW kind \in {"clear", "clearAll"},
         NEW es \in SUBSET Entities, ClearBegin(kind, es)
  PROVE  SInv'
  <1>1. /\ \A k \in TxKinds : ~tx[k].open
        /\ \A c \in Callers : call[c] = "idle"
    BY Idle DEF ClearBegin
  <1>2. /\ tx'[kind] = [open |-> TRUE, keys |-> {active} \X es, vals |-> [k \in Keys |-> {}]]
        /\ \A j \in TxKinds : tx'[j].open <=> j = kind
    BY <1>1, OpenAlone DEF ClearBegin, TxKinds
  <1>3. UNCHANGED <<kv, active, call, syncInProgress, serverReady, status, link, canSync,
                    up, down, applied, committed, discarded, n>>
    BY DEF ClearBegin, engineVars, netVars, serverVars, historyVars
  <1>4. Protocol'
    BY <1>1, <1>2, <1>3, StoreFrame
       DEF SInv, Protocol, OneActivation, MidCommit, MidRead, Session, InFlight, Calls, TxKinds
  <1>5. ClearTx'
    BY <1>2, <1>3 DEF ClearTx, TxKinds
  <1>6. WriteTx' /\ AckTx' /\ ErrorTx'
    BY <1>2 DEF WriteTx, AckTx, ErrorTx, TxKinds
  <1>7. NoWriteLost' /\ CacheConfirmed'
    BY <1>3 DEF SInv, NoWriteLost, Outboxed, CacheConfirmed
  <1> QED BY <1>4, <1>5, <1>6, <1>7 DEF SInv, Transactions

(* The type of the message at the head of the connection tells which it is. *)
LEMMA Arrived ==
  ASSUME InFlight, down # <<>>
  PROVE  /\ Head(down).type = "READY" => down = <<Ready>>
         /\ Head(down).type = "CHANGES_ACK" => down = <<Ack(Contents(locked))>>
         /\ Head(down).type = "ERROR" => down = <<Error(Contents(locked))>>
         /\ Tail(down) = <<>>
         /\ up = <<>>
  <1>1. PICK m \in {Ready, Ack(Contents(locked)), Error(Contents(locked))} : down = <<m>>
    BY DEF InFlight
  <1>2. Head(down) = m /\ Tail(down) = <<>>
    BY <1>1
  <1>3. up = <<>>
    BY DEF InFlight
  <1>4. /\ Ready.type = "READY"
        /\ Ack(Contents(locked)).type = "CHANGES_ACK"
        /\ Error(Contents(locked)).type = "ERROR"
    BY DEF Ready, Ack, Error
  <1> QED BY <1>1, <1>2, <1>3, <1>4

LEMMA AnswersDiffer ==
  ASSUME NEW batch
  PROVE  /\ <<Ack(batch)>> \notin {<<>>, <<Ready>>, <<Error(batch)>>}
         /\ <<Error(batch)>> \notin {<<>>, <<Ready>>}
         /\ <<Ready>> # <<>>
  BY DEF Ready, Ack, Error

LEMMA SerialAckBegin ==
  ASSUME SerialBuild, TypeOK, SInv, AckBegin
  PROVE  SInv'
  <1>1. /\ \A k \in TxKinds : ~tx[k].open
        /\ \A c \in Callers : call[c] = "idle"
    BY Idle DEF AckBegin
  <1>2. /\ tx'["ack"] = [open |-> TRUE, keys |-> MoveKeys(locked, "cache"),
                         vals |-> MoveVals(locked, "cache")]
        /\ \A j \in TxKinds : tx'[j].open <=> j = "ack"
    BY <1>1, OpenAlone DEF AckBegin, TxKinds
  <1>3. UNCHANGED <<kv, active, call, syncInProgress, serverReady, status, link, canSync,
                    up, applied, committed, discarded, n>>
    BY DEF AckBegin, engineVars, serverVars, historyVars
  <1>4. /\ down = <<Ack(Contents(locked))>> /\ down' = <<>> /\ up = <<>>
        /\ serverReady /\ syncInProgress
        /\ \A e \in Entities : kv[<<locked, e>>] \subseteq applied
    BY Arrived, AnswersDiffer DEF AckBegin, Receives, SInv, Protocol, InFlight
  <1>5. Protocol'
    BY <1>1, <1>2, <1>3, <1>4, StoreFrame
       DEF SInv, Protocol, OneActivation, MidCommit, MidRead, Session, InFlight, Calls, TxKinds
  <1>6. AckTx'
    BY <1>2, <1>3, <1>4, StoreFrame DEF AckTx
  <1>7. WriteTx' /\ ClearTx' /\ ErrorTx'
    BY <1>2 DEF WriteTx, ClearTx, ErrorTx, TxKinds
  <1>8. NoWriteLost' /\ CacheConfirmed'
    BY <1>3 DEF SInv, NoWriteLost, Outboxed, CacheConfirmed
  <1> QED BY <1>5, <1>6, <1>7, <1>8 DEF SInv, Transactions

LEMMA SerialErrorBegin ==
  ASSUME SerialBuild, TypeOK, SInv, ErrorBegin
  PROVE  SInv'
  <1>1. /\ \A k \in TxKinds : ~tx[k].open
        /\ \A c \in Callers : call[c] = "idle"
    BY Idle DEF ErrorBegin
  <1>2. /\ tx'["error"] = [open |-> TRUE, keys |-> MoveKeys(active, locked),
                           vals |-> MoveVals(active, locked)]
        /\ \A j \in TxKinds : tx'[j].open <=> j = "error"
    BY <1>1, OpenAlone DEF ErrorBegin, TxKinds
  <1>3. UNCHANGED <<kv, active, call, syncInProgress, serverReady, status, link, canSync,
                    up, applied, committed, discarded, n>>
    BY DEF ErrorBegin, engineVars, serverVars, historyVars
  <1>4. /\ down = <<Error(Contents(locked))>> /\ down' = <<>> /\ up = <<>>
        /\ serverReady /\ syncInProgress
    BY Arrived, AnswersDiffer DEF ErrorBegin, Receives, SInv, Protocol, InFlight
  <1>5. Protocol'
    BY <1>1, <1>2, <1>3, <1>4, StoreFrame
       DEF SInv, Protocol, OneActivation, MidCommit, MidRead, Session, InFlight, Calls, TxKinds
  <1>6. ErrorTx'
    BY <1>2, <1>3, <1>4, StoreFrame DEF ErrorTx
  <1>7. WriteTx' /\ ClearTx' /\ AckTx'
    BY <1>2 DEF WriteTx, ClearTx, AckTx, TxKinds
  <1>8. NoWriteLost' /\ CacheConfirmed'
    BY <1>3 DEF SInv, NoWriteLost, Outboxed, CacheConfirmed
  <1> QED BY <1>5, <1>6, <1>7, <1>8 DEF SInv, Transactions

-----------------------------------------------------------------------------
(* The commits.                                                            *)

LEMMA LockedFrame ==
  ASSUME active' = active, \A e \in Entities : kv'[<<locked, e>>] = kv[<<locked, e>>]
  PROVE  locked' = locked /\ Contents(locked)' = Contents(locked)
  BY DEF locked, Contents

LEMMA CommittedAt ==
  ASSUME NEW kind \in TxKinds, kv' = Committed(kind)
  PROVE  \A b \in Buffers \union {"cache"}, e \in Entities :
           kv'[<<b, e>>] = IF <<b, e>> \in tx[kind].keys THEN tx[kind].vals[<<b, e>>]
                           ELSE kv[<<b, e>>]
  BY KeysType DEF Committed

(* What each commit of a serial build leaves in the store.                 *)
LEMMA WriteCommitted ==
  ASSUME TypeOK, SInv, WriteCommit
  PROVE  \E e \in Entities :
           /\ tx["write"].keys = {<<active, e>>}
           /\ \A b \in Buffers \union {"cache"}, f \in Entities :
                kv'[<<b, f>>] = IF b = active /\ f = e THEN kv[<<b, f>>] \union {n}
                                ELSE kv[<<b, f>>]
  <1>1. tx["write"].open /\ "write" \in TxKinds
    BY DEF WriteCommit, TxKinds
  <1>2. PICK e \in Entities :
          /\ tx["write"].keys = {<<active, e>>}
          /\ tx["write"].vals[<<active, e>>] = kv[<<active, e>>] \union {n}
    BY <1>1 DEF SInv, Transactions, WriteTx
  <1>3. \A b \in Buffers \union {"cache"}, f \in Entities :
          kv'[<<b, f>>] = IF b = active /\ f = e THEN kv[<<b, f>>] \union {n} ELSE kv[<<b, f>>]
    BY <1>1, <1>2, CommittedAt, ZenonT(60) DEF WriteCommit
  <1> QED BY <1>2, <1>3

LEMMA ClearCommitted ==
  ASSUME TypeOK, SInv, NEW kind \in {"clear", "clearAll"}, ClearCommit(kind)
  PROVE  /\ tx[kind].keys \subseteq {active} \X Entities
         /\ \A b \in Buffers \union {"cache"}, e \in Entities :
              kv'[<<b, e>>] = IF <<b, e>> \in tx[kind].keys THEN {} ELSE kv[<<b, e>>]
  <1>1. tx[kind].open /\ kind \in TxKinds
    BY DEF ClearCommit, TxKinds
  <1>2. /\ tx[kind].keys \subseteq {active} \X Entities
        /\ \A k \in Keys : tx[kind].vals[k] = {}
    BY <1>1 DEF SInv, Transactions, ClearTx
  <1> QED BY <1>1, <1>2, CommittedAt, KeysType DEF ClearCommit

LEMMA AckCommitted ==
  ASSUME TypeOK, SInv, AckCommit
  PROVE  \A e \in Entities :
           /\ kv'[<<"cache", e>>] = kv[<<"cache", e>>] \union kv[<<locked, e>>]
           /\ kv'[<<active, e>>] = kv[<<active, e>>]
           /\ kv'[<<locked, e>>] = {}
  <1> SUFFICES ASSUME NEW e \in Entities
               PROVE  /\ kv'[<<"cache", e>>] = kv[<<"cache", e>>] \union kv[<<locked, e>>]
                      /\ kv'[<<active, e>>] = kv[<<active, e>>]
                      /\ kv'[<<locked, e>>] = {}
    OBVIOUS
  <1>1. tx["ack"].open /\ "ack" \in TxKinds
    BY DEF AckCommit, TxKinds
  <1>2. /\ tx["ack"].keys = MoveKeys(locked, "cache")
        /\ tx["ack"].vals = MoveVals(locked, "cache")
    BY <1>1 DEF SInv, Transactions, AckTx
  <1>3. \A b \in Buffers \union {"cache"} :
          kv'[<<b, e>>] = IF <<b, e>> \in MoveKeys(locked, "cache")
                          THEN MoveVals(locked, "cache")[<<b, e>>] ELSE kv[<<b, e>>]
    BY <1>1, <1>2, CommittedAt DEF AckCommit
  <1>4. active \in Buffers /\ locked \in Buffers /\ locked # active
        /\ active # "cache" /\ locked # "cache"
    BY BuffersType DEF TypeOK, Buffers
  <1>5. MoveVals(locked, "cache")[<<locked, e>>] = {}
    BY <1>4, KeysType DEF MoveVals
  <1>6. MoveVals(locked, "cache")[<<"cache", e>>] = kv[<<"cache", e>>] \union kv[<<locked, e>>]
    BY KeysType DEF MoveVals
  <1>7. \A b \in Buffers \union {"cache"} :
          <<b, e>> \in MoveKeys(locked, "cache")
            <=> b \in {locked, "cache"} /\ kv[<<locked, e>>] # {}
    BY DEF MoveKeys, Pending
  <1> QED BY <1>3, <1>4, <1>5, <1>6, <1>7

LEMMA ErrorCommitted ==
  ASSUME TypeOK, SInv, ErrorCommit
  PROVE  \A e \in Entities :
           /\ kv'[<<"cache", e>>] = kv[<<"cache", e>>]
           /\ kv'[<<locked, e>>] = kv[<<locked, e>>] \union kv[<<active, e>>]
           /\ kv'[<<active, e>>] = {}
  <1> SUFFICES ASSUME NEW e \in Entities
               PROVE  /\ kv'[<<"cache", e>>] = kv[<<"cache", e>>]
                      /\ kv'[<<locked, e>>] = kv[<<locked, e>>] \union kv[<<active, e>>]
                      /\ kv'[<<active, e>>] = {}
    OBVIOUS
  <1>1. tx["error"].open /\ "error" \in TxKinds
    BY DEF ErrorCommit, TxKinds
  <1>2. /\ tx["error"].keys = MoveKeys(active, locked)
        /\ tx["error"].vals = MoveVals(active, locked)
    BY <1>1 DEF SInv, Transactions, ErrorTx
  <1>3. \A b \in Buffers \union {"cache"} :
          kv'[<<b, e>>] = IF <<b, e>> \in MoveKeys(active, locked)
                          THEN MoveVals(active, locked)[<<b, e>>] ELSE kv[<<b, e>>]
    BY <1>1, <1>2, CommittedAt DEF ErrorCommit
  <1>4. active \in Buffers /\ locked \in Buffers /\ active # "cache" /\ locked # "cache"
        /\ locked # active
    BY BuffersType DEF TypeOK, Buffers
  <1>5. MoveVals(active, locked)[<<locked, e>>] = kv[<<locked, e>>] \union kv[<<active, e>>]
    BY <1>4, KeysType DEF MoveVals
  <1>6. MoveVals(active, locked)[<<active, e>>] = {}
    BY <1>4, KeysType DEF MoveVals
  <1>7. \A b \in Buffers \union {"cache"} :
          <<b, e>> \in MoveKeys(active, locked)
            <=> b \in {active, locked} /\ kv[<<active, e>>] # {}
    BY DEF MoveKeys, Pending
  <1> QED BY <1>3, <1>4, <1>5, <1>6, <1>7

LEMMA SerialWriteCommit ==
  ASSUME SerialBuild, TypeOK, SInv, WriteCommit
  PROVE  SInv'
  <1>1. tx["write"].open /\ "write" \in TxKinds
    BY DEF WriteCommit, TxKinds
  <1>2. /\ \A j \in TxKinds : ~tx'[j].open
        /\ \A c \in Callers : call[c] = "idle"
    BY <1>1, CloseAlone DEF WriteCommit, SInv, Protocol
  <1>4. PICK e \in Entities :
          \A b \in Buffers \union {"cache"}, f \in Entities :
            kv'[<<b, f>>] = IF b = active /\ f = e THEN kv[<<b, f>>] \union {n} ELSE kv[<<b, f>>]
    BY WriteCommitted
  <1>5. UNCHANGED <<active, call, syncInProgress, serverReady, status, link, canSync,
                    up, down, applied, discarded>>
    BY DEF WriteCommit, netVars, serverVars
  <1>6. \A f \in Entities : kv'[<<locked, f>>] = kv[<<locked, f>>]
    BY <1>4, BuffersType
  <1>7. Protocol'
    BY <1>2, <1>5, <1>6, LockedFrame
       DEF SInv, Protocol, OneActivation, MidCommit, MidRead, Session, InFlight, Calls, TxKinds
  <1>8. Transactions'
    BY <1>2 DEF Transactions, WriteTx, ClearTx, AckTx, ErrorTx, TxKinds
  <1>9. CacheConfirmed'
    <2>1. active # "cache"
      BY DEF TypeOK, Buffers
    <2> QED BY <1>4, <1>5, <2>1 DEF SInv, CacheConfirmed
  <1>10. NoWriteLost'
    <2> SUFFICES ASSUME NEW w \in committed', w \notin applied' \union discarded'
                 PROVE  \E f \in Entities, b \in Buffers : w \in kv'[<<b, f>>]
      BY DEF NoWriteLost, Outboxed, Buffers
    <2>1. CASE w = n
      BY <1>4, <2>1 DEF TypeOK
    <2>2. CASE w \in committed
      <3>1. PICK f \in Entities, b \in Buffers : w \in kv[<<b, f>>]
        BY <1>5, <2>2 DEF SInv, NoWriteLost, Outboxed, Buffers
      <3> QED BY <1>4, <3>1
    <2> QED BY <2>1, <2>2 DEF WriteCommit
  <1> QED BY <1>7, <1>8, <1>9, <1>10 DEF SInv

LEMMA SerialClearCommit ==
  ASSUME SerialBuild, TypeOK, SInv, ClearEntityCommit \/ ClearAllCommit
  PROVE  SInv'
  <1>1. PICK kind \in {"clear", "clearAll"} : ClearCommit(kind)
    BY DEF ClearEntityCommit, ClearAllCommit
  <1>2. tx[kind].open /\ kind \in TxKinds
    BY <1>1 DEF ClearCommit, TxKinds
  <1>3. /\ \A j \in TxKinds : ~tx'[j].open
        /\ \A c \in Callers : call[c] = "idle"
    BY <1>1, <1>2, CloseAlone DEF ClearCommit, SInv, Protocol
  <1>4. tx[kind].keys \subseteq {active} \X Entities
    BY <1>1, ClearCommitted
  <1>5. \A b \in Buffers \union {"cache"}, e \in Entities :
          kv'[<<b, e>>] = IF <<b, e>> \in tx[kind].keys THEN {} ELSE kv[<<b, e>>]
    BY <1>1, ClearCommitted
  <1>6. UNCHANGED <<active, syncInProgress, serverReady, status, link, canSync,
                    up, down, applied, committed>>
    BY <1>1 DEF ClearCommit, netVars, serverVars
  <1>7. \A e \in Entities : kv'[<<locked, e>>] = kv[<<locked, e>>]
    BY <1>4, <1>5, BuffersType
  <1>8. \A d, f \in Callers :
          call'[d] # "idle" /\ call'[f] # "idle" =>
            d = f /\ call'[d] = "isEmpty" /\ CanSync(syncInProgress)
    <2>1. CASE call' = Starting("clear", syncInProgress)
      BY <1>3, <2>1, StartAlone DEF Callers
    <2>2. CASE UNCHANGED call
      BY <1>3, <2>2
    <2> QED BY <2>1, <2>2 DEF ClearEntityCommit, ClearAllCommit
  <1>9. \A d \in Callers :
          call'[d] # "idle" => call'[d] = "isEmpty" /\ ~syncInProgress /\ serverReady
                               /\ up = <<>> /\ down = <<>>
    BY <1>8, Quiet DEF SInv, Protocol, CanSync
  <1>10. Protocol'
    <2>1. OneActivation' /\ Calls'
      BY <1>3, <1>6, <1>8, <1>9 DEF OneActivation, MidCommit, Calls
    <2>2. Session'
      BY <1>3, <1>6, <1>9 DEF SInv, Protocol, Session, MidRead, TxKinds
    <2>3. InFlight'
      BY <1>6, <1>7, LockedFrame DEF SInv, Protocol, InFlight
    <2> QED BY <2>1, <2>2, <2>3 DEF Protocol
  <1>11. Transactions'
    BY <1>3 DEF Transactions, WriteTx, ClearTx, AckTx, ErrorTx, TxKinds
  <1>12. CacheConfirmed'
    BY <1>5, <1>6 DEF SInv, CacheConfirmed
  <1>13. NoWriteLost'
    <2> SUFFICES ASSUME NEW w \in committed', w \notin applied' \union discarded'
                 PROVE  \E f \in Entities, b \in Buffers : w \in kv'[<<b, f>>]
      BY DEF NoWriteLost, Outboxed, Buffers
    <2>1. w \notin discarded /\ \A k \in tx[kind].keys : w \notin kv[k]
      BY <1>1 DEF ClearCommit
    <2>2. PICK f \in Entities, b \in Buffers : w \in kv[<<b, f>>]
      BY <1>6, <2>1 DEF SInv, NoWriteLost, Outboxed, Buffers
    <2> QED BY <1>5, <2>1, <2>2
  <1> QED BY <1>10, <1>11, <1>12, <1>13 DEF SInv

LEMMA SerialAckCommit ==
  ASSUME SerialBuild, TypeOK, SInv, AckCommit
  PROVE  SInv'
  <1>1. tx["ack"].open /\ "ack" \in TxKinds
    BY DEF AckCommit, TxKinds
  <1>2. /\ \A j \in TxKinds : ~tx'[j].open
        /\ \A c \in Callers : call[c] = "idle"
    BY <1>1, CloseAlone DEF AckCommit, SInv, Protocol
  <1>3. /\ up = <<>> /\ down = <<>> /\ serverReady
        /\ \A e \in Entities : kv[<<locked, e>>] \subseteq applied
    BY <1>1 DEF SInv, Protocol, Session, Transactions, AckTx
  <1>4. \A e \in Entities :
          /\ kv'[<<"cache", e>>] = kv[<<"cache", e>>] \union kv[<<locked, e>>]
          /\ kv'[<<active, e>>] = kv[<<active, e>>]
          /\ kv'[<<locked, e>>] = {}
    BY AckCommitted
  <1>5. /\ UNCHANGED <<active, serverReady, status, link, canSync, up, down, applied,
                       committed, discarded>>
        /\ syncInProgress' = FALSE
    BY DEF AckCommit, netVars, serverVars, historyVars
  <1>6. \A d, f \in Callers :
          call'[d] # "idle" /\ call'[f] # "idle" => d = f /\ call'[d] = "isEmpty"
    BY <1>2, StartAlone DEF AckCommit, Callers
  <1>7. Protocol'
    <2>1. OneActivation' /\ Calls'
      BY <1>2, <1>3, <1>5, <1>6 DEF OneActivation, MidCommit, Calls
    <2>2. Session'
      BY <1>2, <1>3, <1>5 DEF SInv, Protocol, Session, TxKinds
    <2>3. InFlight'
      BY <1>3, <1>5, AnswersDiffer DEF InFlight
    <2> QED BY <2>1, <2>2, <2>3 DEF Protocol
  <1>8. Transactions'
    BY <1>2 DEF Transactions, WriteTx, ClearTx, AckTx, ErrorTx, TxKinds
  <1>9. CacheConfirmed'
    BY <1>3, <1>4, <1>5 DEF SInv, CacheConfirmed
  <1>10. NoWriteLost'
    BY <1>3, <1>4, <1>5, BuffersType DEF SInv, NoWriteLost, Outboxed, locked, TypeOK, Buffers
  <1> QED BY <1>7, <1>8, <1>9, <1>10 DEF SInv

LEMMA SerialErrorCommit ==
  ASSUME SerialBuild, TypeOK, SInv, ErrorCommit
  PROVE  SInv'
  <1>1. tx["error"].open /\ "error" \in TxKinds
    BY DEF ErrorCommit, TxKinds
  <1>2. /\ \A j \in TxKinds : ~tx'[j].open
        /\ \A c \in Callers : call[c] = "idle"
    BY <1>1, CloseAlone DEF ErrorCommit, SInv, Protocol
  <1>3. /\ up = <<>> /\ down = <<>> /\ serverReady
    BY <1>1 DEF SInv, Protocol, Session, Transactions, ErrorTx
  <1>4. \A e \in Entities :
          /\ kv'[<<"cache", e>>] = kv[<<"cache", e>>]
          /\ kv'[<<locked, e>>] = kv[<<locked, e>>] \union kv[<<active, e>>]
    BY ErrorCommitted
  <1>5. /\ UNCHANGED <<call, serverReady, status, link, canSync, up, down, applied,
                       committed, discarded>>
        /\ syncInProgress' = FALSE
    BY DEF ErrorCommit, netVars, serverVars, historyVars
  <1>6. Protocol'
    <2>1. OneActivation' /\ Calls'
      BY <1>2, <1>5 DEF OneActivation, MidCommit, Calls
    <2>2. Session'
      BY <1>2, <1>3, <1>5 DEF SInv, Protocol, Session, TxKinds
    <2>3. InFlight'
      BY <1>3, <1>5, AnswersDiffer DEF InFlight
    <2> QED BY <2>1, <2>2, <2>3 DEF Protocol
  <1>7. Transactions'
    BY <1>2 DEF Transactions, WriteTx, ClearTx, AckTx, ErrorTx, TxKinds
  <1>8. CacheConfirmed'
    BY <1>4, <1>5 DEF SInv, CacheConfirmed
  <1>9. NoWriteLost'
    BY <1>4, <1>5 DEF SInv, NoWriteLost, Outboxed, locked, TypeOK, Buffers
  <1> QED BY <1>6, <1>7, <1>8, <1>9 DEF SInv

-----------------------------------------------------------------------------
(* syncWrites.                                                             *)

LEMMA SerialSyncStart ==
  ASSUME SerialBuild, TypeOK, SInv, SyncOnCommit \/ SyncByUser
  PROVE  SInv'
  <1>1. PICK c \in Callers : call' = Starting(c, syncInProgress)
    BY DEF SyncOnCommit, SyncByUser, Callers
  <1>2. /\ \A k \in TxKinds : ~tx[k].open
        /\ \A d \in Callers : call[d] = "idle"
    BY Idle DEF SyncOnCommit, SyncByUser
  <1>3. \A d \in Callers :
          call'[d] # "idle" => d = c /\ call'[d] = "isEmpty" /\ CanSync(syncInProgress)
    BY <1>1, <1>2, StartAlone
  <1>4. UNCHANGED <<kv, active, tx, syncInProgress, serverReady, status, link, canSync, up, down,
                    applied, committed, discarded>>
    BY DEF SyncOnCommit, SyncByUser, storeVars, netVars, serverVars, historyVars
  <1>5. \A d \in Callers :
          call'[d] # "idle" => ~syncInProgress /\ serverReady /\ up = <<>> /\ down = <<>>
    BY <1>3, Quiet DEF SInv, Protocol, CanSync
  <1>6. Protocol'
    BY <1>2, <1>3, <1>4, <1>5, StoreFrame
       DEF SInv, Protocol, OneActivation, MidCommit, MidRead, Session, InFlight, Calls
  <1>7. Transactions'
    BY <1>2, <1>4 DEF Transactions, WriteTx, ClearTx, AckTx, ErrorTx, TxKinds
  <1>8. NoWriteLost' /\ CacheConfirmed'
    BY <1>4 DEF SInv, NoWriteLost, Outboxed, CacheConfirmed
  <1> QED BY <1>6, <1>7, <1>8 DEF SInv

LEMMA SerialSyncSwitch ==
  ASSUME SerialBuild, TypeOK, SInv, NEW c \in Callers, SyncSwitch(c)
  PROVE  SInv'
  <1>1. /\ call[c] = "isEmpty" /\ call' = [call EXCEPT ![c] = "getChanges"]
        /\ syncInProgress' = TRUE
        /\ UNCHANGED <<kv, tx, serverReady, status, link, canSync, up, down, applied,
                       committed, discarded>>
    BY DEF SyncSwitch, netVars, serverVars, historyVars
  <1>2. up = <<>> /\ down = <<>> /\ serverReady
    BY <1>1 DEF SInv, Protocol, Calls, Session, MidRead
  <1>3. /\ \A k \in TxKinds : ~tx[k].open
        /\ \A d \in Callers : call[d] # "idle" => d = c
    BY <1>1 DEF SInv, Protocol, OneActivation, MidCommit, MidRead
  <1>4. \A d \in Callers : call'[d] # "idle" => d = c /\ call'[d] = "getChanges"
    BY <1>1, <1>3 DEF TypeOK
  <1>5. Protocol'
    <2>1. OneActivation' /\ Calls'
      BY <1>1, <1>2, <1>3, <1>4 DEF OneActivation, MidCommit, Calls
    <2>2. Session'
      BY <1>1, <1>2, <1>3 DEF SInv, Protocol, Session
    <2>3. InFlight'
      BY <1>1, <1>2, AnswersDiffer DEF InFlight
    <2> QED BY <2>1, <2>2, <2>3 DEF Protocol
  <1>6. Transactions'
    BY <1>1, <1>3 DEF Transactions, WriteTx, ClearTx, AckTx, ErrorTx, TxKinds
  <1>7. NoWriteLost' /\ CacheConfirmed'
    BY <1>1 DEF SInv, NoWriteLost, Outboxed, CacheConfirmed
  <1> QED BY <1>5, <1>6, <1>7 DEF SInv

LEMMA SerialSyncSend ==
  ASSUME SerialBuild, TypeOK, SInv, NEW c \in Callers, SyncSend(c)
  PROVE  SInv'
  <1>1. /\ call[c] = "getChanges" /\ call' = [call EXCEPT ![c] = "idle"]
        /\ syncInProgress' = (Contents(locked) # NoChanges)
        /\ up' = IF Contents(locked) # NoChanges /\ link THEN Append(up, Contents(locked)) ELSE up
        /\ UNCHANGED <<kv, active, tx, serverReady, status, link, canSync, down, applied,
                       committed, discarded>>
    BY DEF SyncSend, Sends, storeVars, serverVars, historyVars
  <1>2. up = <<>> /\ down = <<>> /\ serverReady
    BY <1>1 DEF SInv, Protocol, Calls, Session, MidRead
  <1>3. /\ \A k \in TxKinds : ~tx[k].open
        /\ \A d \in Callers : call'[d] = "idle"
    BY <1>1 DEF SInv, Protocol, OneActivation, MidCommit, MidRead, TypeOK
  <1>4. \/ up' = <<>>
        \/ up' = <<Contents(locked)>> /\ link /\ syncInProgress'
    <2>1. Append(<<>>, Contents(locked)) = <<Contents(locked)>>
      OBVIOUS
    <2> QED BY <1>1, <1>2, <2>1
  <1>5. Protocol'
    <2>1. OneActivation' /\ Calls'
      BY <1>1, <1>3 DEF OneActivation, MidCommit, Calls
    <2>2. Session'
      BY <1>1, <1>2, <1>3, <1>4 DEF SInv, Protocol, Session
    <2>3. InFlight'
      BY <1>1, <1>2, <1>4, StoreFrame, AnswersDiffer DEF InFlight
    <2> QED BY <2>1, <2>2, <2>3 DEF Protocol
  <1>6. Transactions'
    BY <1>1, <1>3 DEF Transactions, WriteTx, ClearTx, AckTx, ErrorTx, TxKinds
  <1>7. NoWriteLost' /\ CacheConfirmed'
    BY <1>1 DEF SInv, NoWriteLost, Outboxed, CacheConfirmed
  <1> QED BY <1>5, <1>6, <1>7 DEF SInv

-----------------------------------------------------------------------------
(* The server and the connection.                                          *)

LEMMA SerialServerStart ==
  ASSUME SerialBuild, TypeOK, SInv, ServerStart
  PROVE  SInv'
  <1>1. /\ link /\ ~canSync /\ canSync' = TRUE /\ down' = Append(down, Ready)
        /\ UNCHANGED <<kv, active, tx, call, syncInProgress, serverReady, status, link, up,
                       applied, committed, discarded, n>>
    BY DEF ServerStart, storeVars, engineVars, serverVars, historyVars
  <1>2. /\ up = <<>> /\ down = <<>> /\ ~serverReady /\ ~syncInProgress
        /\ \A c \in Callers : call[c] = "idle"
        /\ ~tx["ack"].open /\ ~tx["error"].open
    BY <1>1 DEF SInv, Protocol, Session, MidRead
  <1>3. down' = <<Ready>>
    <2>1. Append(<<>>, Ready) = <<Ready>>
      OBVIOUS
    <2> QED BY <1>1, <1>2, <2>1
  <1>4. Protocol'
    BY <1>1, <1>2, <1>3, StoreFrame, AnswersDiffer
       DEF SInv, Protocol, OneActivation, MidCommit, MidRead, Session, InFlight, Calls
  <1>5. Transactions'
    BY <1>1, <1>2 DEF SInv, Transactions, WriteTx, ClearTx, AckTx, ErrorTx
  <1>6. NoWriteLost' /\ CacheConfirmed'
    BY <1>1 DEF SInv, NoWriteLost, Outboxed, CacheConfirmed
  <1> QED BY <1>4, <1>5, <1>6 DEF SInv

(* The server answers the push: nothing else is in flight, and no          *)
(* activation of the client is suspended that a message could disturb.     *)
LEMMA SerialServerAnswer ==
  ASSUME SerialBuild, TypeOK, SInv,
         ServerNotReady \/ ServerApply \/ ServerApplyViewError \/ ServerReject
  PROVE  SInv'
  <1> DEFINE pushed == Contents(locked)
  <1>1. up # <<>>
    BY DEF ServerNotReady, ServerApply, ServerApplyViewError, ServerReject
  <1>2. /\ up = <<pushed>> /\ down = <<>> /\ serverReady /\ syncInProgress /\ canSync
        /\ \A c \in Callers : call[c] = "idle"
        /\ ~tx["ack"].open /\ ~tx["error"].open
    BY <1>1 DEF SInv, Protocol, Session, InFlight, Calls, Transactions, AckTx, ErrorTx
  <1>3. Head(up) = pushed /\ Tail(up) = <<>>
    BY <1>2
  <1>4. viewErrors >= MaxViewErrors
    BY BoundAssumption DEF SerialBuild, TypeOK
  <1>5. /\ up' = <<>>
        /\ UNCHANGED <<kv, active, tx, call, syncInProgress, serverReady, status, link, canSync,
                       committed, discarded, n>>
    BY <1>3 DEF ServerNotReady, ServerApply, ServerApplyViewError, ServerReject,
                storeVars, engineVars, historyVars
  <1>6. \/ down' = <<Ack(pushed)>> /\ applied' = applied \union UNION {pushed[e] : e \in Entities}
        \/ down' = <<Error(pushed)>> /\ applied' = applied
    <2>1. Append(<<>>, Ack(pushed)) = <<Ack(pushed)>> /\ Append(<<>>, Error(pushed)) = <<Error(pushed)>>
      OBVIOUS
    <2>2. CASE ServerApply
      BY <1>2, <1>3, <2>1, <2>2 DEF ServerApply, ServerApplies
    <2>3. CASE ServerReject
      BY <1>2, <1>3, <2>1, <2>3 DEF ServerReject, serverVars
    <2>4. CASE ServerNotReady
      BY <1>2, <2>4 DEF ServerNotReady
    <2>5. CASE ServerApplyViewError
      BY <1>4, <2>5, BoundAssumption DEF ServerApplyViewError, TypeOK
    <2> QED BY <2>2, <2>3, <2>4, <2>5
  <1>7. applied \subseteq applied'
    BY <1>6
  <1>8. down' = <<Ack(pushed)>> => \A e \in Entities : kv[<<locked, e>>] \subseteq applied'
    BY <1>6, AnswersDiffer DEF Contents
  <1>9. Protocol'
    <2>1. OneActivation' /\ Calls'
      BY <1>2, <1>5 DEF SInv, Protocol, OneActivation, MidCommit, MidRead, Calls
    <2>2. Session'
      BY <1>2, <1>5 DEF SInv, Protocol, Session
    <2>3. InFlight'
      BY <1>2, <1>5, <1>6, <1>8, StoreFrame, AnswersDiffer DEF InFlight
    <2> QED BY <2>1, <2>2, <2>3 DEF Protocol
  <1>10. Transactions'
    BY <1>2, <1>5 DEF SInv, Transactions, WriteTx, ClearTx, AckTx, ErrorTx
  <1>11. NoWriteLost' /\ CacheConfirmed'
    BY <1>5, <1>7 DEF SInv, NoWriteLost, Outboxed, CacheConfirmed
  <1> QED BY <1>9, <1>10, <1>11 DEF SInv

LEMMA SerialReady ==
  ASSUME SerialBuild, TypeOK, SInv, HandleReady
  PROVE  SInv'
  <1>1. /\ \A k \in TxKinds : ~tx[k].open
        /\ \A c \in Callers : call[c] = "idle"
    BY Idle DEF HandleReady
  <1>2. /\ down = <<Ready>> /\ down' = <<>> /\ up = <<>> /\ ~serverReady /\ canSync
    BY Arrived DEF HandleReady, Receives, SInv, Protocol, InFlight, Session
  <1>3. /\ UNCHANGED <<kv, active, tx, syncInProgress, status, link, canSync, up, applied,
                       committed, discarded>>
        /\ serverReady' = TRUE
    BY DEF HandleReady, storeVars, serverVars, historyVars
  <1>4. \A c \in Callers : call'[c] # "idle" => c = "ready" /\ call'[c] = "isEmpty" /\ ~syncInProgress
    BY <1>1 DEF HandleReady, TypeOK
  <1>5. Protocol'
    <2>1. OneActivation' /\ Calls'
      BY <1>1, <1>2, <1>3, <1>4 DEF OneActivation, MidCommit, Calls
    <2>2. Session'
      BY <1>2, <1>3 DEF SInv, Protocol, Session
    <2>3. InFlight'
      BY <1>2, <1>3, AnswersDiffer DEF InFlight
    <2> QED BY <2>1, <2>2, <2>3 DEF Protocol
  <1>6. Transactions'
    BY <1>1, <1>3 DEF Transactions, WriteTx, ClearTx, AckTx, ErrorTx, TxKinds
  <1>7. NoWriteLost' /\ CacheConfirmed'
    BY <1>3 DEF SInv, NoWriteLost, Outboxed, CacheConfirmed
  <1> QED BY <1>5, <1>6, <1>7 DEF SInv

LEMMA SerialConnection ==
  ASSUME SerialBuild, TypeOK, SInv, Drop \/ OnClose \/ Connect
  PROVE  SInv'
  <1>1. /\ \A k \in TxKinds : ~tx[k].open
        /\ \A c \in Callers : call[c] = "idle"
    BY Idle DEF Drop, OnClose, Connect
  <1>2. UNCHANGED <<kv, active, tx, call, applied, committed, discarded>>
    BY DEF Drop, OnClose, Connect, storeVars, serverVars, historyVars
  <1>3. OneActivation' /\ Calls'
    BY <1>1, <1>2 DEF OneActivation, MidCommit, Calls
  <1>4. Session' /\ InFlight'
    <2>1. CASE Drop
      BY <1>1, <1>2, <2>1, AnswersDiffer DEF SInv, Protocol, Drop, Session, InFlight, MidRead, TxKinds
    <2>2. CASE OnClose
      <3>1. up' = <<>> /\ down' = <<>>
        BY <2>2 DEF OnClose, SInv, Protocol, Session, netVars
      <3> QED BY <1>1, <1>2, <2>2, <3>1, AnswersDiffer
              DEF SInv, Protocol, OnClose, ResetSync, Session, InFlight, MidRead, TxKinds, netVars
    <2>3. CASE Connect
      <3>1. up' = <<>> /\ down' = <<>>
        BY <2>3 DEF Connect, SInv, Protocol, Session
      <3> QED BY <1>1, <1>2, <2>3, <3>1, AnswersDiffer
              DEF SInv, Protocol, Connect, Session, InFlight, MidRead, TxKinds
    <2> QED BY <2>1, <2>2, <2>3
  <1>5. Transactions'
    BY <1>1, <1>2 DEF Transactions, WriteTx, ClearTx, AckTx, ErrorTx, TxKinds
  <1>6. NoWriteLost' /\ CacheConfirmed'
    BY <1>2 DEF SInv, NoWriteLost, Outboxed, CacheConfirmed
  <1> QED BY <1>3, <1>4, <1>5, <1>6 DEF SInv, Protocol

LEMMA SerialCrash ==
  ASSUME SerialBuild, TypeOK, SInv, Crash
  PROVE  SInv'
  <1>1. /\ \A k \in TxKinds : ~tx'[k].open
        /\ \A c \in Callers : call'[c] = "idle"
    BY DEF Crash, NoTx
  <1>2. UNCHANGED <<kv, applied, committed, discarded>>
    BY DEF Crash, serverVars, historyVars
  <1>3. Protocol'
    BY <1>1, AnswersDiffer
       DEF Crash, Protocol, OneActivation, MidCommit, MidRead, Session, InFlight, Calls, TxKinds
  <1>4. Transactions'
    BY <1>1 DEF Transactions, WriteTx, ClearTx, AckTx, ErrorTx, TxKinds
  <1>5. NoWriteLost' /\ CacheConfirmed'
    BY <1>2 DEF SInv, NoWriteLost, Outboxed, CacheConfirmed
  <1> QED BY <1>3, <1>4, <1>5 DEF SInv

LEMMA SerialUnchanged ==
  ASSUME SInv, UNCHANGED vars
  PROVE  SInv'
  <1>1. UNCHANGED <<kv, active, tx, call, syncInProgress, serverReady, status, link, canSync,
                    up, down, applied, committed, discarded, n>>
    BY DEF vars, storeVars, engineVars, netVars, serverVars, historyVars
  <1>2. Protocol'
    BY <1>1, StoreFrame
       DEF SInv, Protocol, OneActivation, MidCommit, MidRead, Session, InFlight, Calls
  <1>3. Transactions'
    BY <1>1, StoreFrame DEF SInv, Transactions, WriteTx, ClearTx, AckTx, ErrorTx
  <1>4. NoWriteLost' /\ CacheConfirmed'
    BY <1>1 DEF SInv, NoWriteLost, Outboxed, CacheConfirmed
  <1> QED BY <1>2, <1>3, <1>4 DEF SInv

LEMMA SerialNext ==
  ASSUME SerialBuild, TypeOK, SInv, [Next]_vars
  PROVE  SInv'
  <1>1. CASE \E e \in Entities : WriteBegin(e)
    BY <1>1, SerialWriteBegin
  <1>2. CASE \E e \in Entities : ClearEntityBegin(e)
    BY <1>2, SerialClearBegin DEF ClearEntityBegin, Pending
  <1>3. CASE ClearAllBegin
    BY <1>3, SerialClearBegin DEF ClearAllBegin, Pending
  <1>4. CASE \E c \in Callers : SyncSwitch(c) \/ SyncSend(c)
    BY <1>4, SerialSyncSwitch, SerialSyncSend
  <1>5. CASE UNCHANGED vars
    BY <1>5, SerialUnchanged
  <1> QED BY <1>1, <1>2, <1>3, <1>4, <1>5, SerialWriteCommit, SerialClearCommit, SerialSyncStart,
             SerialServerStart, SerialServerAnswer, SerialReady, SerialAckBegin, SerialAckCommit,
             SerialErrorBegin, SerialErrorCommit, SerialConnection, SerialCrash DEF Next

-----------------------------------------------------------------------------
(* Results for a serial build, for any number of entities, writes, lost    *)
(* connections, rejected pushes and restarts.                              *)

LEMMA SerialInvariant == ASSUME SerialBuild PROVE Spec => []IInv
  <1>1. Init => IInv
    BY TypeInit, SerialInit DEF IInv
  <1>2. IInv /\ [Next]_vars => IInv'
    BY SerialBuild, TypeNext, SerialNext DEF IInv
  <1> QED BY <1>1, <1>2, PTL DEF Spec

(* A committed write stays in the outbox until the server applied it or    *)
(* the application gave it up.                                             *)
THEOREM SerialNoWriteLost == ASSUME SerialBuild PROVE Spec => []NoWriteLost
  <1>1. IInv => NoWriteLost
    BY DEF IInv, SInv
  <1> QED BY <1>1, SerialInvariant, SerialBuild, PTL

(* The cache holds nothing the server has not applied.                     *)
THEOREM SerialCacheConfirmed == ASSUME SerialBuild PROVE Spec => []CacheConfirmed
  <1>1. IInv => CacheConfirmed
    BY DEF IInv, SInv
  <1> QED BY <1>1, SerialInvariant, SerialBuild, PTL

(* The client handles an answer against the push it answers.               *)
THEOREM SerialAnswerMatchesLocked == ASSUME SerialBuild PROVE Spec => []AnswerMatchesLocked
  <1>1. ASSUME IInv PROVE AnswerMatchesLocked
    <2>1. InFlight
      BY <1>1 DEF IInv, SInv, Protocol
    <2>2. \A i \in DOMAIN up : up[i] = Contents(locked)
      BY <2>1 DEF InFlight
    <2>3. \A i \in DOMAIN down : down[i].type # "READY" => down[i].changes = Contents(locked)
      BY <2>1 DEF InFlight, Ready, Ack, Error
    <2> QED BY <2>2, <2>3 DEF AnswerMatchesLocked
  <1> QED BY <1>1, SerialInvariant, SerialBuild, PTL

(* At most one push of the connection is unanswered.                       *)
THEOREM SerialOnePushInFlight == ASSUME SerialBuild PROVE Spec => []OnePushInFlight
  <1>1. ASSUME IInv PROVE OnePushInFlight
    <2> DEFINE answers == {i \in DOMAIN down : down[i].type # "READY"}
    <2>1. InFlight
      BY <1>1 DEF IInv, SInv, Protocol
    <2>2. CASE up # <<>>
      <3>1. Len(up) = 1 /\ down = <<>>
        BY <2>1, <2>2 DEF InFlight
      <3>2. answers = {}
        BY <3>1
      <3> QED BY <3>1, <3>2, FS_EmptySet DEF OnePushInFlight
    <2>3. CASE up = <<>>
      <3>1. answers = {} \/ answers = {1}
        BY <2>1 DEF InFlight
      <3>2. Cardinality(answers) \in {0, 1}
        BY <3>1, FS_EmptySet, FS_Singleton
      <3> QED BY <2>3, <3>2 DEF OnePushInFlight
    <2> QED BY <2>2, <2>3
  <1> QED BY <1>1, SerialInvariant, SerialBuild, PTL

-----------------------------------------------------------------------------
(* The outbox as a queue, in a serial build whose client has not restarted *)
(* (after a restart the buffers may have changed roles, and the run        *)
(* Outbox_async shows the order lost).                                     *)
Before(A, B) == \A v \in A, w \in B : v < w

(* No entry holds a write that has no number yet, nor the write whose      *)
(* transaction is still open.                                              *)
Bounded ==
  \A k \in Keys : \A w \in kv[k] : w <= n /\ (tx["write"].open => w # n)
ServerBounded == \A e \in Entities : \A v \in serverLast[e] : v <= n

(* Confirmed writes come before locked ones, and those before the others.  *)
Ordered ==
  \A e \in Entities :
    /\ Before(kv[<<"cache", e>>], kv[<<locked, e>>])
    /\ Before(kv[<<"cache", e>>], kv[<<active, e>>])
    /\ Before(kv[<<locked, e>>], kv[<<active, e>>])

(* What is still to be pushed is as late as what the server applied last.  *)
ServerOlder ==
  \A e \in Entities, b \in Buffers :
    kv[<<b, e>>] # {} =>
      \A v \in serverLast[e] : \E w \in kv[<<b, e>>] : v <= w

(* The last committed write of an entity is the last of what a query sees. *)
SeesLatest ==
  \A e \in Entities :
    latest[e] \in {0} \union discarded \/ IsLast(latest[e], LocalView(e))

Queue == Bounded /\ ServerBounded /\ Ordered /\ ServerOlder /\ SeesLatest
QInv == crashes = 0 => Queue

LEMMA WritesNat == \A w \in Writes : w \in Nat
  BY DEF Writes

LEMMA QueueTypes ==
  ASSUME TypeOK
  PROVE  /\ \A b \in Buffers \union {"cache"}, e \in Entities : kv[<<b, e>>] \subseteq Nat
         /\ \A e \in Entities : serverLast[e] \subseteq Nat
         /\ n \in Nat
         /\ active \in Buffers /\ locked \in Buffers /\ locked # active
         /\ Buffers = {active, locked} /\ active # "cache" /\ locked # "cache"
  BY KeysType, WritesNat, BuffersType DEF TypeOK, Batch, Buffers, locked

LEMMA QueueInit == Init => QInv
  <1> SUFFICES ASSUME Init PROVE Queue
    BY DEF QInv
  <1>1. Bounded /\ ServerBounded
    BY DEF Init, Bounded, ServerBounded, NoChanges
  <1>2. \A b \in Buffers \union {"cache"}, e \in Entities : kv[<<b, e>>] = {}
    BY KeysType DEF Init
  <1>3. active \in Buffers /\ locked \in Buffers
    BY DEF Init, locked, Buffers
  <1>4. Ordered /\ ServerOlder
    BY <1>2, <1>3 DEF Ordered, Before, ServerOlder
  <1>5. SeesLatest
    BY DEF Init, SeesLatest
  <1> QED BY <1>1, <1>4, <1>5 DEF Queue

(* A step that leaves the entries alone, and gives nothing back.           *)
LEMMA QueueFrame ==
  ASSUME Queue, UNCHANGED <<kv, active, latest, serverLast, n>>,
         discarded \subseteq discarded', tx'["write"].open => tx["write"].open
  PROVE  Queue'
  <1>1. locked' = locked /\ \A e \in Entities : LocalView(e)' = LocalView(e)
    BY DEF locked, LocalView
  <1>2. Bounded' /\ ServerBounded' /\ Ordered' /\ ServerOlder'
    BY <1>1 DEF Queue, Bounded, ServerBounded, Ordered, Before, ServerOlder
  <1>3. SeesLatest'
    BY <1>1 DEF Queue, SeesLatest, IsLast
  <1> QED BY <1>2, <1>3 DEF Queue

(* A new write takes a number above every other.                           *)
LEMMA QueueWriteBegin ==
  ASSUME TypeOK, Queue, NEW e \in Entities, WriteBegin(e)
  PROVE  Queue'
  <1>1. /\ n' = n + 1 /\ n \in Nat /\ ~tx["write"].open
        /\ UNCHANGED <<kv, active, latest, serverLast, discarded>>
    BY DEF WriteBegin, serverVars, TypeOK
  <1>2. locked' = locked /\ \A f \in Entities : LocalView(f)' = LocalView(f)
    BY <1>1 DEF locked, LocalView
  <1>3. Bounded' /\ ServerBounded'
    <2>1. \A k \in Keys : kv[k] \subseteq Nat
      BY WritesNat DEF TypeOK
    <2>2. \A k \in Keys : \A w \in kv[k] : w <= n + 1 /\ w # n + 1
      BY <1>1, <2>1 DEF Queue, Bounded
    <2>3. \A f \in Entities : \A v \in serverLast[f] : v <= n + 1
      BY <1>1, QueueTypes DEF Queue, ServerBounded
    <2> QED BY <1>1, <2>2, <2>3 DEF Bounded, ServerBounded
  <1>4. Ordered' /\ ServerOlder' /\ SeesLatest'
    BY <1>1, <1>2 DEF Queue, Ordered, Before, ServerOlder, SeesLatest, IsLast
  <1> QED BY <1>3, <1>4 DEF Queue

(* Its commit puts it last in the unlocked buffer, where the local view    *)
(* looks first.                                                            *)
LEMMA QueueWriteCommit ==
  ASSUME TypeOK, WriteNumbered, SInv, Queue, WriteCommit
  PROVE  Queue'
  <1>1. /\ tx["write"].open /\ n \in Nat /\ ~tx'["write"].open
        /\ UNCHANGED <<active, serverLast, n, discarded>>
    BY DEF WriteCommit, Close, NoTx, TxKinds, serverVars, TypeOK
  <1>2. PICK e \in Entities :
          /\ tx["write"].keys = {<<active, e>>}
          /\ \A b \in Buffers \union {"cache"}, f \in Entities :
               kv'[<<b, f>>] = IF b = active /\ f = e THEN kv[<<b, f>>] \union {n}
                               ELSE kv[<<b, f>>]
    BY WriteCommitted
  <1>3. locked' = locked
    BY <1>1 DEF locked
  <1>4. \A b \in Buffers \union {"cache"}, f \in Entities : \A w \in kv[<<b, f>>] : w \in Nat /\ w < n
    BY <1>1, QueueTypes, KeysType DEF Queue, Bounded
  <1>5. Bounded'
    <2> SUFFICES ASSUME NEW k \in Keys, NEW w \in kv'[k] PROVE w <= n
      BY <1>1 DEF Bounded
    <2>1. PICK b \in Buffers \union {"cache"}, f \in Entities : k = <<b, f>>
      BY DEF Keys
    <2>2. w = n \/ w \in kv[<<b, f>>]
      BY <1>2, <2>1
    <2> QED BY <1>1, <1>4, <2>2
  <1>6. ServerBounded'
    BY <1>1 DEF Queue, ServerBounded
  <1>7. Ordered'
    <2> SUFFICES ASSUME NEW f \in Entities
                 PROVE  /\ Before(kv'[<<"cache", f>>], kv'[<<locked, f>>])
                        /\ Before(kv'[<<"cache", f>>], kv'[<<active, f>>])
                        /\ Before(kv'[<<locked, f>>], kv'[<<active, f>>])
      BY <1>1, <1>3 DEF Ordered, Before
    <2>1. /\ kv'[<<"cache", f>>] = kv[<<"cache", f>>]
          /\ kv'[<<locked, f>>] = kv[<<locked, f>>]
          /\ kv'[<<active, f>>] \subseteq kv[<<active, f>>] \union {n}
      BY <1>2, QueueTypes
    <2>2. /\ \A w \in kv[<<"cache", f>>] : w < n
          /\ \A w \in kv[<<locked, f>>] : w < n
      BY <1>4, QueueTypes
    <2> QED BY <2>1, <2>2 DEF Queue, Ordered, Before
  <1>8. ServerOlder'
    <2> SUFFICES ASSUME NEW f \in Entities, NEW b \in Buffers, kv'[<<b, f>>] # {},
                        NEW v \in serverLast[f]
                 PROVE  \E w \in kv'[<<b, f>>] : v <= w
      BY <1>1 DEF ServerOlder
    <2>1. CASE b = active /\ f = e
      BY <1>2, <2>1 DEF Queue, ServerBounded
    <2>2. CASE ~(b = active /\ f = e)
      BY <1>2, <2>2 DEF Queue, ServerOlder
    <2> QED BY <2>1, <2>2
  <1>9. SeesLatest'
    <2> SUFFICES ASSUME NEW f \in Entities
                 PROVE  latest'[f] \in {0} \union discarded' \/ IsLast(latest'[f], LocalView(f)')
      BY DEF SeesLatest
    <2>1. CASE f = e
      <3>1. latest'[f] = n
        BY <1>2, <2>1, QueueTypes DEF WriteCommit
      <3>2. LocalView(f)' = kv[<<active, f>>] \union {n}
        BY <1>1, <1>2, <2>1, QueueTypes DEF LocalView
      <3>3. IsLast(n, kv[<<active, f>>] \union {n})
        BY <1>1, <1>4, QueueTypes DEF IsLast
      <3> QED BY <3>1, <3>2, <3>3
    <2>2. CASE f # e
      <3>1. latest'[f] = latest[f]
        BY <1>2, <2>2 DEF WriteCommit
      <3>2. LocalView(f)' = LocalView(f)
        BY <1>1, <1>2, <1>3, <2>2, QueueTypes DEF LocalView
      <3> QED BY <1>1, <3>1, <3>2 DEF Queue, SeesLatest
    <2> QED BY <2>1, <2>2
  <1> QED BY <1>5, <1>6, <1>7, <1>8, <1>9 DEF Queue

(* What the application clears, it gives up.                               *)
LEMMA QueueClearCommit ==
  ASSUME TypeOK, SInv, Queue, NEW kind \in {"clear", "clearAll"}, ClearCommit(kind)
  PROVE  Queue'
  <1>1. /\ UNCHANGED <<active, serverLast, n, latest>>
        /\ discarded' = discarded \union UNION {kv[k] : k \in tx[kind].keys}
        /\ tx'["write"] = tx["write"]
    BY DEF ClearCommit, Close, TypeOK, TxKinds, serverVars
  <1>2. /\ tx[kind].keys \subseteq {active} \X Entities
        /\ \A b \in Buffers \union {"cache"}, e \in Entities :
             kv'[<<b, e>>] = IF <<b, e>> \in tx[kind].keys THEN {} ELSE kv[<<b, e>>]
    BY ClearCommitted
  <1>3. locked' = locked
    BY <1>1 DEF locked
  <1>4. \A b \in Buffers \union {"cache"}, e \in Entities :
          kv'[<<b, e>>] # {} => kv'[<<b, e>>] = kv[<<b, e>>]
    BY <1>2
  <1>5. \A b \in Buffers \union {"cache"}, e \in Entities : kv'[<<b, e>>] \subseteq kv[<<b, e>>]
    BY <1>2
  <1>6. Bounded'
    BY <1>1, <1>5 DEF Queue, Bounded, Keys
  <1>7. ServerBounded' /\ ServerOlder'
    BY <1>1, <1>4 DEF Queue, ServerBounded, ServerOlder
  <1>8. Ordered'
    BY <1>1, <1>3, <1>5, QueueTypes DEF Queue, Ordered, Before
  <1>9. SeesLatest'
    <2> SUFFICES ASSUME NEW e \in Entities
                 PROVE  latest'[e] \in {0} \union discarded' \/ IsLast(latest'[e], LocalView(e)')
      BY DEF SeesLatest
    <2>1. CASE <<active, e>> \in tx[kind].keys /\ kv[<<active, e>>] # {}
      <3>1. LocalView(e) = kv[<<active, e>>]
        BY <2>1 DEF LocalView
      <3>2. kv[<<active, e>>] \subseteq discarded'
        BY <1>1, <2>1
      <3> QED BY <1>1, <3>1, <3>2 DEF Queue, SeesLatest, IsLast
    <2>2. CASE ~(<<active, e>> \in tx[kind].keys /\ kv[<<active, e>>] # {})
      <3>1. \A b \in {active, locked, "cache"} : kv'[<<b, e>>] = kv[<<b, e>>]
        BY <1>2, <2>2, QueueTypes
      <3>2. LocalView(e)' = LocalView(e)
        BY <1>1, <1>3, <3>1 DEF LocalView
      <3> QED BY <1>1, <3>2 DEF Queue, SeesLatest
    <2> QED BY <2>1, <2>2
  <1> QED BY <1>6, <1>7, <1>8, <1>9 DEF Queue

(* The locked writes become the last of the cache.                         *)
LEMMA QueueAckCommit ==
  ASSUME TypeOK, SInv, Queue, AckCommit
  PROVE  Queue'
  <1>1. /\ UNCHANGED <<active, serverLast, n, latest, discarded>>
        /\ tx'["write"] = tx["write"]
    BY DEF AckCommit, Close, TypeOK, TxKinds, serverVars, historyVars
  <1>2. locked' = locked
    BY <1>1 DEF locked
  <1>3. \A e \in Entities :
          /\ kv'[<<"cache", e>>] = kv[<<"cache", e>>] \union kv[<<locked, e>>]
          /\ kv'[<<active, e>>] = kv[<<active, e>>]
          /\ kv'[<<locked, e>>] = {}
    BY AckCommitted
  <1>4. Bounded'
    <2> SUFFICES ASSUME NEW k \in Keys, NEW w \in kv'[k]
                 PROVE  w <= n /\ (tx["write"].open => w # n)
      BY <1>1 DEF Bounded
    <2>1. PICK b \in {active, locked, "cache"}, e \in Entities : k = <<b, e>>
      BY QueueTypes DEF Keys
    <2>2. \E c \in {active, locked, "cache"} : w \in kv[<<c, e>>]
      BY <1>3, <2>1
    <2> QED BY <2>2, KeysType, QueueTypes DEF Queue, Bounded
  <1>5. ServerBounded'
    BY <1>1 DEF Queue, ServerBounded
  <1>6. Ordered'
    BY <1>1, <1>2, <1>3 DEF Queue, Ordered, Before
  <1>7. ServerOlder'
    BY <1>1, <1>3, QueueTypes DEF Queue, ServerOlder
  <1>8. SeesLatest'
    <2> SUFFICES ASSUME NEW e \in Entities, latest[e] \notin {0} \union discarded
                 PROVE  IsLast(latest[e], LocalView(e)')
      BY <1>1 DEF SeesLatest
    <2>1. IsLast(latest[e], LocalView(e))
      BY DEF Queue, SeesLatest
    <2>2. CASE kv[<<active, e>>] # {}
      BY <1>1, <1>3, <2>1, <2>2 DEF LocalView
    <2>3. CASE kv[<<active, e>>] = {} /\ kv[<<locked, e>>] # {}
      <3>1. LocalView(e) = kv[<<locked, e>>]
            /\ LocalView(e)' = kv[<<"cache", e>>] \union kv[<<locked, e>>]
        BY <1>1, <1>2, <1>3, <2>3 DEF LocalView
      <3>2. \A v \in kv[<<"cache", e>>] : v \in Nat /\ latest[e] \in Nat /\ v < latest[e]
        BY <2>1, <3>1, QueueTypes DEF Queue, Ordered, Before, IsLast
      <3>3. \A v \in kv[<<"cache", e>>] : v <= latest[e]
        BY <3>2
      <3> QED BY <2>1, <3>1, <3>3 DEF IsLast
    <2>4. CASE kv[<<active, e>>] = {} /\ kv[<<locked, e>>] = {}
      <3>1. LocalView(e) = kv[<<"cache", e>>] /\ LocalView(e)' = kv[<<"cache", e>>]
        BY <1>1, <1>2, <1>3, <2>4 DEF LocalView
      <3> QED BY <2>1, <3>1
    <2> QED BY <2>2, <2>3, <2>4
  <1> QED BY <1>4, <1>5, <1>6, <1>7, <1>8 DEF Queue

(* The failed writes go back in front of the unlocked ones.                *)
LEMMA QueueErrorCommit ==
  ASSUME TypeOK, SInv, Queue, ErrorCommit
  PROVE  Queue'
  <1>1. /\ UNCHANGED <<serverLast, n, latest, discarded>>
        /\ tx'["write"] = tx["write"]
    BY DEF ErrorCommit, Close, TypeOK, TxKinds, serverVars, historyVars
  <1>2. active' = locked /\ locked' = active
    BY BuffersType DEF ErrorCommit, locked, TypeOK, Buffers
  <1>3. \A e \in Entities :
          /\ kv'[<<"cache", e>>] = kv[<<"cache", e>>]
          /\ kv'[<<locked, e>>] = kv[<<locked, e>>] \union kv[<<active, e>>]
          /\ kv'[<<active, e>>] = {}
    BY ErrorCommitted
  <1>4. Bounded'
    <2> SUFFICES ASSUME NEW k \in Keys, NEW w \in kv'[k]
                 PROVE  w <= n /\ (tx["write"].open => w # n)
      BY <1>1 DEF Bounded
    <2>1. PICK b \in {active, locked, "cache"}, e \in Entities : k = <<b, e>>
      BY QueueTypes DEF Keys
    <2>2. \E c \in {active, locked, "cache"} : w \in kv[<<c, e>>]
      BY <1>3, <2>1
    <2> QED BY <2>2, KeysType, QueueTypes DEF Queue, Bounded
  <1>5. ServerBounded'
    BY <1>1 DEF Queue, ServerBounded
  <1>6. Ordered'
    BY <1>2, <1>3 DEF Queue, Ordered, Before
  <1>7. ServerOlder'
    BY <1>1, <1>3, QueueTypes DEF Queue, ServerOlder
  <1>8. SeesLatest'
    <2> SUFFICES ASSUME NEW e \in Entities, latest[e] \notin {0} \union discarded
                 PROVE  IsLast(latest[e], LocalView(e)')
      BY <1>1 DEF SeesLatest
    <2>1. IsLast(latest[e], LocalView(e))
      BY DEF Queue, SeesLatest
    <2>2. CASE kv[<<active, e>>] # {}
      <3>1. LocalView(e) = kv[<<active, e>>]
            /\ LocalView(e)' = kv[<<locked, e>>] \union kv[<<active, e>>]
        BY <1>2, <1>3, <2>2 DEF LocalView
      <3>2. \A v \in kv[<<locked, e>>] : v \in Nat /\ latest[e] \in Nat /\ v < latest[e]
        BY <2>1, <3>1, QueueTypes DEF Queue, Ordered, Before, IsLast
      <3>3. \A v \in kv[<<locked, e>>] : v <= latest[e]
        BY <3>2
      <3> QED BY <2>1, <3>1, <3>3 DEF IsLast
    <2>3. CASE kv[<<active, e>>] = {}
      <3>1. LocalView(e)' = LocalView(e)
        BY <1>2, <1>3, <2>3 DEF LocalView
      <3> QED BY <2>1, <3>1
    <2> QED BY <2>2, <2>3
  <1> QED BY <1>4, <1>5, <1>6, <1>7, <1>8 DEF Queue

(* The buffers switch roles only over an empty locked buffer.              *)
LEMMA QueueSyncSwitch ==
  ASSUME TypeOK, Queue, NEW c \in Callers, SyncSwitch(c)
  PROVE  Queue'
  <1>1. UNCHANGED <<kv, tx, serverLast, n, latest, discarded>>
    BY DEF SyncSwitch, serverVars, historyVars
  <1>2. CASE ~ShouldSwitch
    BY <1>1, <1>2, QueueFrame DEF SyncSwitch
  <1>3. CASE ShouldSwitch
    <2>1. active' = locked /\ locked' = active
      BY <1>3, BuffersType DEF SyncSwitch, locked, TypeOK, Buffers
    <2>2. \A e \in Entities : kv[<<locked, e>>] = {}
      BY <1>3 DEF ShouldSwitch, Contents, NoChanges
    <2>3. Bounded' /\ ServerBounded' /\ ServerOlder'
      BY <1>1 DEF Queue, Bounded, ServerBounded, ServerOlder
    <2>4. Ordered'
      BY <1>1, <2>1, <2>2 DEF Queue, Ordered, Before
    <2>5. \A e \in Entities : LocalView(e)' = LocalView(e)
      BY <1>1, <2>1, <2>2 DEF LocalView
    <2>6. SeesLatest'
      BY <1>1, <2>5 DEF Queue, SeesLatest
    <2> QED BY <2>3, <2>4, <2>6 DEF Queue
  <1> QED BY <1>2, <1>3

(* The server moves to the push, which the locked buffer still holds.      *)
LEMMA ServerMovesOn ==
  ASSUME TypeOK, SInv, Queue, ServerApply
  PROVE  /\ \A e \in Entities :
              \/ serverLast'[e] = serverLast[e]
              \/ serverLast'[e] = kv[<<locked, e>>] /\ kv[<<locked, e>>] # {}
         /\ \A e \in Entities : \A v \in serverLast[e] : \E w \in serverLast'[e] : v <= w
  <1>1. up = <<Contents(locked)>> /\ Head(up) = Contents(locked)
    BY DEF ServerApply, SInv, Protocol, InFlight
  <1>2. \A e \in Entities :
          \/ serverLast'[e] = serverLast[e]
          \/ serverLast'[e] = kv[<<locked, e>>] /\ kv[<<locked, e>>] # {}
    BY <1>1 DEF ServerApply, ServerApplies, Contents
  <1>3. \A e \in Entities : \A v \in serverLast[e] : v \in Nat /\ v <= v
    BY QueueTypes
  <1>4. \A e \in Entities : kv[<<locked, e>>] # {} =>
          \A v \in serverLast[e] : \E w \in kv[<<locked, e>>] : v <= w
    BY BuffersType DEF Queue, ServerOlder
  <1> QED BY <1>2, <1>3, <1>4

LEMMA QueueServerApply ==
  ASSUME TypeOK, SInv, Queue, ServerApply
  PROVE  Queue'
  <1>1. UNCHANGED <<kv, active, tx, n, latest, discarded>>
    BY DEF ServerApply, storeVars, historyVars
  <1>2. locked' = locked /\ \A e \in Entities : LocalView(e)' = LocalView(e)
    BY <1>1 DEF locked, LocalView
  <1>3. Bounded' /\ Ordered' /\ SeesLatest'
    BY <1>1, <1>2 DEF Queue, Bounded, Ordered, Before, SeesLatest, IsLast
  <1>4. ServerBounded'
    BY <1>1, ServerMovesOn, KeysType, QueueTypes DEF Queue, ServerBounded, Bounded
  <1>5. ServerOlder'
    <2> SUFFICES ASSUME NEW e \in Entities, NEW b \in Buffers, kv[<<b, e>>] # {},
                        NEW v \in serverLast'[e]
                 PROVE  \E w \in kv[<<b, e>>] : v <= w
      BY <1>1 DEF ServerOlder
    <2>1. CASE serverLast'[e] = serverLast[e]
      BY <2>1 DEF Queue, ServerOlder
    <2>2. CASE serverLast'[e] = kv[<<locked, e>>] /\ b = locked
      BY <2>2, QueueTypes
    <2>3. CASE serverLast'[e] = kv[<<locked, e>>] /\ b = active
      <3>1. PICK w \in kv[<<active, e>>] : TRUE
        BY <2>3
      <3>2. v < w /\ v \in Nat /\ w \in Nat
        BY <2>3, <3>1, QueueTypes DEF Queue, Ordered, Before
      <3> QED BY <2>3, <3>1, <3>2
    <2> QED BY <2>1, <2>2, <2>3, ServerMovesOn, QueueTypes
  <1> QED BY <1>3, <1>4, <1>5 DEF Queue

(* The other steps of a serial build touch no entry.                       *)
LEMMA QueueNext ==
  ASSUME SerialBuild, IInv, QInv, [Next]_vars
  PROVE  QInv'
  <1> SUFFICES ASSUME crashes' = 0 PROVE Queue'
    BY DEF QInv
  <1> USE DEF IInv
  <1>1. crashes = 0 /\ ~Crash
    <2>1. ~Crash
      BY DEF Crash, TypeOK
    <2>2. UNCHANGED crashes
      BY <2>1 DEF Next, vars, boundVars, WriteBegin, WriteCommit, ClearEntityBegin,
             ClearAllBegin, ClearBegin, ClearEntityCommit, ClearAllCommit, ClearCommit,
             SyncOnCommit, SyncByUser, SyncSwitch, SyncSend, ServerStart, ServerNotReady,
             ServerApply, ServerApplyViewError, ServerReject, HandleReady, AckBegin, AckCommit,
             ErrorBegin, ErrorCommit, Drop, OnClose, Connect
    <2> QED BY <2>1, <2>2
  <1>2. Queue
    BY <1>1 DEF QInv
  <1>3. CASE \E e \in Entities : WriteBegin(e)
    BY <1>2, <1>3, QueueWriteBegin
  <1>4. CASE ClearEntityCommit \/ ClearAllCommit
    BY <1>2, <1>4, QueueClearCommit DEF ClearEntityCommit, ClearAllCommit
  <1>5. CASE \E kind \in TxKinds \ {"write"} : \E keys, vals :
               /\ tx' = Open(kind, keys, vals)
               /\ UNCHANGED <<kv, active, latest, serverLast, n, discarded>>
    <2>1. tx'["write"] = tx["write"]
      BY <1>5 DEF Open, TypeOK, TxKinds
    <2> QED BY <1>2, <1>5, <2>1, QueueFrame
  <1>6. CASE UNCHANGED <<kv, active, tx, latest, serverLast, n, discarded>>
    BY <1>2, <1>6, QueueFrame
  <1>7. CASE \/ \E e \in Entities : ClearEntityBegin(e)
             \/ ClearAllBegin \/ AckBegin \/ ErrorBegin
    <2>1. {"clear", "clearAll", "ack", "error"} \subseteq TxKinds \ {"write"}
      BY DEF TxKinds
    <2> QED BY <1>5, <1>7, <2>1
            DEF ClearEntityBegin, ClearAllBegin, ClearBegin, AckBegin, ErrorBegin, serverVars,
                historyVars
  <1>8. CASE \/ SyncOnCommit \/ SyncByUser
             \/ \E c \in Callers : SyncSend(c)
             \/ ServerStart \/ ServerNotReady \/ ServerReject \/ HandleReady
             \/ Drop \/ OnClose \/ Connect
             \/ UNCHANGED vars
    BY <1>6, <1>8
       DEF SyncOnCommit, SyncByUser, SyncSend, ServerStart, ServerNotReady, ServerReject,
           HandleReady, Drop, OnClose, Connect, vars, storeVars, serverVars, historyVars
  <1>9. ~ServerApplyViewError
    BY BoundAssumption DEF ServerApplyViewError, SerialBuild, TypeOK
  <1> QED BY <1>1, <1>2, <1>3, <1>4, <1>7, <1>8, <1>9, QueueWriteCommit, QueueAckCommit,
             QueueErrorCommit, QueueSyncSwitch, QueueServerApply DEF Next

LEMMA QueueInvariant == ASSUME SerialBuild PROVE Spec => [](IInv /\ QInv)
  <1>1. IInv /\ QInv /\ [Next]_vars => QInv'
    BY SerialBuild, QueueNext
  <1> QED BY <1>1, QueueInit, SerialInvariant, SerialBuild, PTL DEF Spec

(* A client that has not restarted sees its own last write of an entity    *)
(* until it gives that write up.                                           *)
THEOREM SerialReadYourWrites == ASSUME SerialBuild PROVE Spec => []ReadYourWrites
  <1>1. QInv => ReadYourWrites
    BY DEF QInv, Queue, SeesLatest, ReadYourWrites
  <1> QED BY <1>1, QueueInvariant, SerialBuild, PTL

(* While the client has not restarted, no push, retry or answer that was   *)
(* lost makes the server go back to an older value of an entity.           *)
THEOREM SerialServerNeverReverts == ASSUME SerialBuild PROVE Spec => ServerNeverReverts
  <1> DEFINE Forward ==
        crashes = 0 =>
          \A e \in Entities : \A v \in serverLast[e] : \E w \in serverLast'[e] : v <= w
  <1>1. ASSUME IInv, QInv, [Next]_vars PROVE Forward
    <2> SUFFICES ASSUME crashes = 0
                 PROVE  \A e \in Entities : \A v \in serverLast[e] :
                          \E w \in serverLast'[e] : v <= w
      OBVIOUS
    <2> USE <1>1 DEF IInv
    <2>1. CASE ServerApply
      BY <2>1, ServerMovesOn DEF QInv
    <2>2. CASE UNCHANGED serverLast
      <3>1. \A e \in Entities : \A v \in serverLast[e] : v <= v
        BY QueueTypes
      <3> QED BY <2>2, <3>1
    <2>3. ~ServerApplyViewError
      BY SerialBuild, BoundAssumption DEF ServerApplyViewError, SerialBuild, TypeOK
    <2>4. ServerApply \/ UNCHANGED serverLast
      BY <2>3 DEF Next, vars, serverVars, Crash, WriteBegin, WriteCommit, ClearEntityBegin,
             ClearAllBegin, ClearBegin, ClearEntityCommit, ClearAllCommit, ClearCommit,
             SyncOnCommit, SyncByUser, SyncSwitch, SyncSend, ServerStart, ServerNotReady,
             ServerReject, HandleReady, AckBegin, AckCommit, ErrorBegin, ErrorCommit, Drop,
             OnClose, Connect
    <2> QED BY <2>1, <2>2, <2>4
  <1>2. IInv /\ QInv /\ [Next]_vars => [Forward]_vars
    BY <1>1
  <1> QED BY <1>2, QueueInvariant, SerialBuild, PTL DEF Spec, ServerNeverReverts

-----------------------------------------------------------------------------
(* A result for every build, however its activations interleave: only the  *)
(* commit of an acknowledgement writes to the cache, and what it writes    *)
(* has not become older while it waited.                                   *)
CacheTx ==
  /\ \A kind \in TxKinds \ {"ack"}, e \in Entities : <<"cache", e>> \notin tx[kind].keys
  /\ \A e \in Entities : <<"cache", e>> \in tx["ack"].keys =>
                         kv[<<"cache", e>>] \subseteq tx["ack"].vals[<<"cache", e>>]

LEMMA CacheTxInit == Init => CacheTx
  BY DEF Init, CacheTx, NoTx, TxKinds

LEMMA CacheTxOpen ==
  ASSUME TypeOK, CacheTx, UNCHANGED kv, NEW kind \in TxKinds, NEW keys, NEW vals,
         tx' = Open(kind, keys, vals),
         \A e \in Entities : <<"cache", e>> \in keys =>
           kind = "ack" /\ kv[<<"cache", e>>] \subseteq vals[<<"cache", e>>]
  PROVE  CacheTx'
  BY DEF TypeOK, CacheTx, Open, TxKinds

LEMMA CacheTxCommit ==
  ASSUME TypeOK, CacheTx, NEW kind \in TxKinds, kv' = Committed(kind), tx' = Close(kind)
  PROVE  /\ CacheTx'
         /\ \A e \in Entities : kv[<<"cache", e>>] \subseteq kv'[<<"cache", e>>]
  <1>1. /\ tx'[kind].keys = {}
        /\ \A j \in TxKinds \ {kind} : tx'[j] = tx[j]
    BY DEF Close, NoTx, TypeOK
  <1>2. \A e \in Entities :
          kv'[<<"cache", e>>] = IF <<"cache", e>> \in tx[kind].keys THEN tx[kind].vals[<<"cache", e>>]
                                ELSE kv[<<"cache", e>>]
    BY CommittedAt
  <1>3. "ack" \in TxKinds
    BY DEF TxKinds
  <1>4. CASE kind = "ack"
    BY <1>1, <1>2, <1>3, <1>4 DEF CacheTx
  <1>5. CASE kind # "ack"
    <2>1. \A e \in Entities : kv'[<<"cache", e>>] = kv[<<"cache", e>>]
      BY <1>2, <1>5 DEF CacheTx
    <2> QED BY <1>1, <1>3, <1>5, <2>1 DEF CacheTx
  <1> QED BY <1>4, <1>5

LEMMA CacheTxNext ==
  ASSUME TypeOK, CacheTx, [Next]_vars
  PROVE  /\ CacheTx'
         /\ \A e \in Entities : kv[<<"cache", e>>] \subseteq kv'[<<"cache", e>>]
  <1>k. /\ "write" \in TxKinds /\ "ack" \in TxKinds /\ "error" \in TxKinds
        /\ "clear" \in TxKinds /\ "clearAll" \in TxKinds
    BY DEF TxKinds
  <1>b. active # "cache" /\ locked # "cache"
    BY BuffersType DEF TypeOK, Buffers
  <1>1. CASE \E e \in Entities : WriteBegin(e)
    BY <1>1, <1>k, <1>b, CacheTxOpen DEF WriteBegin
  <1>2. CASE \E kind \in {"clear", "clearAll"}, es \in SUBSET Entities : ClearBegin(kind, es)
    BY <1>2, <1>k, <1>b, CacheTxOpen DEF ClearBegin
  <1>3. CASE AckBegin
    <2>1. \A e \in Entities : kv[<<"cache", e>>] \subseteq MoveVals(locked, "cache")[<<"cache", e>>]
      BY KeysType DEF MoveVals
    <2> QED BY <1>3, <1>k, <2>1, CacheTxOpen DEF AckBegin
  <1>4. CASE ErrorBegin
    <2>1. \A e \in Entities : <<"cache", e>> \notin MoveKeys(active, locked)
      BY <1>b DEF MoveKeys
    <2> QED BY <1>4, <1>k, <2>1, CacheTxOpen DEF ErrorBegin
  <1>5. CASE \E kind \in TxKinds : kv' = Committed(kind) /\ tx' = Close(kind)
    BY <1>5, CacheTxCommit
  <1>6. CASE UNCHANGED kv /\ tx' = [kind \in TxKinds |-> NoTx]
    BY <1>6 DEF CacheTx, NoTx, TxKinds
  <1>7. CASE UNCHANGED <<kv, tx>>
    BY <1>7 DEF CacheTx
  <1>8. CASE Next
    <2>1. CASE \E e \in Entities : ClearEntityBegin(e)
      BY <1>2, <2>1 DEF ClearEntityBegin, Pending
    <2>2. CASE ClearAllBegin
      BY <1>2, <2>2 DEF ClearAllBegin, Pending
    <2>3. CASE WriteCommit \/ ClearEntityCommit \/ ClearAllCommit \/ AckCommit \/ ErrorCommit
      BY <1>5, <1>k, <2>3 DEF WriteCommit, ClearEntityCommit, ClearAllCommit, ClearCommit,
                              AckCommit, ErrorCommit
    <2>4. CASE \/ SyncOnCommit \/ SyncByUser
               \/ \E c \in Callers : SyncSwitch(c) \/ SyncSend(c)
               \/ HandleReady
      BY <1>7, <2>4 DEF SyncOnCommit, SyncByUser, SyncSwitch, SyncSend, HandleReady, storeVars
    <2>5. CASE \/ ServerStart \/ ServerNotReady \/ ServerApply \/ ServerApplyViewError
               \/ ServerReject
      BY <1>7, <2>5 DEF ServerStart, ServerNotReady, ServerApply, ServerApplyViewError,
                        ServerReject, storeVars
    <2>6. CASE Drop \/ OnClose \/ Connect
      BY <1>7, <2>6 DEF Drop, OnClose, Connect, storeVars
    <2>7. CASE Crash
      BY <1>6, <2>7 DEF Crash
    <2> QED BY <1>1, <1>3, <1>4, <1>8, <2>1, <2>2, <2>3, <2>4, <2>5, <2>6, <2>7 DEF Next
  <1>9. CASE UNCHANGED vars
    BY <1>7, <1>9 DEF vars, storeVars
  <1> QED BY <1>8, <1>9

(* A write that reached the cache does not leave it, in any build.         *)
THEOREM AlwaysConfirmedStays == Spec => ConfirmedStays
  <1>1. TypeOK /\ CacheTx /\ [Next]_vars => CacheTx'
    BY CacheTxNext
  <1>2. TypeOK /\ CacheTx /\ [Next]_vars =>
          [\A e \in Entities : kv[<<"cache", e>>] \subseteq kv'[<<"cache", e>>]]_vars
    BY CacheTxNext
  <1> QED BY <1>1, <1>2, CacheTxInit, TypeCorrect, PTL DEF Spec, ConfirmedStays
-----------------------------------------------------------------------------
(* In a serial build the outbox implements Push.                           *)

(* The last number is the highest, and not committed before its commit.    *)
Numbered == \A w \in committed : w <= n /\ (tx["write"].open => w # n)

(* What Push sees of a step.                                               *)
Implements == Numbered' /\ [Atomic!Next]_(Atomic!vars)

LEMMA PushInit == Init => Numbered /\ Atomic!Init
  <1> SUFFICES ASSUME Init PROVE Numbered /\ Atomic!Init
    OBVIOUS
  <1>1. \A b \in Buffers \union {"cache"} : Contents(b) = Atomic!Nothing
    BY KeysType DEF Init, Contents, Atomic!Nothing
  <1>2. active \in Buffers /\ locked \in Buffers
    BY DEF Init, locked, Buffers
  <1> QED BY <1>1, <1>2 DEF Init, Numbered, Atomic!Init, Atomic!Nothing, NoChanges

(* A step that leaves the entries and the server alone is none of Push.    *)
LEMMA PushFrame ==
  ASSUME Numbered, UNCHANGED <<kv, active, n, committed, discarded, applied, serverLast>>,
         tx'["write"].open => tx["write"].open
  PROVE  Implements
  <1>1. \A b : Contents(b)' = Contents(b)
    BY DEF Contents
  <1>2. locked' = locked
    BY DEF locked
  <1>3. UNCHANGED Atomic!vars
    BY <1>1, <1>2 DEF Atomic!vars, Contents
  <1>4. Numbered'
    BY DEF Numbered
  <1> QED BY <1>3, <1>4 DEF Implements

(* The start of a write takes the next number.                             *)
LEMMA PushWriteBegin ==
  ASSUME TypeOK, Numbered, NEW e \in Entities, WriteBegin(e)
  PROVE  Implements
  <1>1. /\ n' = n + 1 /\ ~tx["write"].open
        /\ UNCHANGED <<kv, active, committed, discarded, applied, serverLast>>
    BY DEF WriteBegin, serverVars
  <1>2. n \in Nat /\ committed \subseteq Nat
    BY WritesNat DEF TypeOK
  <1>3. Numbered'
    BY <1>1, <1>2 DEF Numbered
  <1>4. UNCHANGED Atomic!vars
    BY <1>1 DEF Atomic!vars, Contents, locked
  <1> QED BY <1>3, <1>4 DEF Implements

(* Its commit is the write.                                                *)
LEMMA PushWriteCommit ==
  ASSUME TypeOK, WriteNumbered, SInv, Numbered, WriteCommit
  PROVE  Implements
  <1>1. PICK e \in Entities :
          \A b \in Buffers \union {"cache"}, f \in Entities :
            kv'[<<b, f>>] = IF b = active /\ f = e THEN kv[<<b, f>>] \union {n}
                            ELSE kv[<<b, f>>]
    BY WriteCommitted
  <1>2. /\ tx["write"].open /\ ~tx'["write"].open /\ committed' = committed \union {n}
        /\ UNCHANGED <<active, n, discarded, applied, serverLast>>
    BY DEF WriteCommit, Close, NoTx, TxKinds, serverVars, TypeOK
  <1>3. locked' = locked /\ locked # active /\ active \in Buffers /\ locked \in Buffers
        /\ active # "cache" /\ locked # "cache"
    BY <1>2, QueueTypes DEF locked
  <1>4. n \in Writes /\ n \in Nat /\ committed \subseteq Nat
    BY <1>2, WritesNat DEF TypeOK, WriteNumbered, Writes
  <1>5. Numbered'
    BY <1>2, <1>4 DEF Numbered
  <1>6. Contents(active)' = [Contents(active) EXCEPT ![e] = @ \union {n}]
    BY <1>1, <1>2, <1>3 DEF Contents
  <1>7. Contents(locked)' = Contents(locked) /\ Contents("cache")' = Contents("cache")
    BY <1>1, <1>3 DEF Contents
  <1>8. \A v \in committed : v < n
    BY <1>2, <1>4 DEF Numbered
  <1>9. Atomic!Write(e, n)
    BY <1>2, <1>6, <1>7, <1>8 DEF Atomic!Write
  <1> QED BY <1>4, <1>5, <1>9 DEF Implements, Atomic!Next

(* What is cleared is what the application gives up.                       *)
LEMMA PushClearCommit ==
  ASSUME TypeOK, SInv, Numbered, NEW kind \in {"clear", "clearAll"}, ClearCommit(kind)
  PROVE  Implements
  <1> DEFINE es == {e \in Entities : <<active, e>> \in tx[kind].keys}
  <1>1. /\ tx[kind].keys \subseteq {active} \X Entities
        /\ \A b \in Buffers \union {"cache"}, e \in Entities :
             kv'[<<b, e>>] = IF <<b, e>> \in tx[kind].keys THEN {} ELSE kv[<<b, e>>]
    BY ClearCommitted
  <1>2. /\ discarded' = discarded \union UNION {kv[k] : k \in tx[kind].keys}
        /\ UNCHANGED <<active, n, committed, applied, serverLast>>
        /\ tx'["write"].open => tx["write"].open
    BY DEF ClearCommit, Close, NoTx, TxKinds, serverVars, TypeOK
  <1>3. locked' = locked /\ locked # active /\ active \in Buffers /\ locked \in Buffers
        /\ active # "cache" /\ locked # "cache"
    BY <1>2, QueueTypes DEF locked
  <1>4. Numbered'
    BY <1>2 DEF Numbered
  <1>5. UNION {kv[k] : k \in tx[kind].keys} = UNION {Contents(active)[e] : e \in es}
    <2>1. \A k \in tx[kind].keys : \E e \in es : k = <<active, e>>
      BY <1>1
    <2>2. \A e \in es : Contents(active)[e] = kv[<<active, e>>]
      BY DEF Contents
    <2> HIDE DEF es
    <2>3. \A e \in es : <<active, e>> \in tx[kind].keys
      BY DEF es
    <2>4. \A x : (\E k \in tx[kind].keys : x \in kv[k]) <=> \E e \in es : x \in Contents(active)[e]
      BY <2>1, <2>2, <2>3, ZenonT(30)
    <2> QED BY <2>4
  <1>6. Contents(active)' = [e \in Entities |-> IF e \in es THEN {} ELSE Contents(active)[e]]
    BY <1>1, <1>2, <1>3 DEF Contents
  <1>7. Contents(locked)' = Contents(locked) /\ Contents("cache")' = Contents("cache")
    BY <1>1, <1>3 DEF Contents
  <1>8. Atomic!Discard(es)
    BY <1>2, <1>5, <1>6, <1>7 DEF Atomic!Discard
  <1> QED BY <1>4, <1>8 DEF Implements, Atomic!Next

(* An acknowledgement confirms the batch, which the server has.            *)
LEMMA PushAckCommit ==
  ASSUME TypeOK, SInv, Numbered, AckCommit
  PROVE  Implements
  <1>1. \A e \in Entities :
          /\ kv'[<<"cache", e>>] = kv[<<"cache", e>>] \union kv[<<locked, e>>]
          /\ kv'[<<active, e>>] = kv[<<active, e>>]
          /\ kv'[<<locked, e>>] = {}
    BY AckCommitted
  <1>2. /\ tx["ack"].open /\ UNCHANGED <<active, n, committed, discarded, applied, serverLast>>
        /\ tx'["write"].open => tx["write"].open
    BY DEF AckCommit, Close, NoTx, TxKinds, serverVars, historyVars, TypeOK
  <1>3. locked' = locked
    BY <1>2 DEF locked
  <1>4. Numbered'
    BY <1>2 DEF Numbered
  <1>5. \A e \in Entities : Contents(locked)[e] \subseteq applied
    BY <1>2 DEF SInv, Transactions, AckTx, Contents
  <1>6. /\ Contents("cache")' = Atomic!With(Contents("cache"), Contents(locked))
        /\ Contents(active)' = Contents(active)
        /\ Contents(locked)' = Atomic!Nothing
    BY <1>1, <1>2, <1>3 DEF Contents, Atomic!With, Atomic!Nothing
  <1>7. Atomic!Confirm
    BY <1>2, <1>5, <1>6 DEF Atomic!Confirm, Atomic!All
  <1> QED BY <1>4, <1>7 DEF Implements, Atomic!Next

(* An error returns it to the queue.                                       *)
LEMMA PushErrorCommit ==
  ASSUME TypeOK, SInv, Numbered, ErrorCommit
  PROVE  Implements
  <1>1. \A e \in Entities :
          /\ kv'[<<"cache", e>>] = kv[<<"cache", e>>]
          /\ kv'[<<locked, e>>] = kv[<<locked, e>>] \union kv[<<active, e>>]
          /\ kv'[<<active, e>>] = {}
    BY ErrorCommitted
  <1>2. /\ active' = locked /\ UNCHANGED <<n, committed, discarded, applied, serverLast>>
        /\ tx'["write"].open => tx["write"].open
    BY BuffersType DEF ErrorCommit, Close, NoTx, TxKinds, serverVars, historyVars, TypeOK
  <1>3. locked' = active
    BY <1>2 DEF TypeOK, Buffers, locked
  <1>4. Numbered'
    BY <1>2 DEF Numbered
  <1>5. /\ Contents("cache")' = Contents("cache")
        /\ Contents(active)' = Atomic!With(Contents(active), Contents(locked))
        /\ Contents(locked)' = Atomic!Nothing
    BY <1>1, <1>2, <1>3 DEF Contents, Atomic!With, Atomic!Nothing
  <1>6. Atomic!Return
    BY <1>2, <1>5 DEF Atomic!Return
  <1> QED BY <1>4, <1>6 DEF Implements, Atomic!Next

(* A switch of the buffers starts a batch; otherwise the old one is sent.  *)
LEMMA PushSyncSwitch ==
  ASSUME TypeOK, Numbered, NEW c \in Callers, SyncSwitch(c)
  PROVE  Implements
  <1>1. UNCHANGED <<kv, tx, n, committed, discarded, applied, serverLast>>
    BY DEF SyncSwitch, serverVars, historyVars
  <1>2. CASE ShouldSwitch
    <2>1. active' = locked
      BY <1>2, BuffersType DEF SyncSwitch
    <2>2. locked' = active
      BY <2>1 DEF TypeOK, Buffers, locked
    <2>3. Contents(locked) = Atomic!Nothing
      BY <1>2 DEF ShouldSwitch, NoChanges, Atomic!Nothing
    <2>4. /\ Contents(active)' = Contents(locked) /\ Contents(locked)' = Contents(active)
          /\ Contents("cache")' = Contents("cache")
      BY <1>1, <2>1, <2>2 DEF Contents
    <2>5. Atomic!Start
      BY <1>1, <2>3, <2>4 DEF Atomic!Start
    <2>6. Numbered'
      BY <1>1 DEF Numbered
    <2> QED BY <2>5, <2>6 DEF Implements, Atomic!Next
  <1>3. CASE ~ShouldSwitch
    BY <1>1, <1>3, PushFrame DEF SyncSwitch
  <1> QED BY <1>2, <1>3

(* The server applies the batch that the client is at.                     *)
LEMMA PushServerApply ==
  ASSUME TypeOK, SInv, Numbered, ServerApply
  PROVE  Implements
  <1>1. Head(up) = Contents(locked)
    BY DEF ServerApply, SInv, Protocol, InFlight
  <1>2. /\ UNCHANGED <<kv, active, tx, n, committed, discarded>>
        /\ applied' = applied \union UNION {Contents(locked)[e] : e \in Entities}
        /\ serverLast' = [e \in Entities |-> IF Contents(locked)[e] = {} THEN serverLast[e]
                                             ELSE Contents(locked)[e]]
    BY <1>1 DEF ServerApply, ServerApplies, storeVars, historyVars
  <1>3. \A b : Contents(b)' = Contents(b)
    BY <1>2 DEF Contents
  <1>4. Contents(active)' = Contents(active) /\ Contents(locked)' = Contents(locked)
        /\ Contents("cache")' = Contents("cache")
    BY <1>2 DEF Contents, locked
  <1>5. Atomic!Apply
    BY <1>2, <1>4 DEF Atomic!Apply, Atomic!All
  <1>6. Numbered'
    BY <1>2 DEF Numbered
  <1> QED BY <1>5, <1>6 DEF Implements, Atomic!Next

(* After a restart the buffers may have changed their roles.               *)
LEMMA PushCrash ==
  ASSUME TypeOK, Numbered, Crash
  PROVE  Implements
  <1>1. /\ UNCHANGED <<kv, n, committed, discarded, applied, serverLast>>
        /\ active' = "buf0" /\ ~tx'["write"].open
    BY DEF Crash, serverVars, historyVars, NoTx, TxKinds
  <1>2. CASE active = "buf0"
    BY <1>1, <1>2, PushFrame
  <1>3. CASE active = "buf1"
    <2>1. active' = locked /\ locked' = active
      BY <1>1, <1>3 DEF locked
    <2>2. /\ Contents(active)' = Contents(locked) /\ Contents(locked)' = Contents(active)
          /\ Contents("cache")' = Contents("cache")
      BY <1>1, <2>1 DEF Contents
    <2>3. Atomic!Restart
      BY <1>1, <2>2 DEF Atomic!Restart
    <2>4. Numbered'
      BY <1>1 DEF Numbered
    <2> QED BY <2>3, <2>4 DEF Implements, Atomic!Next
  <1> QED BY <1>2, <1>3 DEF TypeOK, Buffers

LEMMA PushNext ==
  ASSUME SerialBuild, IInv, Numbered, [Next]_vars
  PROVE  Implements
  <1> USE DEF IInv
  <1>w. /\ "write" \in TxKinds
        /\ \A kind \in TxKinds \ {"write"} : \A keys, vals :
             tx' = Open(kind, keys, vals) => (tx'["write"].open => tx["write"].open)
    BY DEF TxKinds, Open, TypeOK
  <1>1. CASE \E e \in Entities : ClearEntityBegin(e)
    BY <1>1, <1>w, PushFrame DEF ClearEntityBegin, ClearBegin, serverVars, historyVars, TxKinds
  <1>2. CASE ClearAllBegin
    BY <1>2, <1>w, PushFrame DEF ClearAllBegin, ClearBegin, serverVars, historyVars, TxKinds
  <1>3. CASE AckBegin
    BY <1>3, <1>w, PushFrame DEF AckBegin, serverVars, historyVars, TxKinds
  <1>4. CASE ErrorBegin
    BY <1>4, <1>w, PushFrame DEF ErrorBegin, serverVars, historyVars, TxKinds
  <1>5. CASE \/ SyncOnCommit \/ SyncByUser \/ HandleReady
             \/ \E c \in Callers : SyncSend(c)
    BY <1>5, PushFrame
    DEF SyncOnCommit, SyncByUser, HandleReady, SyncSend, storeVars, serverVars, historyVars
  <1>6. CASE ServerStart \/ ServerNotReady \/ ServerReject
    BY <1>6, PushFrame
    DEF ServerStart, ServerNotReady, ServerReject, storeVars, serverVars, historyVars
  <1>7. CASE Drop \/ OnClose \/ Connect
    BY <1>7, PushFrame DEF Drop, OnClose, Connect, storeVars, serverVars, historyVars
  <1>8. CASE UNCHANGED vars
    BY <1>8, PushFrame DEF vars, storeVars, serverVars, historyVars
  <1>9. ~ServerApplyViewError
    BY BoundAssumption DEF ServerApplyViewError, SerialBuild, TypeOK
  <1>10. CASE ClearEntityCommit \/ ClearAllCommit
    BY <1>10, PushClearCommit DEF ClearEntityCommit, ClearAllCommit
  <1>11. CASE \/ \E e \in Entities : WriteBegin(e)
              \/ WriteCommit \/ AckCommit \/ ErrorCommit \/ ServerApply \/ Crash
              \/ \E c \in Callers : SyncSwitch(c)
    BY <1>11, PushWriteBegin, PushWriteCommit, PushAckCommit, PushErrorCommit,
       PushServerApply, PushCrash, PushSyncSwitch
  <1> QED
    BY <1>1, <1>2, <1>3, <1>4, <1>5, <1>6, <1>7, <1>8, <1>9, <1>10, <1>11 DEF Next

(* Where storage does not yield, and view updates of the server do not     *)
(* throw, the push protocol hands the outbox over batch by batch: whatever *)
(* is lost, refused or sent again, the server gets a batch whole, the      *)
(* client confirms or takes back the one that it handed over, and starts   *)
(* the next when it is settled.                                            *)
THEOREM SerialImplementsPush == ASSUME SerialBuild PROVE Spec => ImplementsPush
  <1>1. Init => Numbered /\ Atomic!Init
    BY PushInit
  <1>2. IInv /\ Numbered /\ [Next]_vars => Numbered' /\ [Atomic!Next]_(Atomic!vars)
    BY PushNext, SerialBuild DEF Implements
  <1> QED BY <1>1, <1>2, SerialInvariant, SerialBuild, PTL DEF Spec, ImplementsPush, Atomic!Spec
=============================================================================
