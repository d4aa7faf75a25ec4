---------------------------- MODULE ReplicaProofs ----------------------------
(***************************************************************************)
(* Theorems about Replica, for every set of clients, ids, attributes and   *)
(* values and every bound.  While the server's two clocks are never read   *)
(* in the same millisecond and Date.now() does not go back, the server     *)
(* prunes nothing that it acknowledges and the stamps that a client is     *)
(* sent grow; if its storage also answers at once, clients come to have    *)
(* what the server has.                                                    *)
(***************************************************************************)
EXTENDS Replica, TLAPS

-----------------------------------------------------------------------------
(* What the functions of Changes return.                                   *)

Stored == Entity \union {None}

(* deepObjectAssign of two changes is a change, whole if one of them is.    *)
LEMMA MergeType ==
  ASSUME NEW c \in Change, NEW d \in Change
  PROVE  Merge(c, d) \in Change /\ (Merge(c, d).whole <=> c.whole \/ d.whole)
<1> DEFINE D == DOMAIN c.fields \union DOMAIN d.fields
           f == [x \in D |-> IF x \in DOMAIN d.fields THEN d.fields[x] ELSE c.fields[x]]
<1>1. PICK C \in SUBSET Attrs : c.fields \in [C -> Values]
  BY DEF Change, Fields
<1>2. PICK E \in SUBSET Attrs : d.fields \in [E -> Values]
  BY DEF Change, Fields
<1>3. D \in SUBSET Attrs /\ f \in [D -> Values]
  BY <1>1, <1>2
<1>4. f \in Fields
  BY <1>3 DEF Fields
<1>5. c.whole \in BOOLEAN /\ d.whole \in BOOLEAN
  BY DEF Change
<1> QED BY <1>4, <1>5 DEF Merge, Change

LEMMA OverType ==
  ASSUME NEW c \in Change \union {None}, NEW d \in Change \union {None}
  PROVE  Over(c, d) \in Change \union {None}
BY MergeType DEF Over

LEMMA AppliedType ==
  ASSUME NEW e \in Stored, NEW ch \in Entry
  PROVE  Applied(e, ch) \in Stored
<1>1. ch.set \in Change \union {None}
  BY DEF Entry
<1>2. CASE ch.set = None
  BY <1>2 DEF Applied, Stored
<1>3. CASE ch.set # None
  <2>1. ASSUME NEW c \in Entity PROVE Merge(c, ch.set) \in Entity
    BY <1>1, <1>3, MergeType DEF Entity
  <2>2. IsInsert(ch.set) => ch.set \in Entity
    BY <1>1, <1>3 DEF IsInsert, Entity
  <2> QED BY <1>3, <2>1, <2>2, NoneAssumption DEF Applied, Over, Stored, Entity
<1> QED BY <1>2, <1>3

LEMMA NoEntriesType == NoEntry \in Entry /\ Deletes \in Entry /\ NoEntries \in [Ids -> Entry]
BY DEF NoEntry, Deletes, NoEntries, Entry

LEMMA MergedType ==
  ASSUME NEW l \in Entry, NEW u \in Entry
  PROVE  Merged(l, u) \in Entry
<1>1. /\ l.set \in Change \union {None} /\ u.set \in Change \union {None}
      /\ l.del \in BOOLEAN /\ u.del \in BOOLEAN
  BY DEF Entry
<1>2. Over(l.set, u.set) \in Change \union {None}
  BY <1>1, OverType
<1>3. (l.del \/ u.del) \in BOOLEAN
  OBVIOUS
<1> QED BY <1>1, <1>2, <1>3 DEF Merged, Entry

(* A change of nothing does nothing.                                       *)
LEMMA AppliedNothing ==
  ASSUME NEW e
  PROVE  Applied(e, NoEntry) = e
BY DEF Applied, NoEntry

-----------------------------------------------------------------------------
(* Types.                                                                  *)

(* What a clock ticks to is a timestamp.                                   *)
LEMMA TickedType ==
  ASSUME time \in Nat, NEW c \in Timestamps
  PROVE  Ticked(c) \in Timestamps
BY DEF Ticked, Timestamps

(* Changes with a timestamp leave a replica.                               *)
LEMMA ApplyType ==
  ASSUME NEW r \in Replicas, NEW chs \in News, NEW ts \in Timestamps
  PROVE  ApplyWithTimestamp(r, chs, ts) \in Replicas
<1> DEFINE d == [i \in Ids |-> IF i \in Fresh(r, chs, ts) THEN Applied(r.data[i], chs[i])
                               ELSE r.data[i]]
           m == [i \in Ids |-> IF i \in Fresh(r, chs, ts) THEN ts ELSE r.meta[i]]
           h == IF Less(r.highest, ts) THEN ts ELSE r.highest
<1>1. r.data \in Data /\ r.meta \in [Ids -> Timestamps] /\ r.highest \in Timestamps
  BY DEF Replicas
<1>2. d \in Data
  <2>1. ASSUME NEW i \in Ids PROVE Applied(r.data[i], chs[i]) \in Entity \union {None}
    <3>1. r.data[i] \in Stored /\ chs[i] \in Entry
      BY <1>1 DEF Data, News, Stored
    <3> QED BY <3>1, AppliedType DEF Stored
  <2> QED BY <1>1, <2>1 DEF Data
<1>3. m \in [Ids -> Timestamps] /\ h \in Timestamps
  BY <1>1
<1> QED BY <1>2, <1>3 DEF ApplyWithTimestamp, Replicas

(* What is written, and one entry among none, is news.                     *)
LEMMA EntryType ==
  /\ \A e \in Entries : e \in Entry
  /\ \A i \in Ids, e \in Entry : One(i, e) \in News
  /\ \A e \in Entity \union {None} : Sets(e) \in Entry
  /\ NoEntries \in News
<1>1. \A e \in Change \union {None} : Sets(e) \in Entry
  BY DEF Sets, Entry
<1>2. Entity \subseteq Change /\ Patch \subseteq Change
  BY DEF Entity, Patch
<1> QED BY <1>1, <1>2, NoEntriesType DEF Entries, One, News

(* What the server has for a client are entries.                           *)
LEMMA NewsType ==
  /\ \A old, new \in Data : Differs(old, new) \in News
  /\ \A l, u \in News : MergedAll(l, u) \in News
  /\ TypeOK => \A c \in Clients : SinceCheckpoint(c) \in News
<1>1. ASSUME NEW old \in Data, NEW new \in Data PROVE Differs(old, new) \in News
  <2>1. ASSUME NEW i \in Ids PROVE Sets(new[i]) \in Entry
    BY EntryType DEF Data
  <2> QED BY <2>1, NoEntriesType DEF Differs, News
<1>2. ASSUME NEW l \in News, NEW u \in News PROVE MergedAll(l, u) \in News
  <2>1. ASSUME NEW i \in Ids PROVE Merged(l[i], u[i]) \in Entry /\ l[i] \in Entry
    BY MergedType DEF News
  <2> QED BY <2>1 DEF MergedAll, News
<1>3. ASSUME TypeOK, NEW c \in Clients PROVE SinceCheckpoint(c) \in News
  <2>1. ASSUME NEW i \in Ids PROVE Sets(server.data[i]) \in Entry
    BY <1>3, EntryType DEF TypeOK, Replicas, Data
  <2> QED BY <2>1, NoEntriesType DEF SinceCheckpoint, News
<1> QED BY <1>1, <1>2, <1>3

(* What the server takes leaves it a replica.                              *)
LEMMA TakesType ==
  ASSUME TypeOK, NEW chs \in News, NEW ts \in Timestamps, Takes(chs, ts)
  PROVE  server' \in Replicas /\ accepted' \in Data
<1>1. server' \in Replicas
  BY ApplyType DEF Takes, TypeOK
<1>2. ASSUME NEW i \in Ids PROVE Applied(accepted[i], chs[i]) \in Entity \union {None}
  <2>1. accepted[i] \in Stored /\ chs[i] \in Entry
    BY DEF TypeOK, Data, News, Stored
  <2> QED BY <2>1, AppliedType DEF Stored
<1> QED BY <1>1, <1>2 DEF Takes, Data

(* The types hold initially ...                                            *)
LEMMA TypeInit == Init => TypeOK
<1>1. MIN \in Timestamps
  BY DEF MIN, Timestamps
<1>2. NewReplica \in Replicas /\ NewReplica.data \in Data
  BY <1>1 DEF NewReplica, Replicas, Data
<1> QED BY <1>1, <1>2, EntryType DEF Init, TypeOK

(* ... and no step breaks them.                                            *)
LEMMA TypeStep == TypeOK /\ [Next]_vars => TypeOK'
<1> SUFFICES ASSUME TypeOK, [Next]_vars PROVE TypeOK'
  OBVIOUS
<1> USE DEF TypeOK
<1>0. MIN \in Timestamps
  BY DEF MIN, Timestamps
<1>a. /\ [used EXCEPT !.writes = @ + 1] \in [writes : Nat, restarts : Nat, drops : Nat]
      /\ [used EXCEPT !.restarts = @ + 1] \in [writes : Nat, restarts : Nat, drops : Nat]
      /\ [used EXCEPT !.drops = @ + 1] \in [writes : Nat, restarts : Nat, drops : Nat]
  OBVIOUS
<1>1. CASE Tick
  BY <1>1 DEF Tick
<1>2. CASE Restart
  <2>1. time' \in Nat
    BY <1>2, ReplicaAssumption DEF Restart
  <2>2. used' \in [writes : Nat, restarts : Nat, drops : Nat]
    BY <1>2, <1>a DEF Restart
  <2> QED BY <1>0, <1>2, <2>1, <2>2, EntryType DEF Restart, Lost
<1>3. ASSUME NEW i \in Ids, NEW entry \in Entries, Transact(i, entry) PROVE TypeOK'
  <2>1. One(i, entry) \in News
    BY EntryType
  <2>2. storeClock' \in Timestamps
    BY <1>3, TickedType DEF Transact
  <2>3. server' \in Replicas /\ accepted' \in Data
    BY <1>3, <2>1, <2>2, TakesType DEF Transact
  <2>4. used' \in [writes : Nat, restarts : Nat, drops : Nat]
    BY <1>3, <1>a DEF Transact
  <2> QED BY <1>3, <2>2, <2>3, <2>4 DEF Transact, Does
<1>4. ASSUME NEW c \in Clients, HandleChanges(c) PROVE TypeOK'
  <2>1. clock' \in Timestamps
    BY <1>4, TickedType DEF HandleChanges
  <2>2. server' \in Replicas /\ accepted' \in Data
    BY <1>4, <2>1, TakesType DEF HandleChanges
  <2>3. wire' \in [Clients -> Seq(Messages)]
    BY <1>4, <2>1 DEF HandleChanges, Messages
  <2> QED BY <1>4, <2>1, <2>2, <2>3 DEF HandleChanges, Does
<1>5. ASSUME NEW c \in Clients, BufferEntityData(c) PROVE TypeOK'
  <2>1. server.data \in Data /\ view[c] \in Data
    BY DEF Replicas
  <2> QED BY <1>5, <2>1, NewsType DEF BufferEntityData
<1>6. ASSUME NEW c \in Clients, FlushEntityData(c) PROVE TypeOK'
  <2>1. Now \in Timestamps
    BY DEF Now, Timestamps
  <2>2. wire' \in [Clients -> Seq(Messages)]
    BY <1>6, <2>1 DEF FlushEntityData, Messages
  <2> QED BY <1>6, <2>2, EntryType DEF FlushEntityData, Does
<1>7. ASSUME NEW c \in Clients, NEW i \in Ids, NEW entry \in Entries, Push(c, i, entry)
      PROVE TypeOK'
  <2>1. One(i, entry) \in News
    BY EntryType
  <2>2. used' \in [writes : Nat, restarts : Nat, drops : Nat]
    BY <1>7, <1>a DEF Push
  <2> QED BY <1>7, <2>1, <2>2 DEF Push
<1>8. ASSUME NEW c \in Clients, HandleAck(c) PROVE TypeOK'
  <2>1. Head(wire[c]) \in Messages /\ Tail(wire[c]) \in Seq(Messages)
    BY <1>8 DEF HandleAck, Arrived
  <2>2. Head(wire[c]).timestamp \in Timestamps
    BY <2>1 DEF Messages
  <2>3. client' \in [Clients -> Replicas]
    BY <1>8, <2>2, ApplyType DEF HandleAck
  <2> QED BY <1>8, <2>1, <2>3, EntryType DEF HandleAck
<1>9. ASSUME NEW c \in Clients, HandleEntityData(c) PROVE TypeOK'
  <2>1. Head(wire[c]) \in Messages /\ Tail(wire[c]) \in Seq(Messages)
    BY <1>9 DEF HandleEntityData, Arrived
  <2>2. Head(wire[c]).timestamp \in Timestamps /\ Head(wire[c]).changes \in News
    BY <1>9, <2>1 DEF HandleEntityData, Arrived, Messages
  <2>3. client' \in [Clients -> Replicas]
    BY <1>9, <2>2, ApplyType DEF HandleEntityData
  <2> QED BY <1>9, <2>1, <2>2, <2>3 DEF HandleEntityData
<1>10. ASSUME NEW c \in Clients, Drop(c) PROVE TypeOK'
  <2>1. used' \in [writes : Nat, restarts : Nat, drops : Nat]
    BY <1>10, <1>a DEF Drop
  <2> QED BY <1>10, <2>1, EntryType DEF Drop, Lost
<1>11. ASSUME NEW c \in Clients, Connect(c) PROVE TypeOK'
  <2>1. server.data \in Data
    BY DEF Replicas
  <2> QED BY <1>11, <2>1, NewsType DEF Connect
<1>12. CASE UNCHANGED vars
  BY <1>12 DEF vars
<1> QED BY <1>1, <1>2, <1>3, <1>4, <1>5, <1>6, <1>7, <1>8, <1>9, <1>10, <1>11, <1>12 DEF Next

(* Every variable keeps its type, whatever the clocks do.                  *)
THEOREM TypeCorrect == Spec => []TypeOK
<1>1. Init => TypeOK
  BY TypeInit
<1>2. TypeOK /\ [Next]_vars => TypeOK'
  BY TypeStep
<1> QED BY <1>1, <1>2, PTL DEF Spec

-----------------------------------------------------------------------------
(* What the server acknowledges, it has.                                   *)

(* The clocks are read apart, and time goes on.                            *)
Apart == ~Ties /\ ~StepsBack

(* The highest timestamp is of the past, or the last one of the clock that *)
(* was read in this millisecond.                                           *)
HighestIsPast ==
  /\ clock[1] <= time /\ storeClock[1] <= time /\ server.highest[1] <= time
  /\ server.highest[1] = time =>
       \/ doing = "push" /\ server.highest = clock
       \/ doing = "transact" /\ server.highest = storeClock

AInv == TypeOK /\ AckedApplied /\ HighestIsPast

(* A change with a new highest timestamp is applied whole.                 *)
LEMMA NewestTaken ==
  ASSUME AInv, NEW chs \in News, NEW ts \in Timestamps, Less(server.highest, ts),
         Takes(chs, ts)
  PROVE  AckedApplied' /\ server'.highest = ts
<1>1. server.data \in Data /\ accepted = server.data /\ accepted \in Data
  BY DEF AInv, TypeOK, Replicas, AckedApplied
<1>2. ASSUME NEW i \in Ids
      PROVE  (IF i \in Fresh(server, chs, ts) THEN Applied(server.data[i], chs[i])
              ELSE server.data[i]) = Applied(server.data[i], chs[i])
  <2>1. CASE chs[i] = NoEntry
    BY <2>1, AppliedNothing
  <2>2. CASE chs[i] # NoEntry
    BY <2>2 DEF Fresh
  <2> QED BY <2>1, <2>2
<1>3. server'.data = [i \in Ids |-> Applied(server.data[i], chs[i])]
  BY <1>2 DEF Takes, ApplyWithTimestamp
<1>4. accepted' = [i \in Ids |-> Applied(accepted[i], chs[i])]
  BY DEF Takes
<1> QED BY <1>1, <1>3, <1>4 DEF AckedApplied, Takes, ApplyWithTimestamp

(* The invariant of AckedApplied holds initially ...                       *)
LEMMA AInit == Init => AInv
<1>1. SUFFICES ASSUME Init PROVE AckedApplied /\ HighestIsPast
  BY TypeInit DEF AInv
<1> QED BY <1>1 DEF Init, AckedApplied, HighestIsPast, NewReplica, MIN

(* ... and no step breaks it.                                              *)
LEMMA AStep == Apart /\ AInv /\ [Next]_vars => AInv'
<1> SUFFICES ASSUME Apart, AInv, [Next]_vars PROVE AInv'
  OBVIOUS
<1>0. TypeOK /\ TypeOK'
  BY TypeStep DEF AInv
<1>a. SUFFICES AckedApplied' /\ HighestIsPast'
  BY <1>0 DEF AInv
<1>b. /\ clock[1] \in Nat /\ clock[2] \in Nat /\ storeClock[1] \in Nat /\ storeClock[2] \in Nat
      /\ server.highest[1] \in Nat /\ server.highest[2] \in Nat /\ time \in Nat
      /\ clock = <<clock[1], clock[2]>> /\ storeClock = <<storeClock[1], storeClock[2]>>
  <2>1. clock \in Timestamps /\ storeClock \in Timestamps /\ server.highest \in Timestamps
        /\ time \in Nat
    BY <1>0 DEF TypeOK, Replicas
  <2>2. ASSUME NEW s \in Timestamps PROVE s[1] \in Nat /\ s[2] \in Nat /\ s = <<s[1], s[2]>>
    BY DEF Timestamps
  <2> QED BY <2>1, <2>2
<1> USE DEF AInv
<1>1. CASE Tick
  BY <1>1, <1>b DEF Tick, AckedApplied, HighestIsPast
<1>2. CASE Restart
  <2>1. time' \in Nat /\ time' > time
    BY <1>2, <1>b, ReplicaAssumption DEF Restart, Apart
  <2> QED BY <1>2, <1>b, <2>1 DEF Restart, AckedApplied, HighestIsPast, MIN
<1>3. ASSUME NEW i \in Ids, NEW entry \in Entries, Transact(i, entry)
      PROVE  AckedApplied' /\ HighestIsPast'
  <2>1. One(i, entry) \in News /\ storeClock' \in Timestamps
    BY <1>0, <1>3, EntryType DEF TypeOK
  <2>2. storeClock' = Ticked(storeClock) /\ doing' = "transact" /\ doing \in {"none", "transact"}
        /\ time' = time /\ clock' = clock /\ Takes(One(i, entry), storeClock')
    BY <1>3 DEF Transact, Does, Apart
  <2>3. Less(server.highest, storeClock') /\ storeClock'[1] <= time
    BY <1>b, <2>2 DEF Ticked, Less, HighestIsPast
  <2>4. AckedApplied' /\ server'.highest = storeClock'
    BY <2>1, <2>2, <2>3, NewestTaken
  <2> QED BY <2>2, <2>3, <2>4 DEF HighestIsPast
<1>4. ASSUME NEW c \in Clients, HandleChanges(c)
      PROVE  AckedApplied' /\ HighestIsPast'
  <2>1. pushed[c] \in News /\ clock' \in Timestamps
    BY <1>0 DEF TypeOK
  <2>2. clock' = Ticked(clock) /\ doing' = "push" /\ doing \in {"none", "push"}
        /\ time' = time /\ storeClock' = storeClock /\ Takes(pushed[c], clock')
    BY <1>4 DEF HandleChanges, Does, Apart
  <2>3. Less(server.highest, clock') /\ clock'[1] <= time
    BY <1>b, <2>2 DEF Ticked, Less, HighestIsPast
  <2>4. AckedApplied' /\ server'.highest = clock'
    BY <2>1, <2>2, <2>3, NewestTaken
  <2> QED BY <2>2, <2>3, <2>4 DEF HighestIsPast
<1>5. ASSUME NEW c \in Clients, FlushEntityData(c)
      PROVE  AckedApplied' /\ HighestIsPast'
  BY <1>5 DEF FlushEntityData, Does, Apart, AckedApplied, HighestIsPast
<1>6. ASSUME UNCHANGED <<time, doing, clock, storeClock, server, accepted>>
      PROVE  AckedApplied' /\ HighestIsPast'
  BY <1>6 DEF AckedApplied, HighestIsPast
<1>7. CASE UNCHANGED vars
  BY <1>6, <1>7 DEF vars
<1>8. ASSUME NEW c \in Clients,
             \/ BufferEntityData(c) \/ HandleAck(c) \/ HandleEntityData(c)
             \/ Drop(c) \/ Connect(c)
             \/ \E i \in Ids, entry \in Entries : Push(c, i, entry)
      PROVE  AckedApplied' /\ HighestIsPast'
  BY <1>6, <1>8 DEF BufferEntityData, HandleAck, HandleEntityData, Drop, Connect, Push
<1> QED BY <1>1, <1>2, <1>3, <1>4, <1>5, <1>7, <1>8 DEF Next

(* While its clocks are read apart and time goes on, the server prunes no  *)
(* change that it acknowledges, through any restart.                       *)
THEOREM ApartAckedApplied ==
  ASSUME Apart
  PROVE  Spec => []AckedApplied
<1>1. AInv /\ [Next]_vars => AInv'
  BY AStep
<1>2. AInv => AckedApplied
  BY DEF AInv
<1> QED BY AInit, <1>1, <1>2, PTL DEF Spec
-----------------------------------------------------------------------------
(* The stamps that a client is sent grow.                                  *)

(* A stamp that was sent is of the past, or of what the server does in     *)
(* this millisecond.                                                       *)
Past(t) ==
  /\ t[1] <= time
  /\ t[1] = time => \/ doing = "push" /\ ~Less(clock, t)
                    \/ doing = "flush" /\ t = Now

StampsPast ==
  \A c \in Clients :
    Past(checkpoint[c]) /\ \A k \in DOMAIN wire[c] : Past(wire[c][k].timestamp)

SInv == TypeOK /\ clock[1] <= time /\ StampsPast /\ StampsGrow


(* What the wires carry is typed, and what is stamped is a pair of numbers. *)
LEMMA WireStamps ==
  ASSUME TypeOK
  PROVE  /\ \A t \in Timestamps : t[1] \in Nat /\ t[2] \in Nat /\ t = <<t[1], t[2]>>
         /\ time \in Nat /\ clock \in Timestamps /\ Now \in Timestamps
         /\ \A c \in Clients : /\ checkpoint[c] \in Timestamps
                               /\ client[c].highest \in Timestamps
                               /\ wire[c] \in Seq(Messages)
                               /\ \A k \in DOMAIN wire[c] : /\ wire[c][k] \in Messages
                                                            /\ wire[c][k].timestamp \in Timestamps
<1>1. \A m \in Messages : m.timestamp \in Timestamps
  BY DEF Messages
<1>2. \A t \in Timestamps : t[1] \in Nat /\ t[2] \in Nat /\ t = <<t[1], t[2]>>
  BY DEF Timestamps
<1>3. time \in Nat /\ clock \in Timestamps /\ Now \in Timestamps
  BY <1>2 DEF TypeOK, Now, Timestamps
<1>4. ASSUME NEW c \in Clients
      PROVE  /\ checkpoint[c] \in Timestamps /\ client[c].highest \in Timestamps
             /\ wire[c] \in Seq(Messages)
             /\ \A k \in DOMAIN wire[c] : wire[c][k] \in Messages
  BY DEF TypeOK, Replicas
<1> QED BY <1>1, <1>2, <1>3, <1>4

(* A stamp that is past stays so, whatever the server does next.           *)
LEMMA PastStays ==
  ASSUME Apart, TypeOK, clock[1] <= time, [Next]_vars
  PROVE  /\ clock'[1] <= time'
         /\ \A t \in Timestamps : Past(t) => Past(t)'
<1>0. /\ \A t \in Timestamps : t[1] \in Nat /\ t[2] \in Nat /\ t = <<t[1], t[2]>>
      /\ time \in Nat /\ clock \in Timestamps /\ Now \in Timestamps
  BY WireStamps
<1>1. CASE Tick
  BY <1>0, <1>1 DEF Tick, Past
<1>2. CASE Restart
  <2>1. time' \in Nat /\ time' > time /\ clock' = <<0, 0>>
    BY <1>0, <1>2, ReplicaAssumption DEF Restart, Apart, MIN
  <2> QED BY <1>0, <2>1 DEF Past
<1>3. ASSUME NEW i \in Ids, NEW entry \in Entries, Transact(i, entry)
      PROVE  clock'[1] <= time' /\ \A t \in Timestamps : Past(t) => Past(t)'
  <2>1. time' = time /\ clock' = clock /\ doing \in {"none", "transact"}
    BY <1>3 DEF Transact, Does, Apart
  <2> QED BY <1>0, <2>1 DEF Past
<1>4. ASSUME NEW c \in Clients, HandleChanges(c)
      PROVE  clock'[1] <= time' /\ \A t \in Timestamps : Past(t) => Past(t)'
  <2>1. /\ clock' = Ticked(clock) /\ time' = time /\ doing' = "push"
        /\ doing \in {"none", "push"}
    BY <1>4 DEF HandleChanges, Does, Apart
  <2> QED BY <1>0, <2>1 DEF Past, Ticked, Less
<1>5. ASSUME NEW c \in Clients, FlushEntityData(c)
      PROVE  clock'[1] <= time' /\ \A t \in Timestamps : Past(t) => Past(t)'
  <2>1. /\ clock' = clock /\ time' = time /\ doing' = "flush" /\ doing \in {"none", "flush"}
    BY <1>5 DEF FlushEntityData, Does, Apart
  <2> QED BY <1>0, <2>1 DEF Past, Now
<1>6. ASSUME UNCHANGED <<time, doing, clock>>
      PROVE  clock'[1] <= time' /\ \A t \in Timestamps : Past(t) => Past(t)'
  BY <1>6 DEF Past, Now
<1>7. CASE UNCHANGED vars
  BY <1>6, <1>7 DEF vars
<1>8. ASSUME NEW c \in Clients,
             \/ BufferEntityData(c) \/ HandleAck(c) \/ HandleEntityData(c)
             \/ Drop(c) \/ Connect(c)
             \/ \E i \in Ids, entry \in Entries : Push(c, i, entry)
      PROVE  clock'[1] <= time' /\ \A t \in Timestamps : Past(t) => Past(t)'
  BY <1>6, <1>8 DEF BufferEntityData, HandleAck, HandleEntityData, Drop, Connect, Push
<1> QED BY <1>1, <1>2, <1>3, <1>4, <1>5, <1>7, <1>8 DEF Next

(* Whatever is past is not above a stamp that is given now.                *)
LEMMA NewStamps ==
  ASSUME Apart, TypeOK, clock[1] <= time, NEW c \in Clients
  PROVE  /\ HandleChanges(c) => /\ clock' \in Timestamps /\ Past(clock)'
                                /\ \A t \in Timestamps : Past(t) => Less(t, clock')
         /\ FlushEntityData(c) => /\ Now \in Timestamps /\ Past(Now)'
                                  /\ \A t \in Timestamps : Past(t) => ~Less(Now, t)
<1>0. /\ \A t \in Timestamps : t[1] \in Nat /\ t[2] \in Nat /\ t = <<t[1], t[2]>>
      /\ time \in Nat /\ clock \in Timestamps /\ Now \in Timestamps
  BY WireStamps
<1>1. ASSUME HandleChanges(c)
      PROVE  /\ clock' \in Timestamps /\ Past(clock)'
             /\ \A t \in Timestamps : Past(t) => Less(t, clock')
  <2>1. /\ clock' = Ticked(clock) /\ time' = time /\ doing' = "push"
        /\ doing \in {"none", "push"}
    BY <1>1 DEF HandleChanges, Does, Apart
  <2>2. clock' \in Timestamps
    BY <1>0, <2>1, TickedType
  <2>3. clock'[1] <= time /\ ~Less(clock', clock')
    BY <1>0, <2>1, <2>2 DEF Ticked, Less
  <2>4. Past(clock)'
    BY <2>1, <2>3 DEF Past
  <2>5. \A t \in Timestamps : Past(t) => Less(t, clock')
    BY <1>0, <2>1, <2>2 DEF Past, Ticked, Less
  <2> QED BY <2>2, <2>4, <2>5
<1>2. ASSUME FlushEntityData(c)
      PROVE  Past(Now)' /\ \A t \in Timestamps : Past(t) => ~Less(Now, t)
  <2>1. /\ clock' = clock /\ time' = time /\ doing' = "flush" /\ doing \in {"none", "flush"}
    BY <1>2 DEF FlushEntityData, Does, Apart
  <2>2. Now' = Now /\ Now[1] = time
    BY <1>0, <2>1 DEF Now
  <2>3. Past(Now)'
    BY <1>0, <2>1, <2>2 DEF Past
  <2>4. \A t \in Timestamps : Past(t) => ~Less(Now, t)
    BY <1>0, <2>1, <2>2 DEF Past, Less
  <2> QED BY <2>3, <2>4
<1> QED BY <1>0, <1>1, <1>2

(* The messages of a client are those it had, less the first or none, or   *)
(* these and a new one with a stamp of now.                                *)
Same(c) == wire'[c] = wire[c] /\ checkpoint'[c] = checkpoint[c]

Shorter(c) ==
  \/ wire'[c] = <<>> /\ checkpoint'[c] = checkpoint[c]
  \/ /\ wire[c] # <<>> /\ wire'[c] = Tail(wire[c])
     /\ checkpoint'[c] \in {checkpoint[c], Head(wire[c]).timestamp}

Longer(c) ==
  /\ checkpoint'[c] = checkpoint[c]
  /\ \/ /\ HandleChanges(c)
        /\ wire'[c] = Append(wire[c], [type |-> "CHANGES_ACK", timestamp |-> clock'])
     \/ /\ FlushEntityData(c)
        /\ wire'[c] = Append(wire[c], [type |-> "ENTITY_DATA", changes |-> news[c],
                                       timestamp |-> Now])

(* Every step does one of these to the messages of each client.            *)
LEMMA WireSteps ==
  ASSUME TypeOK, [Next]_vars, NEW c \in Clients
  PROVE  Same(c) \/ Shorter(c) \/ Longer(c)
<1> DEFINE Goal == Same(c) \/ Shorter(c) \/ Longer(c)
<1>0. DOMAIN wire = Clients /\ DOMAIN checkpoint = Clients
  BY DEF TypeOK
<1>1. ASSUME UNCHANGED <<wire, checkpoint>> PROVE Goal
  BY <1>1 DEF Same
<1>2. CASE Restart
  <2>1. Shorter(c)
    BY <1>2 DEF Restart, Lost, Shorter
  <2> QED BY <2>1
<1>3. ASSUME NEW d \in Clients, Drop(d) PROVE Goal
  <2>1. Shorter(c) \/ Same(c)
    BY <1>3 DEF Drop, Lost, Shorter, Same
  <2> QED BY <2>1
<1>4. ASSUME NEW d \in Clients, HandleChanges(d) PROVE Goal
  <2>1. /\ wire' = [wire EXCEPT ![d] = Append(@, [type |-> "CHANGES_ACK",
                                                  timestamp |-> clock'])]
        /\ checkpoint' = checkpoint
    BY <1>4 DEF HandleChanges
  <2>2. CASE c = d
    <3>1. Longer(c)
      BY <1>0, <1>4, <2>1, <2>2 DEF Longer
    <3> QED BY <3>1
  <2>3. CASE c # d
    <3>1. Same(c)
      BY <1>0, <2>1, <2>3 DEF Same
    <3> QED BY <3>1
  <2> QED BY <2>2, <2>3
<1>5. ASSUME NEW d \in Clients, FlushEntityData(d) PROVE Goal
  <2>1. /\ wire' = [wire EXCEPT ![d] = Append(@, [type |-> "ENTITY_DATA",
                                          changes |-> news[d], timestamp |-> Now])]
        /\ checkpoint' = checkpoint
    BY <1>5 DEF FlushEntityData
  <2>2. CASE c = d
    <3>1. Longer(c)
      BY <1>0, <1>5, <2>1, <2>2 DEF Longer
    <3> QED BY <3>1
  <2>3. CASE c # d
    <3>1. Same(c)
      BY <1>0, <2>1, <2>3 DEF Same
    <3> QED BY <3>1
  <2> QED BY <2>2, <2>3
<1>6. ASSUME NEW d \in Clients, HandleAck(d) \/ HandleEntityData(d) PROVE Goal
  <2>1. /\ wire' = [wire EXCEPT ![d] = Tail(@)] /\ wire[d] # <<>>
        /\ \/ checkpoint' = checkpoint
           \/ checkpoint' = [checkpoint EXCEPT ![d] = Head(wire[d]).timestamp]
    BY <1>6 DEF HandleAck, HandleEntityData, Arrived
  <2>2. CASE c = d
    <3>1. Shorter(c)
      BY <1>0, <2>1, <2>2 DEF Shorter
    <3> QED BY <3>1
  <2>3. CASE c # d
    <3>1. Same(c)
      BY <1>0, <2>1, <2>3 DEF Same
    <3> QED BY <3>1
  <2> QED BY <2>2, <2>3
<1>7. CASE UNCHANGED vars
  BY <1>1, <1>7 DEF vars
<1>8. ASSUME NEW d \in Clients,
             \/ BufferEntityData(d) \/ Connect(d)
             \/ \E i \in Ids, entry \in Entries : Push(d, i, entry)
      PROVE  Goal
  BY <1>1, <1>8 DEF BufferEntityData, Connect, Push
<1>9. CASE Tick
  BY <1>1, <1>9 DEF Tick
<1>10. ASSUME NEW i \in Ids, NEW entry \in Entries, Transact(i, entry) PROVE Goal
  BY <1>1, <1>10 DEF Transact
<1> QED BY <1>2, <1>3, <1>4, <1>5, <1>6, <1>7, <1>8, <1>9, <1>10 DEF Next

(* The stamps of a client's checkpoint and of what is sent to it, in order. *)
Grows(w, t) ==
  /\ \A k \in DOMAIN w : ~Less(w[k].timestamp, t)
  /\ \A k, m \in DOMAIN w : k < m => ~Less(w[m].timestamp, w[k].timestamp)

(* A wire whose first message is taken still grows.                        *)
LEMMA GrowsTail ==
  ASSUME NEW w \in Seq(Messages), w # <<>>, NEW t, Grows(w, t)
  PROVE  Grows(Tail(w), t) /\ Grows(Tail(w), Head(w).timestamp)
<1>1. /\ \A k \in DOMAIN Tail(w) : /\ k \in Nat \ {0} /\ k + 1 \in DOMAIN w
                                   /\ Tail(w)[k] = w[k + 1]
      /\ 1 \in DOMAIN w /\ Head(w) = w[1]
  OBVIOUS
<1> QED BY <1>1 DEF Grows

(* So does one that gets a message with a stamp not below the others.      *)
LEMMA GrowsAppend ==
  ASSUME NEW w \in Seq(Messages), NEW m \in Messages, NEW t, Grows(w, t),
         ~Less(m.timestamp, t), \A k \in DOMAIN w : ~Less(m.timestamp, w[k].timestamp)
  PROVE  Grows(Append(w, m), t)
<1>1. /\ DOMAIN Append(w, m) = 1..(Len(w) + 1) /\ DOMAIN w = 1..Len(w) /\ Len(w) \in Nat
      /\ \A k \in DOMAIN w : Append(w, m)[k] = w[k]
      /\ Append(w, m)[Len(w) + 1] = m
  OBVIOUS
<1> QED BY <1>1 DEF Grows

(* The invariant of StampsGrow holds initially ...                         *)
LEMMA SInit == Init => SInv
<1> SUFFICES ASSUME Init PROVE SInv
  OBVIOUS
<1>1. \A c \in Clients : DOMAIN wire[c] = {}
  BY DEF Init
<1> QED BY <1>1, TypeInit DEF Init, SInv, StampsPast, StampsGrow, Past, MIN

(* ... and no step breaks it.                                              *)
LEMMA SStep == Apart /\ SInv /\ [Next]_vars => SInv'
<1> SUFFICES ASSUME Apart, SInv, [Next]_vars PROVE SInv'
  OBVIOUS
<1>0. TypeOK /\ TypeOK' /\ clock[1] <= time /\ \A c \in Clients : Grows(wire[c], checkpoint[c])
  BY TypeStep DEF SInv, StampsGrow, Grows
<1>1. clock'[1] <= time' /\ \A t \in Timestamps : Past(t) => Past(t)'
  BY <1>0, PastStays
<1>2. ASSUME NEW c \in Clients
      PROVE  /\ Past(checkpoint[c])' /\ \A k \in DOMAIN wire'[c] : Past(wire[c][k].timestamp)'
             /\ Grows(wire'[c], checkpoint'[c])
  <2> DEFINE w == wire[c]
             t == checkpoint[c]
             Kept == /\ Past(checkpoint[c])'
                     /\ \A k \in DOMAIN wire'[c] : Past(wire[c][k].timestamp)'
                     /\ Grows(wire'[c], checkpoint'[c])
  <2>0. /\ w \in Seq(Messages) /\ t \in Timestamps /\ Past(t) /\ Grows(w, t)
        /\ \A k \in DOMAIN w : w[k].timestamp \in Timestamps /\ Past(w[k].timestamp)
    BY <1>0, WireStamps DEF SInv, StampsPast
  <2>1. CASE wire'[c] = w /\ checkpoint'[c] = t
    <3>1. Past(checkpoint[c])' /\ \A k \in DOMAIN wire'[c] : Past(wire[c][k].timestamp)'
      BY <1>1, <2>0, <2>1 DEF Past
    <3> QED BY <2>0, <2>1, <3>1
  <2>2. CASE wire'[c] = <<>> /\ checkpoint'[c] = t
    <3>1. DOMAIN wire'[c] = {}
      BY <2>2
    <3> QED BY <1>1, <2>0, <2>2, <3>1 DEF Past, Grows
  <2>3. CASE w # <<>> /\ wire'[c] = Tail(w) /\ checkpoint'[c] \in {t, Head(w).timestamp}
    <3>1. /\ \A k \in DOMAIN Tail(w) : k + 1 \in DOMAIN w /\ Tail(w)[k] = w[k + 1]
          /\ 1 \in DOMAIN w /\ Head(w) = w[1]
      BY <2>0, <2>3
    <3>2. Past(checkpoint[c])' /\ \A k \in DOMAIN wire'[c] : Past(wire[c][k].timestamp)'
      BY <1>1, <2>0, <2>3, <3>1 DEF Past
    <3> QED BY <2>0, <2>3, <3>2, GrowsTail
  <2>4. ASSUME NEW m \in Messages, wire'[c] = Append(w, m), checkpoint'[c] = t,
               \A s \in Timestamps : Past(s) => ~Less(m.timestamp, s),
               m.timestamp[1] <= time',
               m.timestamp[1] = time' => \/ doing' = "push" /\ ~Less(clock', m.timestamp)
                                         \/ doing' = "flush" /\ m.timestamp = Now'
        PROVE  Kept
    <3>1. /\ DOMAIN Append(w, m) = DOMAIN w \union {Len(w) + 1}
          /\ \A k \in DOMAIN w : Append(w, m)[k] = w[k]
          /\ Append(w, m)[Len(w) + 1] = m
      BY <2>0
    <3>2. Past(checkpoint[c])' /\ \A k \in DOMAIN wire'[c] : Past(wire[c][k].timestamp)'
      BY <1>1, <2>0, <2>4, <3>1 DEF Past
    <3>3. Grows(Append(w, m), t)
      BY <2>0, <2>4, GrowsAppend
    <3> QED BY <2>4, <3>2, <3>3
  <2>5. CASE HandleChanges(c) /\ checkpoint'[c] = t
             /\ wire'[c] = Append(w, [type |-> "CHANGES_ACK", timestamp |-> clock'])
    <3> DEFINE m == [type |-> "CHANGES_ACK", timestamp |-> clock']
    <3>1. clock' \in Timestamps /\ Past(clock)' /\ \A s \in Timestamps : Past(s) => Less(s, clock')
      BY <1>0, <2>5, NewStamps
    <3>2. m \in Messages /\ m.timestamp = clock'
      BY <3>1 DEF Messages
    <3>3. \A s \in Timestamps : Past(s) => ~Less(clock', s)
      BY <3>1, WireStamps, <1>0 DEF Less
    <3> QED BY <2>4, <2>5, <3>1, <3>2, <3>3 DEF Past
  <2>6. CASE FlushEntityData(c) /\ checkpoint'[c] = t
             /\ wire'[c] = Append(w, [type |-> "ENTITY_DATA", changes |-> news[c],
                                      timestamp |-> Now])
    <3> DEFINE m == [type |-> "ENTITY_DATA", changes |-> news[c], timestamp |-> Now]
    <3>1. Now \in Timestamps /\ Past(Now)' /\ \A s \in Timestamps : Past(s) => ~Less(Now, s)
      BY <1>0, <2>6, NewStamps
    <3>2. m \in Messages /\ m.timestamp = Now
      BY <1>0, <3>1 DEF Messages, TypeOK
    <3>3. Now' = Now
      BY <2>6 DEF FlushEntityData, Now
    <3> QED BY <2>4, <2>6, <3>1, <3>2, <3>3 DEF Past
  <2> QED BY <1>0, <2>1, <2>2, <2>3, <2>5, <2>6, WireSteps DEF Same, Shorter, Longer
<1> QED BY <1>0, <1>1, <1>2 DEF SInv, StampsPast, StampsGrow, Grows

(* While the server's clocks are read apart and time goes on, the stamps   *)
(* that a client is sent do not go back, through restarts of the server.   *)
THEOREM ApartStampsGrow ==
  ASSUME Apart
  PROVE  Spec => []StampsGrow
<1>1. SInv /\ [Next]_vars => SInv'
  BY SStep
<1>2. SInv => StampsGrow
  BY DEF SInv
<1> QED BY SInit, <1>1, <1>2, PTL DEF Spec

-----------------------------------------------------------------------------
(* Clients come to have what the server has.                               *)

(* What an application inserts has every attribute, and so has what is     *)
(* made of it.                                                             *)
Fulls == {e \in Entity : DOMAIN e.fields = Attrs} \union {None}

Pushes == {NoEntry, Deletes} \union {Sets(e) : e \in Fulls \ {None}} \union {Sets(c) : c \in Patch}

(* An entry that makes x of whatever it is applied to.                     *)
Yields(entry, x) ==
  /\ x \in Fulls /\ entry.set = x
  /\ x = None => entry.del

About(m, i) == m.type = "ENTITY_DATA" /\ m.changes[i] # NoEntry
IsAck(m) == m.type = "CHANGES_ACK"
LastAbout(w, k, i) ==
  /\ k \in DOMAIN w /\ About(w[k], i)
  /\ \A n \in DOMAIN w : n > k => ~About(w[n], i)

(* What x becomes of the acknowledgement of p, if it is behind k.          *)
AckAfter(w, k) == \E n \in DOMAIN w : n > k /\ IsAck(w[n])
After(w, k, x, p) == IF AckAfter(w, k) THEN Applied(x, p) ELSE x

(* The messages of w make v of the client's d, whose pushed entry is p.    *)
Arrives(w, d, p, v, i) ==
  /\ (\A k \in DOMAIN w : ~About(w[k], i)) => After(w, 0, d, p) = v
  /\ \A k \in DOMAIN w : LastAbout(w, k, i) =>
       \E x \in Fulls : Yields(w[k].changes[i], x) /\ After(w, k, x, p) = v

(* The parts of the invariant.                                             *)
FullPart ==
  /\ \A i \in Ids : server.data[i] \in Fulls
  /\ \A c \in Clients, i \in Ids : view[c][i] \in Fulls /\ pushed[c][i] \in Pushes

UpPart ==
  /\ \A c \in Clients \ up : wire[c] = <<>> /\ news[c] = NoEntries
  /\ doing = "flush" => \A c \in up : view[c] = server.data

(* A client has one batch that it is to send or that is acknowledged.      *)
AckPart ==
  \A c \in Clients :
    /\ c \in unsent => pushed[c] # NoEntries
    /\ \A k \in DOMAIN wire[c] : IsAck(wire[c][k]) =>
         /\ pushed[c] # NoEntries /\ c \notin unsent
         /\ \A m \in DOMAIN wire[c] : IsAck(wire[c][m]) => m = k
         /\ \A i \in Ids : pushed[c][i] # NoEntry =>
              ~Less(server.meta[i], wire[c][k].timestamp)

(* What is on its way makes the view of the client's entity.               *)
NewsPart ==
  \A c \in up, i \in Ids :
    /\ news[c][i] # NoEntry => Yields(news[c][i], view[c][i])
    /\ news[c][i] = NoEntry /\ view[c][i] = server.data[i] =>
         Arrives(wire[c], client[c].data[i], pushed[c][i], view[c][i], i)

(* A client takes every message whole.                                     *)
OrderPart ==
  \A c \in Clients :
    /\ Past(client[c].highest) /\ ~Less(client[c].highest, checkpoint[c])
    /\ \A k \in DOMAIN wire[c] :
         /\ Less(client[c].highest, wire[c][k].timestamp)
         /\ \A m \in DOMAIN wire[c] : k < m => Less(wire[c][k].timestamp, wire[c][m].timestamp)

MetaPart ==
  /\ time > 0
  /\ \A i \in Ids : /\ server.meta[i][1] <= time
                    /\ server.meta[i][1] = time => doing \in {"push", "transact"}

(* An entity that has not changed since a flush needs nothing more.        *)
SincePart ==
  \A c \in Clients, i \in Ids :
    /\ Less(server.meta[i], checkpoint[c]) => client[c].data[i] = server.data[i]
    /\ \A k \in DOMAIN wire[c] :
         wire[c][k].type = "ENTITY_DATA" /\ Less(server.meta[i], wire[c][k].timestamp) =>
           /\ news[c][i] = NoEntry /\ view[c][i] = server.data[i]
           /\ \A m \in DOMAIN wire[c] : m > k => ~About(wire[c][m], i)

(* A client that has a flush of this millisecond has all.                  *)
FlushPart ==
  doing = "flush" =>
    \A c \in Clients :
      /\ client[c].highest[1] = time =>
           /\ checkpoint[c] = client[c].highest /\ client[c].data = server.data
           /\ wire[c] = <<>> /\ news[c] = NoEntries
      /\ \A k \in DOMAIN wire[c] : wire[c][k].timestamp[1] = time =>
           news[c] = NoEntries /\ k = Len(wire[c]) /\ ~IsAck(wire[c][k])

RParts ==
  /\ FullPart /\ UpPart /\ AckPart /\ NewsPart /\ OrderPart /\ MetaPart
  /\ SincePart /\ FlushPart

RInv == AInv /\ SInv /\ RParts

(* An entity with every attribute covers whatever it is assigned to.       *)
LEMMA MergeFull ==
  ASSUME NEW e \in Change, NEW x \in Fulls, x # None
  PROVE  Merge(e, x) = x
<1>1. x \in Change /\ x.whole /\ DOMAIN x.fields = Attrs
  BY DEF Fulls, Entity
<1>2. PICK D \in SUBSET Attrs : e.fields \in [D -> Values]
  BY DEF Change, Fields
<1>3. PICK E \in SUBSET Attrs : x.fields \in [E -> Values]
  BY <1>1 DEF Change, Fields
<1>4. DOMAIN e.fields = D /\ x.fields \in [Attrs -> Values] /\ D \union Attrs = Attrs
  BY <1>1, <1>2, <1>3
<1>5. [a \in Attrs |-> IF a \in Attrs THEN x.fields[a] ELSE e.fields[a]] = x.fields
  BY <1>4
<1>6. Merge(e, x) = [whole |-> TRUE, fields |-> x.fields]
  <2>1. (e.whole \/ x.whole) = TRUE
    BY <1>1 DEF Change
  <2>2. [a \in DOMAIN e.fields \union DOMAIN x.fields |->
           IF a \in DOMAIN x.fields THEN x.fields[a] ELSE e.fields[a]] = x.fields
    BY <1>1, <1>4, <1>5
  <2> QED BY <2>1, <2>2 DEF Merge
<1>7. x = [whole |-> TRUE, fields |-> x.fields]
  BY <1>1 DEF Change
<1> QED BY <1>6, <1>7

(* Entities with every attribute are stored as they are.                   *)
LEMMA FullsStored == \A x \in Fulls : x \in Stored /\ (x # None => x \in Change /\ IsInsert(x))
BY DEF Fulls, Stored, Entity, IsInsert

(* An entry that yields an entity does, over any other.                    *)
LEMMA YieldsApplied ==
  ASSUME NEW e \in Stored, NEW entry \in Entry, NEW x, Yields(entry, x)
  PROVE  Applied(e, entry) = x
<1>1. x \in Fulls /\ entry.set = x /\ (x = None => entry.del)
  BY DEF Yields
<1>2. CASE x = None
  BY <1>1, <1>2 DEF Applied
<1>3. CASE x # None
  <2>1. x \in Change /\ IsInsert(x)
    BY <1>1, <1>3, FullsStored
  <2>2. e # None => e \in Change
    BY DEF Stored, Entity
  <2>3. e # None => Merge(e, x) = x
    BY <1>1, <1>3, <2>2, MergeFull
  <2> QED BY <1>1, <1>3, <2>1, <2>3 DEF Applied, Over
<1> QED BY <1>2, <1>3

(* News of an entity that are merged into earlier ones yield it.           *)
LEMMA YieldsMerged ==
  ASSUME NEW l \in Entry, NEW y, l = NoEntry \/ Yields(l, y), NEW x \in Fulls
  PROVE  Yields(Merged(l, IF x = None THEN Deletes ELSE Sets(x)), x)
<1>1. l.set \in Fulls /\ l.set \in Change \union {None}
  BY DEF Yields, NoEntry, Fulls, Entry
<1>2. CASE x = None
  BY <1>2 DEF Merged, Deletes, Yields
<1>3. CASE x # None
  <2>1. l.set # None => Merge(l.set, x) = x
    BY <1>1, <1>3, MergeFull
  <2> QED BY <1>3, <2>1 DEF Merged, Sets, Over, Yields
<1> QED BY <1>2, <1>3

(* So they are not nothing.                                                *)
LEMMA YieldsSomething == \A x : ~Yields(NoEntry, x)
BY DEF Yields, NoEntry

(* What is made of an entity with every attribute has them all.            *)
LEMMA AppliedFull ==
  ASSUME NEW x \in Fulls, NEW p \in Pushes
  PROVE  Applied(x, p) \in Fulls /\ p \in Entry
<1>0. x \in Stored /\ (x # None => x \in Change /\ IsInsert(x))
  BY FullsStored
<1>1. CASE p = NoEntry
  BY <1>1, AppliedNothing, NoEntriesType
<1>2. CASE p = Deletes
  BY <1>2, NoEntriesType DEF Applied, Deletes, Fulls
<1>3. ASSUME NEW e \in Fulls \ {None}, p = Sets(e) PROVE Applied(x, p) \in Fulls /\ p \in Entry
  <2>1. e \in Stored /\ p \in Entry /\ Yields(p, e)
    BY <1>3, FullsStored, EntryType DEF Yields, Sets, Stored
  <2> QED BY <1>0, <2>1, YieldsApplied
<1>4. ASSUME NEW c \in Patch, p = Sets(c) PROVE Applied(x, p) \in Fulls /\ p \in Entry
  <2>1. c \in Change /\ ~c.whole /\ c # None /\ ~IsInsert(c)
    BY NoneAssumption DEF Patch, IsInsert
  <2>2. p \in Entry /\ p.set = c /\ ~p.del
    BY <1>4, <2>1 DEF Sets, Entry
  <2>3. CASE x = None
    BY <2>1, <2>2, <2>3 DEF Applied
  <2>4. CASE x # None
    <3>1. Applied(x, p) = Merge(x, c)
      BY <2>1, <2>2, <2>4 DEF Applied, Over
    <3>2. Merge(x, c) \in Change /\ Merge(x, c).whole
      BY <1>0, <2>1, <2>4, MergeType DEF IsInsert
    <3>3. DOMAIN x.fields = Attrs /\ DOMAIN c.fields \subseteq Attrs
      <4>1. \E D \in SUBSET Attrs : c.fields \in [D -> Values]
        BY <2>1 DEF Change, Fields
      <4> QED BY <2>4, <4>1 DEF Fulls
    <3>4. DOMAIN Merge(x, c).fields = Attrs
      BY <3>3 DEF Merge
    <3> QED BY <2>2, <3>1, <3>2, <3>4 DEF Fulls, Entity
  <2> QED BY <2>2, <2>3, <2>4
<1> QED BY <1>1, <1>2, <1>3, <1>4 DEF Pushes

(* What a client writes is pushed.                                         *)
LEMMA WritesPushed ==
  \A e, entry : entry \in Writes(e) => entry \in Pushes /\ entry # NoEntry
<1>1. \A d \in Entity : DOMAIN d.fields = Attrs => d \in Fulls \ {None}
  BY NoneAssumption DEF Fulls, Entity
<1>2. \A c \in Change : Sets(c) # NoEntry
  BY NoneAssumption DEF Sets, NoEntry
<1>3. Deletes # NoEntry
  BY DEF Deletes, NoEntry
<1> QED BY <1>1, <1>2, <1>3 DEF Writes, Pushes, Entity, Patch

-----------------------------------------------------------------------------
(* A wire that moves.                                                      *)

(* The places of a wire whose first message is taken ...                   *)
LEMMA TailPlaces ==
  ASSUME NEW w \in Seq(Messages), w # <<>>
  PROVE  /\ 1 \in DOMAIN w /\ Head(w) = w[1] /\ Tail(w) \in Seq(Messages)
         /\ \A k \in DOMAIN Tail(w) : k \in Nat \ {0} /\ k + 1 \in DOMAIN w /\ Tail(w)[k] = w[k + 1]
         /\ \A k \in DOMAIN w : k = 1 \/ (k > 1 /\ k - 1 \in DOMAIN Tail(w) /\ Tail(w)[k - 1] = w[k])
         /\ DOMAIN w \subseteq Nat \ {0}
OBVIOUS

(* ... and of one that gets a message.                                     *)
LEMMA AppendPlaces ==
  ASSUME NEW w \in Seq(Messages), NEW m
  PROVE  /\ DOMAIN Append(w, m) = DOMAIN w \union {Len(w) + 1}
         /\ \A k \in DOMAIN w : Append(w, m)[k] = w[k] /\ k < Len(w) + 1
         /\ Append(w, m)[Len(w) + 1] = m
         /\ Len(w) \in Nat /\ Len(Append(w, m)) = Len(w) + 1 /\ Len(w) + 1 > 0
         /\ DOMAIN w \subseteq Nat \ {0}
OBVIOUS

(* An acknowledgement is taken: there is no other.                         *)
LEMMA ArrivesAcked ==
  ASSUME NEW w \in Seq(Messages), w # <<>>, IsAck(Head(w)),
         \A n \in DOMAIN w : IsAck(w[n]) => n = 1,
         NEW d, NEW p, NEW q, NEW v, NEW i, Arrives(w, d, p, v, i)
  PROVE  Arrives(Tail(w), Applied(d, p), q, v, i)
<1> DEFINE u == Tail(w)
<1>0. /\ 1 \in DOMAIN w /\ Head(w) = w[1] /\ DOMAIN w \subseteq Nat \ {0}
      /\ \A k \in DOMAIN u : k \in Nat \ {0} /\ k + 1 \in DOMAIN w /\ u[k] = w[k + 1]
      /\ \A k \in DOMAIN w : k = 1 \/ (k > 1 /\ k - 1 \in DOMAIN u /\ u[k - 1] = w[k])
  BY TailPlaces
<1> HIDE DEF u
<1>1. ~About(w[1], i) /\ AckAfter(w, 0)
  BY <1>0 DEF About, IsAck, AckAfter
<1>2. \A n \in DOMAIN u : ~IsAck(u[n])
  BY <1>0
<1>3. \A k : ~AckAfter(u, k)
  BY <1>2 DEF AckAfter
<1>4. \A k \in DOMAIN w : k >= 1 => ~AckAfter(w, k)
  BY <1>0 DEF AckAfter
<1>5. ASSUME \A k \in DOMAIN u : ~About(u[k], i) PROVE After(u, 0, Applied(d, p), q) = v
  <2>1. \A k \in DOMAIN w : ~About(w[k], i)
    BY <1>0, <1>1, <1>5
  <2> QED BY <1>1, <1>3, <2>1 DEF Arrives, After
<1>6. ASSUME NEW k \in DOMAIN u, LastAbout(u, k, i)
      PROVE  \E x \in Fulls : Yields(u[k].changes[i], x) /\ After(u, k, x, q) = v
  <2>1. LastAbout(w, k + 1, i)
    BY <1>0, <1>6 DEF LastAbout
  <2>2. PICK x \in Fulls : Yields(w[k + 1].changes[i], x) /\ After(w, k + 1, x, p) = v
    BY <1>0, <2>1 DEF Arrives
  <2> QED BY <1>0, <1>3, <1>4, <2>2, SMTT(30) DEF After
<1> QED BY <1>5, <1>6 DEF Arrives, u

(* Entities are taken.                                                     *)
LEMMA ArrivesTaken ==
  ASSUME NEW w \in Seq(Messages), w # <<>>, Head(w).type = "ENTITY_DATA",
         NEW i \in Ids, NEW d \in Stored, NEW p, NEW v, Arrives(w, d, p, v, i)
  PROVE  Arrives(Tail(w), Applied(d, Head(w).changes[i]), p, v, i)
<1> DEFINE u == Tail(w)
           e == Head(w).changes[i]
<1>0. /\ 1 \in DOMAIN w /\ Head(w) = w[1] /\ DOMAIN w \subseteq Nat \ {0}
      /\ \A k \in DOMAIN u : k \in Nat \ {0} /\ k + 1 \in DOMAIN w /\ u[k] = w[k + 1]
      /\ \A k \in DOMAIN w : k = 1 \/ (k > 1 /\ k - 1 \in DOMAIN u /\ u[k - 1] = w[k])
  BY TailPlaces
<1>1. e \in Entry
  BY <1>0 DEF Messages, News
<1> HIDE DEF u
<1>2. \A k \in Nat : AckAfter(u, k) <=> AckAfter(w, k + 1)
  BY <1>0 DEF AckAfter
<1>3. AckAfter(w, 0) <=> AckAfter(w, 1)
  BY <1>0 DEF AckAfter, IsAck
<1>4. ASSUME \A k \in DOMAIN u : ~About(u[k], i) PROVE After(u, 0, Applied(d, e), p) = v
  <2>1. CASE About(w[1], i)
    <3>1. LastAbout(w, 1, i)
      BY <1>0, <1>4, <2>1 DEF LastAbout
    <3>2. PICK x \in Fulls : Yields(w[1].changes[i], x) /\ After(w, 1, x, p) = v
      BY <1>0, <3>1 DEF Arrives
    <3>3. Applied(d, e) = x
      BY <1>0, <1>1, <3>2, YieldsApplied
    <3> QED BY <1>2, <3>2, <3>3 DEF After
  <2>2. CASE ~About(w[1], i)
    <3>1. e = NoEntry
      BY <1>0, <2>2 DEF About
    <3>2. Applied(d, e) = d
      BY <3>1, AppliedNothing
    <3>3. \A k \in DOMAIN w : ~About(w[k], i)
      BY <1>0, <1>4, <2>2
    <3>4. After(w, 0, d, p) = v
      BY <3>3 DEF Arrives
    <3> QED BY <1>2, <1>3, <3>2, <3>4 DEF After
  <2> QED BY <2>1, <2>2
<1>5. ASSUME NEW k \in DOMAIN u, LastAbout(u, k, i)
      PROVE  \E x \in Fulls : Yields(u[k].changes[i], x) /\ After(u, k, x, p) = v
  <2>1. LastAbout(w, k + 1, i)
    BY <1>0, <1>5 DEF LastAbout
  <2>2. PICK x \in Fulls : Yields(w[k + 1].changes[i], x) /\ After(w, k + 1, x, p) = v
    BY <1>0, <2>1 DEF Arrives
  <2> QED BY <1>0, <1>2, <2>2 DEF After
<1> HIDE DEF e
<1> QED BY <1>4, <1>5 DEF Arrives, u, e

(* An acknowledgement is sent, the first of its batch.                     *)
LEMMA ArrivesAck ==
  ASSUME NEW w \in Seq(Messages), NEW m, IsAck(m), \A n \in DOMAIN w : ~IsAck(w[n]),
         NEW d, NEW p, NEW v, NEW i, Arrives(w, d, p, v, i)
  PROVE  Arrives(Append(w, m), d, p, Applied(v, p), i)
<1> DEFINE u == Append(w, m)
           z == Len(w) + 1
<1>0. /\ DOMAIN u = DOMAIN w \union {z} /\ u[z] = m /\ z > 0 /\ z \in Nat
      /\ \A k \in DOMAIN w : u[k] = w[k] /\ k < z
      /\ DOMAIN w \subseteq Nat \ {0}
  BY AppendPlaces
<1> HIDE DEF u, z
<1>1. ~About(m, i) /\ \A k : ~AckAfter(w, k)
  BY DEF About, IsAck, AckAfter
<1>2. AckAfter(u, 0) /\ \A k \in DOMAIN w : AckAfter(u, k)
  BY <1>0 DEF AckAfter
<1>3. ASSUME \A k \in DOMAIN u : ~About(u[k], i) PROVE After(u, 0, d, p) = Applied(v, p)
  BY <1>0, <1>1, <1>2, <1>3 DEF Arrives, After
<1>4. ASSUME NEW k \in DOMAIN u, LastAbout(u, k, i)
      PROVE  \E x \in Fulls : Yields(u[k].changes[i], x) /\ After(u, k, x, p) = Applied(v, p)
  <2>1. k \in DOMAIN w /\ LastAbout(w, k, i)
    BY <1>0, <1>1, <1>4 DEF LastAbout
  <2>2. PICK x \in Fulls : Yields(w[k].changes[i], x) /\ After(w, k, x, p) = v
    BY <2>1 DEF Arrives
  <2> QED BY <1>0, <1>1, <1>2, <2>1, <2>2 DEF After
<1> QED BY <1>3, <1>4 DEF Arrives, u

(* Entities are sent: those that are news yield the view.                  *)
LEMMA ArrivesSent ==
  ASSUME NEW w \in Seq(Messages), NEW m \in Messages, ~IsAck(m),
         NEW d, NEW p, NEW v, NEW i,
         About(m, i) => Yields(m.changes[i], v),
         ~About(m, i) => Arrives(w, d, p, v, i)
  PROVE  Arrives(Append(w, m), d, p, v, i)
<1> DEFINE u == Append(w, m)
           z == Len(w) + 1
<1>0. /\ DOMAIN u = DOMAIN w \union {z} /\ u[z] = m /\ z > 0 /\ z \in Nat
      /\ \A k \in DOMAIN w : u[k] = w[k] /\ k < z
      /\ DOMAIN w \subseteq Nat \ {0}
  BY AppendPlaces
<1> HIDE DEF u, z
<1>1. ~AckAfter(u, z) /\ \A k : AckAfter(u, k) <=> AckAfter(w, k)
  BY <1>0 DEF AckAfter
<1>2. ASSUME \A k \in DOMAIN u : ~About(u[k], i) PROVE After(u, 0, d, p) = v
  BY <1>0, <1>1, <1>2 DEF Arrives, After
<1>3. ASSUME NEW k \in DOMAIN u, LastAbout(u, k, i)
      PROVE  \E x \in Fulls : Yields(u[k].changes[i], x) /\ After(u, k, x, p) = v
  <2>1. CASE k = z
    <3>1. Yields(m.changes[i], v) /\ v \in Fulls
      BY <1>0, <1>3, <2>1 DEF LastAbout, Yields
    <3> QED BY <1>0, <1>1, <2>1, <3>1 DEF After
  <2>2. CASE k # z
    <3>1. k \in DOMAIN w /\ LastAbout(w, k, i) /\ ~About(m, i)
      BY <1>0, <1>3, <2>2 DEF LastAbout
    <3>2. PICK x \in Fulls : Yields(w[k].changes[i], x) /\ After(w, k, x, p) = v
      BY <3>1 DEF Arrives
    <3> QED BY <1>0, <1>1, <3>1, <3>2 DEF After
  <2> QED BY <2>1, <2>2
<1> QED BY <1>2, <1>3 DEF Arrives, u

(* What is pushed matters only to its acknowledgement.                     *)
LEMMA ArrivesUnacked ==
  ASSUME NEW w, \A n \in DOMAIN w : ~IsAck(w[n]), NEW d, NEW p, NEW q, NEW v, NEW i,
         Arrives(w, d, p, v, i)
  PROVE  Arrives(w, d, q, v, i)
<1>1. \A k : ~AckAfter(w, k)
  BY DEF AckAfter
<1> QED BY <1>1 DEF Arrives, After

(* With nothing on the wire the client has what the view has.              *)
LEMMA ArrivesEmpty ==
  ASSUME NEW d, NEW p, NEW v, NEW i
  PROVE  Arrives(<<>>, d, p, v, i) <=> d = v
BY DEF Arrives, After, AckAfter, LastAbout

-----------------------------------------------------------------------------
(* The invariant, action by action.                                        *)

(* The server's storage answers at once, and its clocks are read apart.    *)
Prompt == Apart /\ ~ServerYields

(* Timestamps are ordered.                                                 *)
LEMMA LessOrder ==
  ASSUME NEW s \in Timestamps, NEW t \in Timestamps
  PROVE  /\ ~Less(s, s)
         /\ Less(s, t) => ~Less(t, s)
         /\ \A u \in Timestamps : /\ Less(s, t) /\ ~Less(u, t) => Less(s, u)
                                  /\ ~Less(t, s) /\ Less(t, u) => Less(s, u)
BY DEF Less, Timestamps

(* What the variables hold, by name.                                       *)
LEMMA Holdings ==
  ASSUME TypeOK
  PROVE  /\ server.data \in [Ids -> Entity \union {None}] /\ server.meta \in [Ids -> Timestamps]
         /\ server.highest \in Timestamps
         /\ DOMAIN wire = Clients /\ DOMAIN client = Clients /\ DOMAIN checkpoint = Clients
         /\ DOMAIN view = Clients /\ DOMAIN news = Clients /\ DOMAIN pushed = Clients
         /\ \A c \in Clients :
              /\ client[c] \in Replicas /\ client[c].data \in [Ids -> Entity \union {None}]
              /\ view[c] \in [Ids -> Entity \union {None}]
              /\ news[c] \in [Ids -> Entry] /\ pushed[c] \in [Ids -> Entry]
BY DEF TypeOK, Replicas, Data, News

(* A change with a new highest stamp is taken whole by its replica.        *)
LEMMA TakenWhole ==
  ASSUME NEW r \in Replicas, NEW chs \in News, NEW ts \in Timestamps, Less(r.highest, ts)
  PROVE  /\ \A j \in Ids : ApplyWithTimestamp(r, chs, ts).data[j] = Applied(r.data[j], chs[j])
         /\ \A j \in Ids : ApplyWithTimestamp(r, chs, ts).meta[j]
                             = IF chs[j] = NoEntry THEN r.meta[j] ELSE ts
         /\ ApplyWithTimestamp(r, chs, ts).highest = ts
<1>1. Fresh(r, chs, ts) = {j \in Ids : chs[j] # NoEntry}
  BY DEF Fresh
<1>2. \A j \in Ids : chs[j] = NoEntry => Applied(r.data[j], chs[j]) = r.data[j]
  BY AppliedNothing
<1> QED BY <1>1, <1>2 DEF ApplyWithTimestamp

(* So does the server, and what is older than a stamp of the past is what  *)
(* the change leaves alone.                                                *)
LEMMA ServerTakes ==
  ASSUME AInv, NEW chs \in News, NEW ts \in Timestamps, Takes(chs, ts),
         Less(server.highest, ts), \A t \in Timestamps : Past(t) => Less(t, ts)
  PROVE  /\ \A j \in Ids : server'.data[j] = Applied(server.data[j], chs[j])
         /\ \A j \in Ids : chs[j] # NoEntry => server'.meta[j] = ts
         /\ \A j \in Ids : server'.meta[j] \in {server.meta[j], ts}
         /\ \A j \in Ids, t \in Timestamps : Past(t) /\ Less(server'.meta[j], t) =>
              /\ chs[j] = NoEntry
              /\ Less(server.meta[j], t) /\ server'.data[j] = server.data[j]
<1>1. server \in Replicas /\ server' = ApplyWithTimestamp(server, chs, ts)
  BY DEF AInv, TypeOK, Takes
<1>2. /\ \A j \in Ids : server'.data[j] = Applied(server.data[j], chs[j])
      /\ \A j \in Ids : server'.meta[j] = IF chs[j] = NoEntry THEN server.meta[j] ELSE ts
  BY <1>1, TakenWhole
<1>3. ASSUME NEW j \in Ids, NEW t \in Timestamps, Past(t), Less(server'.meta[j], t)
      PROVE  /\ chs[j] = NoEntry
             /\ Less(server.meta[j], t) /\ server'.data[j] = server.data[j]
  <2>1. ~Less(ts, t)
    BY <1>3, LessOrder
  <2>2. chs[j] = NoEntry
    BY <1>2, <1>3, <2>1
  <2> QED BY <1>2, <1>3, <2>2, AppliedNothing
<1> QED BY <1>2, <1>3

(* The invariant of Converged holds initially ...                          *)
LEMMA RInit == Init => RInv
<1> SUFFICES ASSUME Init PROVE RParts
  BY AInit, SInit DEF RInv
<1>0. /\ NoEntry \in Pushes /\ None \in Fulls
      /\ \A i \in Ids : NewReplica.data[i] = None /\ NoEntries[i] = NoEntry
      /\ \A i \in Ids : NewReplica.meta[i] = MIN
      /\ NewReplica.highest = MIN /\ ~Less(MIN, MIN) /\ MIN[1] = 0
      /\ DOMAIN <<>> = {}
  BY DEF Pushes, Fulls, NewReplica, NoEntries, MIN, Less
<1>1. FullPart /\ UpPart /\ AckPart /\ NewsPart
  BY <1>0 DEF Init, FullPart, UpPart, AckPart, NewsPart
<1>2. MetaPart /\ FlushPart
  BY <1>0 DEF Init, MetaPart, FlushPart
<1>3. Past(MIN)
  BY <1>0 DEF Init, Past
<1>4. OrderPart /\ SincePart
  BY <1>0, <1>3 DEF Init, OrderPart, SincePart
<1> QED BY <1>1, <1>2, <1>4 DEF RParts

(* Time passes.                                                            *)
LEMMA RTick ==
  ASSUME RInv, TypeOK, Tick, \A t \in Timestamps : Past(t) => Past(t)'
  PROVE  RParts'
<1>1. /\ UNCHANGED <<server, up, view, news, wire, client, checkpoint, pushed, unsent>>
      /\ time' = time + 1 /\ doing' = "none"
  BY DEF Tick
<1>2. FullPart' /\ UpPart' /\ AckPart' /\ NewsPart' /\ SincePart' /\ FlushPart'
  BY <1>1 DEF RInv, RParts, FullPart, UpPart, AckPart, NewsPart, SincePart, FlushPart
<1>3. OrderPart'
  BY <1>1, WireStamps DEF RInv, RParts, OrderPart, Past
<1>4. MetaPart'
  <2>1. time \in Nat /\ \A i \in Ids : server.meta[i][1] \in Nat
    BY Holdings, WireStamps
  <2> QED BY <1>1, <2>1 DEF RInv, RParts, MetaPart
<1> QED BY <1>2, <1>3, <1>4 DEF RParts

(* The server restarts: every connection is lost.                          *)
LEMMA RRestart ==
  ASSUME Prompt, RInv, TypeOK, Restart, \A t \in Timestamps : Past(t) => Past(t)'
  PROVE  RParts'
<1>1. /\ UNCHANGED <<server, view, client, checkpoint, pushed>>
      /\ time' \in Nat /\ time' > time /\ doing' = "none" /\ up' = up \ Clients
      /\ \A c \in Clients : wire'[c] = <<>> /\ news'[c] = NoEntries
      /\ unsent' = unsent \union {c \in Clients : pushed[c] # NoEntries}
      /\ DOMAIN <<>> = {}
  BY ReplicaAssumption DEF Restart, Lost, Prompt, Apart
<1>2. FullPart' /\ UpPart' /\ AckPart' /\ SincePart' /\ FlushPart'
  BY <1>1 DEF RInv, RParts, FullPart, UpPart, AckPart, SincePart, FlushPart
<1>3. NewsPart'
  BY <1>1 DEF NewsPart, TypeOK
<1>4. OrderPart'
  BY <1>1, WireStamps DEF RInv, RParts, OrderPart, Past
<1>5. MetaPart'
  <2>1. time \in Nat /\ \A i \in Ids : server.meta[i][1] \in Nat
    BY Holdings, WireStamps
  <2> QED BY <1>1, <2>1 DEF RInv, RParts, MetaPart
<1> QED BY <1>2, <1>3, <1>4, <1>5 DEF RParts

(* The stamps that the invariant speaks of are of the past.                *)
LEMMA PastStamps ==
  ASSUME RInv, TypeOK
  PROVE  \A c \in Clients :
           /\ checkpoint[c] \in Timestamps /\ Past(checkpoint[c])
           /\ client[c].highest \in Timestamps /\ Past(client[c].highest)
           /\ \A k \in DOMAIN wire[c] : /\ wire[c][k].timestamp \in Timestamps
                                        /\ Past(wire[c][k].timestamp)
BY WireStamps DEF RInv, RParts, SInv, StampsPast, OrderPart

(* A transaction of the server is newer than whatever is past.             *)
LEMMA TransactStamp ==
  ASSUME Prompt, RInv, TypeOK, NEW i \in Ids, NEW entry \in Entries, Transact(i, entry)
  PROVE  /\ storeClock' \in Timestamps /\ Less(server.highest, storeClock')
         /\ storeClock'[1] = time
         /\ \A t \in Timestamps : Past(t) => Less(t, storeClock')
<1>0. /\ \A t \in Timestamps : t[1] \in Nat /\ t[2] \in Nat /\ t = <<t[1], t[2]>>
      /\ time \in Nat /\ storeClock \in Timestamps /\ server.highest \in Timestamps
  BY WireStamps, Holdings DEF TypeOK
<1>1. storeClock' = Ticked(storeClock) /\ doing \in {"none", "transact"}
  BY DEF Transact, Does, Prompt, Apart
<1>2. storeClock[1] <= time
      /\ server.highest[1] <= time
      /\ (server.highest[1] = time => doing = "push" \/ server.highest = storeClock)
  BY DEF RInv, AInv, HighestIsPast
<1>3. storeClock' \in Timestamps
  BY <1>0, <1>1, TickedType
<1>4. storeClock'[1] = time /\ Less(server.highest, storeClock')
  BY <1>0, <1>1, <1>2 DEF Ticked, Less
<1>5. \A t \in Timestamps : Past(t) => Less(t, storeClock')
  BY <1>0, <1>1, <1>4 DEF Past, Less
<1> QED BY <1>3, <1>4, <1>5

(* The parts that a change of the server's entities disturbs alike,        *)
(* whoever made it.                                                        *)
LEMMA RTakes ==
  ASSUME Prompt, RInv, TypeOK, TypeOK', NEW chs \in News, NEW ts \in Timestamps,
         Takes(chs, ts), ts[1] = time, Less(server.highest, ts),
         \A t \in Timestamps : Past(t) => Less(t, ts),
         \A t \in Timestamps : Past(t) => Past(t)',
         \A j \in Ids : chs[j] \in Pushes,
         doing' \in {"push", "transact"},
         UNCHANGED <<time, up, view, news, client, checkpoint, pushed>>,
         \A c \in Clients \ up : wire'[c] = wire[c]
  PROVE  /\ FullPart' /\ UpPart' /\ MetaPart' /\ FlushPart'
         /\ \A j \in Ids : server'.data[j] = Applied(server.data[j], chs[j])
         /\ \A j \in Ids : chs[j] # NoEntry => server'.meta[j] = ts
         /\ \A j \in Ids : server'.meta[j] \in {server.meta[j], ts}
         /\ \A j \in Ids, t \in Timestamps : Past(t) /\ Less(server'.meta[j], t) =>
              /\ chs[j] = NoEntry
              /\ Less(server.meta[j], t) /\ server'.data[j] = server.data[j]
<1>1. /\ \A j \in Ids : server'.data[j] = Applied(server.data[j], chs[j])
      /\ \A j \in Ids : chs[j] # NoEntry => server'.meta[j] = ts
      /\ \A j \in Ids : server'.meta[j] \in {server.meta[j], ts}
      /\ \A j \in Ids, t \in Timestamps : Past(t) /\ Less(server'.meta[j], t) =>
           /\ chs[j] = NoEntry
           /\ Less(server.meta[j], t) /\ server'.data[j] = server.data[j]
  BY ServerTakes DEF RInv
<1>2. FullPart'
  BY <1>1, AppliedFull DEF RInv, RParts, FullPart
<1>3. UpPart' /\ FlushPart'
  BY DEF RInv, RParts, UpPart, FlushPart
<1>4. MetaPart'
  BY <1>1, Holdings, WireStamps DEF RInv, RParts, MetaPart
<1> QED BY <1>1, <1>2, <1>3, <1>4

(* A transaction of the server.                                            *)
LEMMA RTransact ==
  ASSUME Prompt, RInv, TypeOK, TypeOK', NEW i \in Ids, NEW entry \in Entries,
         Transact(i, entry), \A t \in Timestamps : Past(t) => Past(t)'
  PROVE  RParts'
<1> DEFINE chs == One(i, entry)
           ts == storeClock'
<1>1. /\ UNCHANGED <<time, up, view, news, wire, client, checkpoint, pushed, unsent>>
      /\ doing' = "transact" /\ Takes(chs, ts) /\ \A c \in up : view[c] = server.data
      /\ entry \in Writes(server.data[i])
  BY DEF Transact, Does, Prompt
<1>2. /\ ts \in Timestamps /\ Less(server.highest, ts) /\ ts[1] = time
      /\ \A t \in Timestamps : Past(t) => Less(t, ts)
  BY TransactStamp
<1>3. chs \in News
  BY EntryType
<1>4. \A j \in Ids : chs[j] \in Pushes
  BY <1>1, WritesPushed DEF One, NoEntries, Pushes
<1> HIDE DEF chs, ts
<1>5. /\ FullPart' /\ UpPart' /\ MetaPart' /\ FlushPart'
      /\ \A j \in Ids : server'.data[j] = Applied(server.data[j], chs[j])
      /\ \A j \in Ids : server'.meta[j] \in {server.meta[j], ts}
      /\ \A j \in Ids, t \in Timestamps : Past(t) /\ Less(server'.meta[j], t) =>
           /\ Less(server.meta[j], t) /\ server'.data[j] = server.data[j]
  BY <1>1, <1>2, <1>3, <1>4, RTakes
<1>6. \A c \in Clients : \A k \in DOMAIN wire[c] :
        Less(wire[c][k].timestamp, ts) /\ ~Less(ts, wire[c][k].timestamp)
  BY <1>2, PastStamps, LessOrder
<1>7. AckPart'
  BY <1>1, <1>5, <1>6 DEF RInv, RParts, AckPart
<1>8. NewsPart'
  <2>1. \A c \in up, j \in Ids : view[c][j] = server.data[j]
    BY <1>1
  <2> QED BY <1>1, <2>1 DEF RInv, RParts, NewsPart
<1>9. OrderPart'
  BY <1>1, PastStamps DEF RInv, RParts, OrderPart
<1>10. SincePart'
  <2>2. \A c \in Clients, j \in Ids : Less(server'.meta[j], checkpoint[c]) =>
          Less(server.meta[j], checkpoint[c]) /\ server'.data[j] = server.data[j]
    BY <1>5, PastStamps
  <2>3. \A c \in Clients, j \in Ids : \A k \in DOMAIN wire[c] :
          Less(server'.meta[j], wire[c][k].timestamp) =>
          Less(server.meta[j], wire[c][k].timestamp) /\ server'.data[j] = server.data[j]
    BY <1>5, PastStamps
  <2> QED BY <1>1, <2>2, <2>3 DEF RInv, RParts, SincePart
<1> QED BY <1>5, <1>7, <1>8, <1>9, <1>10 DEF RParts

(* The server takes a client's changes and acknowledges them.              *)
LEMMA RHandleChanges ==
  ASSUME Prompt, RInv, TypeOK, TypeOK', NEW c \in Clients, HandleChanges(c),
         \A t \in Timestamps : Past(t) => Past(t)'
  PROVE  RParts'
<1> DEFINE chs == pushed[c]
           ts == clock'
           m == [type |-> "CHANGES_ACK", timestamp |-> ts]
           w == wire[c]
           z == Len(w) + 1
<1>1. /\ UNCHANGED <<time, up, view, news, client, checkpoint, pushed>>
      /\ doing' = "push" /\ Takes(chs, ts) /\ \A d \in up : view[d] = server.data
      /\ c \in up /\ c \in unsent /\ unsent' = unsent \ {c}
      /\ wire' = [wire EXCEPT ![c] = Append(@, m)]
      /\ ts = Ticked(clock) /\ doing \in {"none", "push"}
  BY DEF HandleChanges, Does, Prompt, Apart
<1>2. /\ ts \in Timestamps /\ \A t \in Timestamps : Past(t) => Less(t, ts)
  BY NewStamps DEF RInv, SInv, Prompt
<1>3. Less(server.highest, ts) /\ ts[1] = time
  <2>1. /\ clock[1] <= time /\ server.highest[1] <= time
        /\ (server.highest[1] = time /\ doing \in {"none", "push"} => server.highest = clock)
    BY DEF RInv, AInv, HighestIsPast
  <2>2. /\ \A t \in Timestamps : t[1] \in Nat /\ t[2] \in Nat /\ t = <<t[1], t[2]>>
        /\ time \in Nat /\ clock \in Timestamps /\ server.highest \in Timestamps
    BY WireStamps, Holdings
  <2> QED BY <1>1, <2>1, <2>2 DEF Ticked, Less
<1>4. chs \in News /\ \A j \in Ids : chs[j] \in Pushes /\ chs[j] \in Entry
  BY Holdings DEF RInv, RParts, FullPart, TypeOK
<1>5. /\ w \in Seq(Messages) /\ wire'[c] = Append(w, m)
      /\ \A d \in Clients : d # c => wire'[d] = wire[d]
      /\ \A d \in Clients \ up : wire'[d] = wire[d]
  BY <1>1, WireStamps, Holdings
<1>6. /\ DOMAIN wire'[c] = DOMAIN w \union {z} /\ wire'[c][z] = m
      /\ \A k \in DOMAIN w : wire'[c][k] = w[k] /\ k < z
  BY <1>5, AppendPlaces
<1>7. IsAck(m) /\ m.timestamp = ts /\ m.type # "ENTITY_DATA" /\ \A j \in Ids : ~About(m, j)
  BY DEF IsAck, About
<1>8. \A n \in DOMAIN w : ~IsAck(w[n])
  BY <1>1 DEF RInv, RParts, AckPart
<1> HIDE DEF chs, ts, m, w, z
<1>9. /\ FullPart' /\ UpPart' /\ MetaPart' /\ FlushPart'
      /\ \A j \in Ids : server'.data[j] = Applied(server.data[j], chs[j])
      /\ \A j \in Ids : chs[j] # NoEntry => server'.meta[j] = ts
      /\ \A j \in Ids : server'.meta[j] \in {server.meta[j], ts}
      /\ \A j \in Ids, t \in Timestamps : Past(t) /\ Less(server'.meta[j], t) =>
           /\ Less(server.meta[j], t) /\ server'.data[j] = server.data[j]
  BY <1>1, <1>2, <1>3, <1>4, <1>5, RTakes
<1>10. /\ \A d \in Clients : \A k \in DOMAIN wire[d] :
            Less(wire[d][k].timestamp, ts) /\ ~Less(ts, wire[d][k].timestamp)
       /\ \A d \in Clients : Less(client[d].highest, ts)
       /\ ~Less(ts, ts)
  BY <1>2, PastStamps, LessOrder
<1>11. AckPart'
  <2> SUFFICES ASSUME NEW d \in Clients
               PROVE  /\ d \in unsent' => pushed[d] # NoEntries
                      /\ \A k \in DOMAIN wire'[d] : IsAck(wire'[d][k]) =>
                           /\ pushed[d] # NoEntries /\ d \notin unsent'
                           /\ \A n \in DOMAIN wire'[d] : IsAck(wire'[d][n]) => n = k
                           /\ \A j \in Ids : pushed[d][j] # NoEntry =>
                                ~Less(server'.meta[j], wire'[d][k].timestamp)
    BY <1>1 DEF AckPart
  <2>1. CASE d # c
    BY <1>1, <1>5, <1>9, <1>10, <2>1 DEF RInv, RParts, AckPart
  <2>2. CASE d = c
    <3>1. pushed[c] # NoEntries
      BY <1>1 DEF RInv, RParts, AckPart
    <3>2. \A k \in DOMAIN wire'[c] : IsAck(wire'[c][k]) => k = z
      BY <1>6, <1>8
    <3>3. \A j \in Ids : pushed[c][j] # NoEntry => ~Less(server'.meta[j], ts)
      BY <1>9, <1>10 DEF chs
    <3> QED BY <1>1, <1>6, <1>7, <2>2, <3>1, <3>2, <3>3
  <2> QED BY <2>1, <2>2
<1>12. NewsPart'
  <2> SUFFICES ASSUME NEW d \in up, NEW j \in Ids
               PROVE  /\ news[d][j] # NoEntry => Yields(news[d][j], view[d][j])
                      /\ news[d][j] = NoEntry /\ view[d][j] = server'.data[j] =>
                           Arrives(wire'[d], client[d].data[j], pushed[d][j], view[d][j], j)
    BY <1>1 DEF NewsPart
  <2>1. d \in Clients /\ view[d][j] = server.data[j]
    BY <1>1 DEF TypeOK
  <2>2. /\ news[d][j] # NoEntry => Yields(news[d][j], view[d][j])
        /\ news[d][j] = NoEntry =>
             Arrives(wire[d], client[d].data[j], pushed[d][j], view[d][j], j)
    BY <2>1 DEF RInv, RParts, NewsPart
  <2>3. CASE d # c
    BY <1>5, <2>1, <2>2, <2>3
  <2>4. ASSUME d = c, news[c][j] = NoEntry, view[c][j] = server'.data[j]
        PROVE  Arrives(wire'[c], client[c].data[j], pushed[c][j], view[c][j], j)
    <3>1. Arrives(w, client[c].data[j], pushed[c][j], view[c][j], j)
      BY <2>2, <2>4 DEF w
    <3>2. Arrives(Append(w, m), client[c].data[j], pushed[c][j],
                  Applied(view[c][j], pushed[c][j]), j)
      BY <1>5, <1>7, <1>8, <3>1, ArrivesAck
    <3>3. Applied(view[c][j], pushed[c][j]) = view[c][j]
      BY <1>9, <2>1, <2>4 DEF chs
    <3> QED BY <1>5, <3>2, <3>3
  <2> QED BY <2>2, <2>3, <2>4
<1>13. OrderPart'
  <2> SUFFICES ASSUME NEW d \in Clients
               PROVE  /\ Past(client[d].highest)' /\ ~Less(client[d].highest, checkpoint[d])
                      /\ \A k \in DOMAIN wire'[d] :
                           /\ Less(client[d].highest, wire'[d][k].timestamp)
                           /\ \A n \in DOMAIN wire'[d] : k < n =>
                                Less(wire'[d][k].timestamp, wire'[d][n].timestamp)
    BY <1>1 DEF OrderPart
  <2>1. Past(client[d].highest)' /\ ~Less(client[d].highest, checkpoint[d])
    BY <1>1, PastStamps DEF RInv, RParts, OrderPart
  <2>2. \A k \in DOMAIN wire[d] :
          /\ Less(client[d].highest, wire[d][k].timestamp)
          /\ \A n \in DOMAIN wire[d] : k < n => Less(wire[d][k].timestamp, wire[d][n].timestamp)
    BY DEF RInv, RParts, OrderPart
  <2>3. CASE d # c
    BY <1>5, <2>1, <2>2, <2>3
  <2>4. CASE d = c
    <3>1. \A k \in DOMAIN wire'[c] :
            /\ Less(client[c].highest, wire'[c][k].timestamp)
            /\ \A n \in DOMAIN w :
                 k < n => k \in DOMAIN w
      <4>1. z \in Nat /\ DOMAIN w \subseteq Nat
        BY <1>5, AppendPlaces DEF z
      <4> QED BY <1>6, <1>7, <1>10, <2>2, <2>4, <4>1 DEF w
    <3>2. \A k \in DOMAIN wire'[c] : k < z => k \in DOMAIN w
      <4>1. z \in Nat
        BY <1>5, AppendPlaces DEF z
      <4> QED BY <1>6, <4>1
    <3>3. \A k, n \in DOMAIN wire'[c] : k < n =>
            Less(wire'[c][k].timestamp, wire'[c][n].timestamp)
      BY <1>6, <1>7, <1>10, <2>2, <2>4, <3>1, <3>2 DEF w
    <3> QED BY <2>1, <2>4, <3>1, <3>3
  <2> QED BY <2>3, <2>4
<1>14. SincePart'
  <2> SUFFICES ASSUME NEW d \in Clients, NEW j \in Ids
               PROVE  /\ Less(server'.meta[j], checkpoint[d]) =>
                           client[d].data[j] = server'.data[j]
                      /\ \A k \in DOMAIN wire'[d] :
                           wire'[d][k].type = "ENTITY_DATA" /\
                           Less(server'.meta[j], wire'[d][k].timestamp) =>
                             /\ news[d][j] = NoEntry /\ view[d][j] = server'.data[j]
                             /\ \A n \in DOMAIN wire'[d] : n > k => ~About(wire'[d][n], j)
    BY <1>1 DEF SincePart
  <2>1. Less(server'.meta[j], checkpoint[d]) => client[d].data[j] = server'.data[j]
    BY <1>9, PastStamps DEF RInv, RParts, SincePart
  <2>2. \A k \in DOMAIN wire[d] :
           wire[d][k].type = "ENTITY_DATA" /\ Less(server'.meta[j], wire[d][k].timestamp) =>
             /\ news[d][j] = NoEntry /\ view[d][j] = server'.data[j]
             /\ \A n \in DOMAIN wire[d] : n > k => ~About(wire[d][n], j)
    BY <1>9, PastStamps DEF RInv, RParts, SincePart
  <2>3. CASE d # c
    BY <1>5, <2>1, <2>2, <2>3
  <2>4. CASE d = c
    BY <1>6, <1>7, <2>1, <2>2, <2>4 DEF w
  <2> QED BY <2>3, <2>4
<1> QED BY <1>9, <1>11, <1>12, <1>13, <1>14 DEF RParts

(* The views of a connection come up with the store.                       *)
LEMMA RBuffer ==
  ASSUME RInv, TypeOK, NEW c \in Clients, BufferEntityData(c)
  PROVE  RParts'
<1>1. /\ UNCHANGED <<time, doing, clock, server, up, wire, client, checkpoint, pushed, unsent>>
      /\ c \in up /\ view[c] # server.data
      /\ view' = [view EXCEPT ![c] = server.data]
      /\ news' = [news EXCEPT ![c] = MergedAll(@, Differs(view[c], server.data))]
  BY DEF BufferEntityData
<1>2. /\ \A d \in Clients : d # c => view'[d] = view[d] /\ news'[d] = news[d]
      /\ view'[c] = server.data
      /\ news'[c] = MergedAll(news[c], Differs(view[c], server.data))
  BY <1>1, Holdings
<1>3. doing # "flush"
  BY <1>1 DEF RInv, RParts, UpPart
<1>4. \A j \in Ids : server.data[j] \in Fulls /\ news[c][j] \in Entry
  BY Holdings DEF RInv, RParts, FullPart
<1>5. ASSUME NEW j \in Ids, view[c][j] = server.data[j] PROVE news'[c][j] = news[c][j]
  <2>1. Differs(view[c], server.data)[j] = NoEntry
    BY <1>5 DEF Differs
  <2> QED BY <1>2, <2>1 DEF MergedAll
<1>6. ASSUME NEW j \in Ids, view[c][j] # server.data[j]
      PROVE  Yields(news'[c][j], server.data[j]) /\ news'[c][j] # NoEntry
  <2> DEFINE x == server.data[j]
             e == IF x = None THEN Deletes ELSE Sets(x)
  <2>1. e # NoEntry
    BY DEF Deletes, Sets, NoEntry
  <2>2. news'[c][j] = Merged(news[c][j], e)
    BY <1>2, <1>6, <2>1 DEF MergedAll, Differs
  <2>3. news[c][j] = NoEntry \/ Yields(news[c][j], view[c][j])
    BY <1>1 DEF RInv, RParts, NewsPart
  <2>4. Yields(Merged(news[c][j], e), x)
    BY <1>4, <2>3, YieldsMerged
  <2> QED BY <2>2, <2>4, YieldsSomething
<1>7. FullPart'
  BY <1>1, <1>2, <1>4 DEF RInv, RParts, FullPart
<1>8. UpPart' /\ AckPart' /\ MetaPart' /\ FlushPart'
  BY <1>1, <1>2, <1>3 DEF RInv, RParts, UpPart, AckPart, MetaPart, FlushPart
<1>9. OrderPart'
  BY <1>1 DEF RInv, RParts, OrderPart, Past, Now
<1>10. NewsPart'
  <2> SUFFICES ASSUME NEW d \in up, NEW j \in Ids
               PROVE  /\ news'[d][j] # NoEntry => Yields(news'[d][j], view'[d][j])
                      /\ news'[d][j] = NoEntry /\ view'[d][j] = server.data[j] =>
                           Arrives(wire[d], client[d].data[j], pushed[d][j], view'[d][j], j)
    BY <1>1 DEF NewsPart
  <2>1. d \in Clients
    BY DEF TypeOK
  <2>2. /\ news[d][j] # NoEntry => Yields(news[d][j], view[d][j])
        /\ news[d][j] = NoEntry /\ view[d][j] = server.data[j] =>
             Arrives(wire[d], client[d].data[j], pushed[d][j], view[d][j], j)
    BY DEF RInv, RParts, NewsPart
  <2>3. CASE d # c
    BY <1>2, <2>1, <2>2, <2>3
  <2>4. CASE d = c /\ view[c][j] = server.data[j]
    BY <1>2, <1>5, <2>2, <2>4
  <2>5. CASE d = c /\ view[c][j] # server.data[j]
    BY <1>2, <1>6, <2>5
  <2> QED BY <2>3, <2>4, <2>5
<1>11. SincePart'
  BY <1>1, <1>2, <1>5 DEF RInv, RParts, SincePart
<1> QED BY <1>7, <1>8, <1>9, <1>10, <1>11 DEF RParts

(* Entities are sent, with the stamp of now.                               *)
LEMMA RFlush ==
  ASSUME Prompt, RInv, TypeOK, TypeOK', NEW c \in Clients, FlushEntityData(c),
         \A t \in Timestamps : Past(t) => Past(t)'
  PROVE  RParts'
<1> DEFINE m == [type |-> "ENTITY_DATA", changes |-> news[c], timestamp |-> Now]
           w == wire[c]
           z == Len(w) + 1
<1>1. /\ UNCHANGED <<time, clock, server, up, view, client, checkpoint, pushed, unsent>>
      /\ doing' = "flush" /\ doing \in {"none", "flush"} /\ \A d \in up : view[d] = server.data
      /\ c \in up /\ news[c] # NoEntries
      /\ wire' = [wire EXCEPT ![c] = Append(@, m)]
      /\ news' = [news EXCEPT ![c] = NoEntries]
  BY DEF FlushEntityData, Does, Prompt, Apart
<1>2. /\ Now \in Timestamps /\ \A t \in Timestamps : Past(t) => ~Less(Now, t)
  BY NewStamps DEF RInv, SInv, Prompt
<1>3. /\ \A t \in Timestamps : t[1] \in Nat /\ t[2] \in Nat
      /\ time \in Nat /\ Now[1] = time
  BY WireStamps DEF Now
<1>4. /\ w \in Seq(Messages) /\ wire'[c] = Append(w, m) /\ news'[c] = NoEntries
      /\ \A d \in Clients : d # c => wire'[d] = wire[d] /\ news'[d] = news[d]
  BY <1>1, WireStamps, Holdings
<1>5. /\ DOMAIN wire'[c] = DOMAIN w \union {z} /\ wire'[c][z] = m
      /\ \A k \in DOMAIN w : wire'[c][k] = w[k] /\ k < z
      /\ Len(wire'[c]) = z /\ z \in Nat /\ DOMAIN w \subseteq Nat
  BY <1>4, AppendPlaces
<1>6. /\ ~IsAck(m) /\ m.timestamp = Now /\ m.changes = news[c] /\ m.type = "ENTITY_DATA"
      /\ \A j \in Ids : About(m, j) <=> news[c][j] # NoEntry
  BY DEF IsAck, About
<1>7. m \in Messages
  BY <1>2, Holdings DEF Messages, News
<1>8. \A j \in Ids : NoEntries[j] = NoEntry
  BY DEF NoEntries
<1> HIDE DEF m, w, z
(* What was stamped in this millisecond has nothing waiting behind it.     *)
<1>9. /\ client[c].highest[1] < time
      /\ \A k \in DOMAIN w : w[k].timestamp[1] < time
  <2>1. /\ client[c].highest[1] <= time /\ (client[c].highest[1] = time => doing = "flush")
        /\ \A k \in DOMAIN w : /\ w[k].timestamp[1] <= time
                               /\ w[k].timestamp[1] = time => doing = "flush"
    BY <1>1, PastStamps DEF Past, w
  <2>2. /\ doing = "flush" => client[c].highest[1] # time
        /\ doing = "flush" => \A k \in DOMAIN w : w[k].timestamp[1] # time
    BY <1>1 DEF RInv, RParts, FlushPart, w
  <2>3. client[c].highest[1] \in Nat /\ \A k \in DOMAIN w : w[k].timestamp[1] \in Nat
    BY <1>3, WireStamps DEF w
  <2> QED BY <1>3, <2>1, <2>2, <2>3
<1>10. /\ Less(client[c].highest, Now)
       /\ \A k \in DOMAIN w : Less(w[k].timestamp, Now)
  BY <1>3, <1>9 DEF Less
<1>11. FullPart' /\ UpPart'
  BY <1>1, <1>4 DEF RInv, RParts, FullPart, UpPart
<1>12. AckPart'
  <2> SUFFICES ASSUME NEW d \in Clients
               PROVE  /\ d \in unsent => pushed[d] # NoEntries
                      /\ \A k \in DOMAIN wire'[d] : IsAck(wire'[d][k]) =>
                           /\ pushed[d] # NoEntries /\ d \notin unsent
                           /\ \A n \in DOMAIN wire'[d] : IsAck(wire'[d][n]) => n = k
                           /\ \A j \in Ids : pushed[d][j] # NoEntry =>
                                ~Less(server.meta[j], wire'[d][k].timestamp)
    BY <1>1 DEF AckPart
  <2>1. /\ d \in unsent => pushed[d] # NoEntries
        /\ \A k \in DOMAIN wire[d] : IsAck(wire[d][k]) =>
             /\ pushed[d] # NoEntries /\ d \notin unsent
             /\ \A n \in DOMAIN wire[d] : IsAck(wire[d][n]) => n = k
             /\ \A j \in Ids : pushed[d][j] # NoEntry =>
                  ~Less(server.meta[j], wire[d][k].timestamp)
    BY DEF RInv, RParts, AckPart
  <2>2. CASE d # c
    BY <1>4, <2>1, <2>2
  <2>3. CASE d = c
    BY <1>5, <1>6, <2>1, <2>3 DEF w
  <2> QED BY <2>2, <2>3
<1>13. NewsPart'
  <2> SUFFICES ASSUME NEW d \in up, NEW j \in Ids
               PROVE  /\ news'[d][j] # NoEntry => Yields(news'[d][j], view[d][j])
                      /\ news'[d][j] = NoEntry /\ view[d][j] = server.data[j] =>
                           Arrives(wire'[d], client[d].data[j], pushed[d][j], view[d][j], j)
    BY <1>1 DEF NewsPart
  <2>1. d \in Clients /\ view[d][j] = server.data[j]
    BY <1>1 DEF TypeOK
  <2>2. /\ news[d][j] # NoEntry => Yields(news[d][j], view[d][j])
        /\ news[d][j] = NoEntry =>
             Arrives(wire[d], client[d].data[j], pushed[d][j], view[d][j], j)
    BY <2>1 DEF RInv, RParts, NewsPart
  <2>3. CASE d # c
    BY <1>4, <2>1, <2>2, <2>3
  <2>4. CASE d = c
    <3>1. Arrives(Append(w, m), client[c].data[j], pushed[c][j], view[c][j], j)
      <4>1. /\ About(m, j) => Yields(m.changes[j], view[c][j])
            /\ ~About(m, j) => Arrives(w, client[c].data[j], pushed[c][j], view[c][j], j)
        BY <1>6, <2>2, <2>4 DEF w
      <4> QED BY <1>4, <1>6, <1>7, <4>1, ArrivesSent
    <3> QED BY <1>4, <1>8, <2>4, <3>1
  <2> QED BY <2>3, <2>4
<1>14. OrderPart'
  <2> SUFFICES ASSUME NEW d \in Clients
               PROVE  /\ Past(client[d].highest)' /\ ~Less(client[d].highest, checkpoint[d])
                      /\ \A k \in DOMAIN wire'[d] :
                           /\ Less(client[d].highest, wire'[d][k].timestamp)
                           /\ \A n \in DOMAIN wire'[d] : k < n =>
                                Less(wire'[d][k].timestamp, wire'[d][n].timestamp)
    BY <1>1 DEF OrderPart
  <2>1. Past(client[d].highest)' /\ ~Less(client[d].highest, checkpoint[d])
    BY <1>1, PastStamps DEF RInv, RParts, OrderPart
  <2>2. \A k \in DOMAIN wire[d] :
          /\ Less(client[d].highest, wire[d][k].timestamp)
          /\ \A n \in DOMAIN wire[d] : k < n => Less(wire[d][k].timestamp, wire[d][n].timestamp)
    BY DEF RInv, RParts, OrderPart
  <2>3. CASE d # c
    BY <1>4, <2>1, <2>2, <2>3
  <2>4. CASE d = c
    <3>1. \A k \in DOMAIN wire'[c] : k < z => k \in DOMAIN w
      BY <1>5
    <3> QED BY <1>5, <1>6, <1>10, <2>1, <2>2, <2>4, <3>1 DEF w
  <2> QED BY <2>3, <2>4
<1>15. MetaPart'
  BY <1>1 DEF RInv, RParts, MetaPart
<1>16. SincePart'
  <2> SUFFICES ASSUME NEW d \in Clients, NEW j \in Ids
               PROVE  /\ Less(server.meta[j], checkpoint[d]) => client[d].data[j] = server.data[j]
                      /\ \A k \in DOMAIN wire'[d] :
                           wire'[d][k].type = "ENTITY_DATA" /\
                           Less(server.meta[j], wire'[d][k].timestamp) =>
                             /\ news'[d][j] = NoEntry /\ view[d][j] = server.data[j]
                             /\ \A n \in DOMAIN wire'[d] : n > k => ~About(wire'[d][n], j)
    BY <1>1 DEF SincePart
  <2>1. /\ Less(server.meta[j], checkpoint[d]) => client[d].data[j] = server.data[j]
        /\ \A k \in DOMAIN wire[d] :
             wire[d][k].type = "ENTITY_DATA" /\ Less(server.meta[j], wire[d][k].timestamp) =>
               /\ news[d][j] = NoEntry /\ view[d][j] = server.data[j]
               /\ \A n \in DOMAIN wire[d] : n > k => ~About(wire[d][n], j)
    BY DEF RInv, RParts, SincePart
  <2>2. CASE d # c
    BY <1>4, <2>1, <2>2
  <2>3. ASSUME d = c, NEW k \in DOMAIN wire'[c], wire'[c][k].type = "ENTITY_DATA",
               Less(server.meta[j], wire'[c][k].timestamp)
        PROVE  /\ news'[c][j] = NoEntry /\ view[c][j] = server.data[j]
               /\ \A n \in DOMAIN wire'[c] : n > k => ~About(wire'[c][n], j)
    <3>1. news'[c][j] = NoEntry /\ view[c][j] = server.data[j]
      BY <1>1, <1>4, <1>8
    <3>2. CASE k = z
      BY <1>5, <3>1, <3>2
    <3>3. CASE k # z
      BY <1>5, <1>6, <2>1, <2>3, <3>1, <3>3 DEF w
    <3> QED BY <3>2, <3>3
  <2> QED BY <2>1, <2>2, <2>3
<1>17. FlushPart'
  <2> SUFFICES ASSUME NEW d \in Clients
               PROVE  /\ client[d].highest[1] = time =>
                           /\ checkpoint[d] = client[d].highest /\ client[d].data = server.data
                           /\ wire'[d] = <<>> /\ news'[d] = NoEntries
                      /\ \A k \in DOMAIN wire'[d] : wire'[d][k].timestamp[1] = time =>
                           news'[d] = NoEntries /\ k = Len(wire'[d]) /\ ~IsAck(wire'[d][k])
    BY <1>1 DEF FlushPart
  <2>1. CASE d # c
    <3>1. \/ doing = "flush"
          \/ /\ client[d].highest[1] # time
             /\ \A k \in DOMAIN wire[d] : wire[d][k].timestamp[1] # time
      BY <1>1, PastStamps DEF Past
    <3> QED BY <1>4, <2>1, <3>1 DEF RInv, RParts, FlushPart
  <2>2. CASE d = c
    <3>1. client[c].highest[1] # time /\ \A k \in DOMAIN w : w[k].timestamp[1] # time
      BY <1>3, <1>9, WireStamps DEF w
    <3> QED BY <1>4, <1>5, <1>6, <2>2, <3>1
  <2> QED BY <2>1, <2>2
<1> QED BY <1>11, <1>12, <1>13, <1>14, <1>15, <1>16, <1>17 DEF RParts

(* A client pushes: of an earlier batch nothing is on the way.             *)
LEMMA RPush ==
  ASSUME RInv, TypeOK, NEW c \in Clients, NEW i \in Ids, NEW entry \in Entries,
         Push(c, i, entry)
  PROVE  RParts'
<1>1. /\ UNCHANGED <<time, doing, clock, server, up, view, news, wire, client, checkpoint>>
      /\ pushed[c] = NoEntries /\ pushed' = [pushed EXCEPT ![c] = One(i, entry)]
      /\ unsent' = unsent \union {c} /\ entry \in Writes(client[c].data[i])
  BY DEF Push
<1>2. /\ pushed'[c] = One(i, entry)
      /\ \A d \in Clients : d # c => pushed'[d] = pushed[d]
  BY <1>1, Holdings
<1>3. entry \in Pushes /\ entry # NoEntry
  BY <1>1, WritesPushed
<1>4. /\ \A j \in Ids : One(i, entry)[j] \in Pushes
      /\ One(i, entry) # NoEntries
  <2>1. One(i, entry)[i] = entry /\ NoEntries[i] = NoEntry
    BY DEF One, NoEntries
  <2>2. \A j \in Ids : One(i, entry)[j] \in {entry, NoEntry}
    BY DEF One, NoEntries
  <2> QED BY <1>3, <2>1, <2>2 DEF Pushes
<1>5. \A n \in DOMAIN wire[c] : ~IsAck(wire[c][n])
  BY <1>1 DEF RInv, RParts, AckPart
<1>6. FullPart'
  BY <1>1, <1>2, <1>4 DEF RInv, RParts, FullPart
<1>7. UpPart' /\ MetaPart' /\ SincePart' /\ FlushPart'
  BY <1>1 DEF RInv, RParts, UpPart, MetaPart, SincePart, FlushPart
<1>8. AckPart'
  BY <1>1, <1>2, <1>4, <1>5 DEF RInv, RParts, AckPart
<1>9. OrderPart'
  BY <1>1 DEF RInv, RParts, OrderPart, Past, Now
<1>10. NewsPart'
  <2> SUFFICES ASSUME NEW d \in up, NEW j \in Ids, news[d][j] = NoEntry,
                      view[d][j] = server.data[j]
               PROVE  Arrives(wire[d], client[d].data[j], pushed'[d][j], view[d][j], j)
    BY <1>1 DEF RInv, RParts, NewsPart
  <2>1. d \in Clients /\ Arrives(wire[d], client[d].data[j], pushed[d][j], view[d][j], j)
    BY DEF RInv, RParts, NewsPart, TypeOK
  <2> QED BY <1>2, <1>5, <2>1, ArrivesUnacked
<1> QED BY <1>6, <1>7, <1>8, <1>9, <1>10 DEF RParts

(* A client loses its connection.                                          *)
LEMMA RDrop ==
  ASSUME RInv, TypeOK, NEW c \in Clients, Drop(c)
  PROVE  RParts'
<1>1. /\ UNCHANGED <<time, doing, clock, server, view, client, checkpoint, pushed>>
      /\ c \in up /\ up' = up \ {c}
      /\ wire'[c] = <<>> /\ news'[c] = NoEntries /\ DOMAIN <<>> = {}
      /\ \A d \in Clients : d # c => wire'[d] = wire[d] /\ news'[d] = news[d]
      /\ \A d \in Clients : d \in unsent' => d \in unsent \/ pushed[d] # NoEntries
      /\ \A d \in Clients : d # c => (d \in unsent' <=> d \in unsent)
  BY DEF Drop, Lost
<1>2. FullPart' /\ MetaPart'
  BY <1>1 DEF RInv, RParts, FullPart, MetaPart
<1>3. UpPart'
  BY <1>1 DEF RInv, RParts, UpPart
<1>4. AckPart'
  BY <1>1 DEF RInv, RParts, AckPart
<1>5. NewsPart'
  BY <1>1 DEF RInv, RParts, NewsPart, TypeOK
<1>6. OrderPart'
  BY <1>1 DEF RInv, RParts, OrderPart, Past, Now
<1>7. SincePart'
  BY <1>1 DEF RInv, RParts, SincePart
<1>8. FlushPart'
  BY <1>1 DEF RInv, RParts, FlushPart
<1> QED BY <1>2, <1>3, <1>4, <1>5, <1>6, <1>7, <1>8 DEF RParts

(* A client connects: its checkpoint keeps from it only what it has.       *)
LEMMA RConnect ==
  ASSUME RInv, TypeOK, NEW c \in Clients, Connect(c)
  PROVE  RParts'
<1> DEFINE since == SinceCheckpoint(c)
<1>1. /\ UNCHANGED <<time, doing, clock, server, wire, client, checkpoint, pushed, unsent>>
      /\ c \notin up /\ up' = up \union {c}
      /\ view' = [view EXCEPT ![c] = server.data] /\ news' = [news EXCEPT ![c] = since]
  BY DEF Connect
<1>2. /\ \A d \in Clients : d # c => view'[d] = view[d] /\ news'[d] = news[d]
      /\ view'[c] = server.data /\ news'[c] = since
      /\ wire[c] = <<>> /\ DOMAIN <<>> = {}
  BY <1>1, Holdings DEF RInv, RParts, UpPart
<1>3. ASSUME NEW j \in Ids
      PROVE  /\ since[j] # NoEntry => Yields(since[j], server.data[j])
             /\ since[j] = NoEntry => client[c].data[j] = server.data[j]
  <2>1. server.data[j] \in Fulls
    BY DEF RInv, RParts, FullPart
  <2>2. CASE server.data[j] = None
    BY <2>1, <2>2 DEF SinceCheckpoint, Yields, Deletes, NoEntry
  <2>3. CASE server.data[j] # None
    <3>1. Sets(server.data[j]) # NoEntry /\ Yields(Sets(server.data[j]), server.data[j])
      BY <2>1, <2>3 DEF Sets, NoEntry, Yields
    <3>2. since[j] # NoEntry => since[j] = Sets(server.data[j])
      BY <2>3 DEF SinceCheckpoint
    <3>3. since[j] = NoEntry => Less(server.meta[j], checkpoint[c])
      BY <2>3, <3>1 DEF SinceCheckpoint
    <3> QED BY <3>1, <3>2, <3>3 DEF RInv, RParts, SincePart
  <2> QED BY <2>2, <2>3
(* With a flush of this millisecond it has everything.                     *)
<1>4. ASSUME doing = "flush", client[c].highest[1] = time
      PROVE  since = NoEntries
  <2>1. checkpoint[c] = client[c].highest /\ client[c].data = server.data
    BY <1>4 DEF RInv, RParts, FlushPart
  <2>2. checkpoint[c] # MIN
    BY <1>4, <2>1, WireStamps DEF RInv, RParts, MetaPart, MIN
  <2>3. \A j \in Ids : Less(server.meta[j], checkpoint[c])
    <3>1. \A j \in Ids : server.meta[j][1] <= time /\ server.meta[j][1] # time
      BY <1>4 DEF RInv, RParts, MetaPart
    <3>2. time \in Nat /\ \A j \in Ids : server.meta[j][1] \in Nat
      BY WireStamps, Holdings
    <3>3. checkpoint[c][1] = time /\ \A j \in Ids : server.meta[j][1] < time
      BY <1>4, <2>1, <3>1, <3>2
    <3> QED BY <3>3 DEF Less
  <2> QED BY <2>1, <2>2, <2>3 DEF SinceCheckpoint, NoEntries
<1> HIDE DEF since
<1>5. FullPart'
  BY <1>1, <1>2 DEF RInv, RParts, FullPart
<1>6. UpPart'
  BY <1>1, <1>2 DEF RInv, RParts, UpPart, TypeOK
<1>7. AckPart' /\ MetaPart'
  BY <1>1 DEF RInv, RParts, AckPart, MetaPart
<1>8. NewsPart'
  <2> SUFFICES ASSUME NEW d \in up', NEW j \in Ids
               PROVE  /\ news'[d][j] # NoEntry => Yields(news'[d][j], view'[d][j])
                      /\ news'[d][j] = NoEntry /\ view'[d][j] = server.data[j] =>
                           Arrives(wire[d], client[d].data[j], pushed[d][j], view'[d][j], j)
    BY <1>1 DEF NewsPart
  <2>1. CASE d = c
    <3>1. since[j] = NoEntry =>
            Arrives(<<>>, client[c].data[j], pushed[c][j], server.data[j], j)
      BY <1>3, ArrivesEmpty
    <3> QED BY <1>2, <1>3, <2>1, <3>1
  <2>2. CASE d # c
    BY <1>1, <1>2, <2>2 DEF RInv, RParts, NewsPart, TypeOK
  <2> QED BY <2>1, <2>2
<1>9. OrderPart'
  BY <1>1 DEF RInv, RParts, OrderPart, Past, Now
<1>10. SincePart'
  BY <1>1, <1>2 DEF RInv, RParts, SincePart
<1>11. FlushPart'
  BY <1>1, <1>2, <1>4 DEF RInv, RParts, FlushPart
<1> QED BY <1>5, <1>6, <1>7, <1>8, <1>9, <1>10, <1>11 DEF RParts

(* A client takes its acknowledgement, and what it pushed with it.         *)
LEMMA RHandleAck ==
  ASSUME RInv, TypeOK, TypeOK', NEW c \in Clients, HandleAck(c)
  PROVE  RParts'
<1> DEFINE w == wire[c]
           u == Tail(w)
           ts == Head(w).timestamp
<1>1. /\ UNCHANGED <<time, doing, clock, server, up, view, news, checkpoint, unsent>>
      /\ w # <<>> /\ IsAck(Head(w))
      /\ client' = [client EXCEPT ![c] = ApplyWithTimestamp(@, pushed[c], ts)]
      /\ pushed' = [pushed EXCEPT ![c] = NoEntries] /\ wire' = [wire EXCEPT ![c] = u]
  BY DEF HandleAck, Arrived, IsAck
<1>2. /\ \A d \in Clients : d # c => /\ client'[d] = client[d] /\ wire'[d] = wire[d]
                                     /\ pushed'[d] = pushed[d]
      /\ client'[c] = ApplyWithTimestamp(client[c], pushed[c], ts)
      /\ pushed'[c] = NoEntries /\ wire'[c] = u /\ w \in Seq(Messages)
  BY <1>1, WireStamps, Holdings
<1>3. /\ 1 \in DOMAIN w /\ Head(w) = w[1] /\ u \in Seq(Messages)
      /\ \A k \in DOMAIN u : k \in Nat \ {0} /\ k + 1 \in DOMAIN w /\ u[k] = w[k + 1]
      /\ DOMAIN w \subseteq Nat \ {0}
  BY <1>1, <1>2, TailPlaces
<1>4. /\ ts \in Timestamps /\ Past(ts) /\ Less(client[c].highest, ts)
      /\ checkpoint[c] \in Timestamps /\ client[c].highest \in Timestamps
      /\ ~Less(client[c].highest, checkpoint[c])
      /\ \A k \in DOMAIN u : Less(ts, u[k].timestamp)
  BY <1>3, PastStamps DEF RInv, RParts, OrderPart
<1>6. ~Less(ts, checkpoint[c])
  BY <1>4, LessOrder
<1>7. /\ client'[c].highest = ts
      /\ \A j \in Ids : client'[c].data[j] = Applied(client[c].data[j], pushed[c][j])
  BY <1>2, <1>4, TakenWhole, Holdings DEF News
<1>8. /\ \A n \in DOMAIN w : IsAck(w[n]) => n = 1
      /\ pushed[c] # NoEntries /\ c \notin unsent
      /\ \A j \in Ids : pushed[c][j] # NoEntry => ~Less(server.meta[j], ts)
  BY <1>1, <1>3 DEF RInv, RParts, AckPart
<1>9. \A n \in DOMAIN u : ~IsAck(u[n])
  <2> SUFFICES ASSUME NEW n \in DOMAIN u PROVE ~IsAck(u[n])
    OBVIOUS
  <2>1. n + 1 # 1 /\ n + 1 \in DOMAIN w /\ u[n] = w[n + 1]
    BY <1>3
  <2> QED BY <1>8, <2>1
<1> HIDE DEF w, u, ts
<1>10. FullPart'
  BY <1>1, <1>2 DEF RInv, RParts, FullPart, NoEntries, Pushes
<1>11. UpPart'
  BY <1>1, <1>2 DEF RInv, RParts, UpPart, w
<1>12. AckPart'
  BY <1>1, <1>2, <1>8, <1>9 DEF RInv, RParts, AckPart
<1>13. NewsPart'
  <2> SUFFICES ASSUME NEW d \in up, NEW j \in Ids
               PROVE  /\ news[d][j] # NoEntry => Yields(news[d][j], view[d][j])
                      /\ news[d][j] = NoEntry /\ view[d][j] = server.data[j] =>
                           Arrives(wire'[d], client'[d].data[j], pushed'[d][j], view[d][j], j)
    BY <1>1 DEF NewsPart
  <2>1. /\ d \in Clients /\ (news[d][j] # NoEntry => Yields(news[d][j], view[d][j]))
        /\ news[d][j] = NoEntry /\ view[d][j] = server.data[j] =>
             Arrives(wire[d], client[d].data[j], pushed[d][j], view[d][j], j)
    BY DEF RInv, RParts, NewsPart, TypeOK
  <2>2. CASE d # c
    BY <1>2, <2>1, <2>2
  <2>3. ASSUME d = c, Arrives(w, client[c].data[j], pushed[c][j], view[c][j], j)
        PROVE  Arrives(u, client'[c].data[j], pushed'[c][j], view[c][j], j)
    <3>1. Arrives(Tail(w), Applied(client[c].data[j], pushed[c][j]), pushed'[c][j], view[c][j], j)
      BY <1>1, <1>2, <1>8, <2>3, ArrivesAcked DEF w
    <3> QED BY <1>7, <3>1 DEF u
  <2> QED BY <1>2, <2>1, <2>2, <2>3 DEF w
<1>14. OrderPart'
  <2> SUFFICES ASSUME NEW d \in Clients
               PROVE  /\ Past(client[d].highest)' /\ ~Less(client'[d].highest, checkpoint[d])
                      /\ \A k \in DOMAIN wire'[d] :
                           /\ Less(client'[d].highest, wire'[d][k].timestamp)
                           /\ \A n \in DOMAIN wire'[d] : k < n =>
                                Less(wire'[d][k].timestamp, wire'[d][n].timestamp)
    BY <1>1 DEF OrderPart
  <2>1. CASE d # c
    BY <1>1, <1>2, <2>1 DEF RInv, RParts, OrderPart, Past, Now
  <2>2. CASE d = c
    <3>1. Past(client[c].highest)'
      BY <1>1, <1>4, <1>7 DEF Past, Now
    <3>2. \A k, n \in DOMAIN u : k < n => Less(u[k].timestamp, u[n].timestamp)
      BY <1>3 DEF RInv, RParts, OrderPart, w
    <3> QED BY <1>2, <1>4, <1>6, <1>7, <2>2, <3>1, <3>2
  <2> QED BY <2>1, <2>2
<1>15. MetaPart'
  BY <1>1 DEF RInv, RParts, MetaPart
<1>16. SincePart'
  <2> SUFFICES ASSUME NEW d \in Clients, NEW j \in Ids
               PROVE  /\ Less(server.meta[j], checkpoint[d]) =>
                           client'[d].data[j] = server.data[j]
                      /\ \A k \in DOMAIN wire'[d] :
                           wire'[d][k].type = "ENTITY_DATA" /\
                           Less(server.meta[j], wire'[d][k].timestamp) =>
                             /\ news[d][j] = NoEntry /\ view[d][j] = server.data[j]
                             /\ \A n \in DOMAIN wire'[d] : n > k => ~About(wire'[d][n], j)
    BY <1>1 DEF SincePart
  <2>1. /\ Less(server.meta[j], checkpoint[d]) => client[d].data[j] = server.data[j]
        /\ \A k \in DOMAIN wire[d] :
             wire[d][k].type = "ENTITY_DATA" /\ Less(server.meta[j], wire[d][k].timestamp) =>
               /\ news[d][j] = NoEntry /\ view[d][j] = server.data[j]
               /\ \A n \in DOMAIN wire[d] : n > k => ~About(wire[d][n], j)
    BY DEF RInv, RParts, SincePart
  <2>2. CASE d # c
    BY <1>2, <2>1, <2>2
  <2>3. ASSUME d = c, Less(server.meta[j], checkpoint[c])
        PROVE  client'[c].data[j] = server.data[j]
    <3>1. server.meta[j] \in Timestamps
      BY Holdings
    <3>2. Less(server.meta[j], ts)
      BY <1>4, <1>6, <2>3, <3>1, LessOrder
    <3>3. pushed[c][j] = NoEntry
      BY <1>8, <3>2
    <3> QED BY <1>7, <2>1, <2>3, <3>3, AppliedNothing
  <2>4. ASSUME d = c, NEW k \in DOMAIN u, u[k].type = "ENTITY_DATA",
               Less(server.meta[j], u[k].timestamp)
        PROVE  /\ news[c][j] = NoEntry /\ view[c][j] = server.data[j]
               /\ \A n \in DOMAIN u : n > k => ~About(u[n], j)
    <3>1. /\ k + 1 \in DOMAIN w /\ w[k + 1] = u[k]
          /\ \A n \in DOMAIN u : n > k => n + 1 \in DOMAIN w /\ w[n + 1] = u[n] /\ n + 1 > k + 1
      BY <1>3
    <3>2. /\ news[c][j] = NoEntry /\ view[c][j] = server.data[j]
          /\ \A n \in DOMAIN w : n > k + 1 => ~About(w[n], j)
      BY <2>1, <2>4, <3>1 DEF w
    <3> QED BY <3>1, <3>2
  <2> QED BY <1>2, <2>2, <2>3, <2>4
<1>17. FlushPart'
  <2> SUFFICES ASSUME doing = "flush", NEW d \in Clients
               PROVE  /\ client'[d].highest[1] = time =>
                           /\ checkpoint[d] = client'[d].highest
                           /\ client'[d].data = server.data
                           /\ wire'[d] = <<>> /\ news[d] = NoEntries
                      /\ \A k \in DOMAIN wire'[d] : wire'[d][k].timestamp[1] = time =>
                           news[d] = NoEntries /\ k = Len(wire'[d]) /\ ~IsAck(wire'[d][k])
    BY <1>1 DEF FlushPart
  <2>1. CASE d # c
    BY <1>2, <2>1 DEF RInv, RParts, FlushPart
  <2>2. CASE d = c
    <3>1. \A k \in DOMAIN w : w[k].timestamp[1] = time =>
            news[c] = NoEntries /\ k = Len(w) /\ ~IsAck(w[k])
      BY DEF RInv, RParts, FlushPart, w
    <3>2. client'[c].highest[1] # time
      BY <1>1, <1>3, <1>7, <3>1 DEF ts
    <3>3. Len(w) = Len(u) + 1 /\ Len(u) \in Nat
      BY <1>1, <1>2 DEF u
    <3>4. \A k \in DOMAIN u : u[k].timestamp[1] = time =>
            news[c] = NoEntries /\ k = Len(u) /\ ~IsAck(u[k])
      BY <1>3, <3>1, <3>3
    <3> QED BY <1>2, <2>2, <3>2, <3>4
  <2> QED BY <2>1, <2>2
<1> QED BY <1>10, <1>11, <1>12, <1>13, <1>14, <1>15, <1>16, <1>17 DEF RParts

(* A client takes entities, and their stamp is its checkpoint.             *)
LEMMA RHandleEntityData ==
  ASSUME RInv, TypeOK, TypeOK', NEW c \in Clients, HandleEntityData(c)
  PROVE  RParts'
<1> DEFINE w == wire[c]
           u == Tail(w)
           m == Head(w)
           ts == m.timestamp
<1>1. /\ UNCHANGED <<time, doing, clock, server, up, view, news, pushed, unsent>>
      /\ w # <<>> /\ m.type = "ENTITY_DATA"
      /\ client' = [client EXCEPT ![c] = ApplyWithTimestamp(@, m.changes, ts)]
      /\ checkpoint' = [checkpoint EXCEPT ![c] = ts] /\ wire' = [wire EXCEPT ![c] = u]
  BY DEF HandleEntityData, Arrived
<1>2. /\ \A d \in Clients : d # c => /\ client'[d] = client[d] /\ wire'[d] = wire[d]
                                     /\ checkpoint'[d] = checkpoint[d]
      /\ client'[c] = ApplyWithTimestamp(client[c], m.changes, ts)
      /\ checkpoint'[c] = ts /\ wire'[c] = u /\ w \in Seq(Messages)
  BY <1>1, WireStamps, Holdings
<1>3. /\ 1 \in DOMAIN w /\ m = w[1] /\ u \in Seq(Messages)
      /\ \A k \in DOMAIN u : k \in Nat \ {0} /\ k + 1 \in DOMAIN w /\ u[k] = w[k + 1]
      /\ DOMAIN w \subseteq Nat \ {0}
  BY <1>1, <1>2, TailPlaces
<1>4. /\ ts \in Timestamps /\ Past(ts) /\ Less(client[c].highest, ts)
      /\ \A k \in DOMAIN u : u[k].timestamp \in Timestamps /\ Less(ts, u[k].timestamp)
  BY <1>3, PastStamps DEF RInv, RParts, OrderPart
<1>5. m.changes \in News
  BY <1>1, <1>2, <1>3 DEF Messages
<1>6. /\ client'[c].highest = ts
      /\ \A j \in Ids : client'[c].data[j] = Applied(client[c].data[j], m.changes[j])
  BY <1>2, <1>4, <1>5, TakenWhole, Holdings
<1>7. c \in up
  BY <1>1 DEF RInv, RParts, UpPart
<1> HIDE DEF w, u, m, ts
<1>8. FullPart' /\ UpPart' /\ MetaPart'
  BY <1>1, <1>2, <1>7 DEF RInv, RParts, FullPart, UpPart, MetaPart
<1>9. AckPart'
  <2> SUFFICES ASSUME NEW d \in Clients
               PROVE  /\ d \in unsent => pushed[d] # NoEntries
                      /\ \A k \in DOMAIN wire'[d] : IsAck(wire'[d][k]) =>
                           /\ pushed[d] # NoEntries /\ d \notin unsent
                           /\ \A n \in DOMAIN wire'[d] : IsAck(wire'[d][n]) => n = k
                           /\ \A j \in Ids : pushed[d][j] # NoEntry =>
                                ~Less(server.meta[j], wire'[d][k].timestamp)
    BY <1>1 DEF AckPart
  <2>1. /\ d \in unsent => pushed[d] # NoEntries
        /\ \A k \in DOMAIN wire[d] : IsAck(wire[d][k]) =>
             /\ pushed[d] # NoEntries /\ d \notin unsent
             /\ \A n \in DOMAIN wire[d] : IsAck(wire[d][n]) => n = k
             /\ \A j \in Ids : pushed[d][j] # NoEntry =>
                  ~Less(server.meta[j], wire[d][k].timestamp)
    BY DEF RInv, RParts, AckPart
  <2>2. CASE d # c
    BY <1>2, <2>1, <2>2
  <2>3. CASE d = c
    <3>1. \A k, n \in DOMAIN u : IsAck(u[k]) /\ IsAck(u[n]) => n = k
      BY <1>3, <2>1, <2>3, SMTT(30) DEF w
    <3> QED BY <1>2, <1>3, <2>1, <2>3, <3>1 DEF w
  <2> QED BY <2>2, <2>3
<1>10. ASSUME NEW d \in up, NEW j \in Ids, news[d][j] = NoEntry, view[d][j] = server.data[j]
       PROVE  Arrives(wire'[d], client'[d].data[j], pushed[d][j], view[d][j], j)
  <2>1. d \in Clients /\ Arrives(wire[d], client[d].data[j], pushed[d][j], view[d][j], j)
    BY <1>10 DEF RInv, RParts, NewsPart, TypeOK
  <2>2. CASE d # c
    BY <1>2, <2>1, <2>2
  <2>3. CASE d = c
    <3>1. client[c].data[j] \in Stored
      BY Holdings DEF Stored
    <3>2. Arrives(Tail(w), Applied(client[c].data[j], Head(w).changes[j]), pushed[c][j],
                  view[c][j], j)
      BY <1>1, <1>2, <2>1, <2>3, <3>1, ArrivesTaken DEF w, m
    <3> QED BY <1>2, <1>6, <2>3, <3>2 DEF u, m
  <2> QED BY <2>2, <2>3
<1>11. NewsPart'
  BY <1>1, <1>10 DEF RInv, RParts, NewsPart
<1>12. OrderPart'
  <2> SUFFICES ASSUME NEW d \in Clients
               PROVE  /\ Past(client[d].highest)' /\ ~Less(client'[d].highest, checkpoint'[d])
                      /\ \A k \in DOMAIN wire'[d] :
                           /\ Less(client'[d].highest, wire'[d][k].timestamp)
                           /\ \A n \in DOMAIN wire'[d] : k < n =>
                                Less(wire'[d][k].timestamp, wire'[d][n].timestamp)
    BY <1>1 DEF OrderPart
  <2>1. CASE d # c
    BY <1>1, <1>2, <2>1 DEF RInv, RParts, OrderPart, Past, Now
  <2>2. CASE d = c
    <3>1. Past(client[c].highest)'
      BY <1>1, <1>4, <1>6 DEF Past, Now
    <3>2. \A k, n \in DOMAIN u : k < n => Less(u[k].timestamp, u[n].timestamp)
      BY <1>3 DEF RInv, RParts, OrderPart, w
    <3>3. ~Less(ts, ts)
      BY <1>4, LessOrder
    <3> QED BY <1>2, <1>4, <1>6, <2>2, <3>1, <3>2, <3>3
  <2> QED BY <2>1, <2>2
(* What has not changed since the stamp, no message behind it is about.    *)
<1>13. ASSUME NEW j \in Ids, Less(server.meta[j], ts)
       PROVE  client'[c].data[j] = server.data[j]
  <2>1. /\ news[c][j] = NoEntry /\ view[c][j] = server.data[j]
        /\ \A n \in DOMAIN w : n > 1 => ~About(w[n], j)
    BY <1>1, <1>3, <1>13 DEF RInv, RParts, SincePart, w, m, ts
  <2>2. Arrives(u, client'[c].data[j], pushed[c][j], view[c][j], j)
    BY <1>2, <1>7, <1>10, <2>1
  <2>3. \A n \in DOMAIN u : ~About(u[n], j)
    <3> SUFFICES ASSUME NEW n \in DOMAIN u PROVE ~About(u[n], j)
      OBVIOUS
    <3>1. n + 1 > 1 /\ n + 1 \in DOMAIN w /\ u[n] = w[n + 1]
      BY <1>3
    <3> QED BY <2>1, <3>1
  <2>4. After(u, 0, client'[c].data[j], pushed[c][j]) = view[c][j]
    BY <2>2, <2>3 DEF Arrives
  <2>5. AckAfter(u, 0) => pushed[c][j] = NoEntry
    <3> SUFFICES ASSUME NEW n \in DOMAIN u, IsAck(u[n]), pushed[c][j] # NoEntry
                 PROVE  FALSE
      BY DEF AckAfter
    <3>1. ~Less(server.meta[j], u[n].timestamp)
      BY <1>3 DEF RInv, RParts, AckPart, w
    <3>2. server.meta[j] \in Timestamps /\ ts \in Timestamps /\ u[n].timestamp \in Timestamps
          /\ Less(ts, u[n].timestamp)
      BY <1>4, Holdings
    <3> QED BY <1>13, <3>1, <3>2, LessOrder
  <2> QED BY <2>1, <2>4, <2>5, AppliedNothing DEF After
<1>14. SincePart'
  <2> SUFFICES ASSUME NEW d \in Clients, NEW j \in Ids
               PROVE  /\ Less(server.meta[j], checkpoint'[d]) =>
                           client'[d].data[j] = server.data[j]
                      /\ \A k \in DOMAIN wire'[d] :
                           wire'[d][k].type = "ENTITY_DATA" /\
                           Less(server.meta[j], wire'[d][k].timestamp) =>
                             /\ news[d][j] = NoEntry /\ view[d][j] = server.data[j]
                             /\ \A n \in DOMAIN wire'[d] : n > k => ~About(wire'[d][n], j)
    BY <1>1 DEF SincePart
  <2>1. /\ Less(server.meta[j], checkpoint[d]) => client[d].data[j] = server.data[j]
        /\ \A k \in DOMAIN wire[d] :
             wire[d][k].type = "ENTITY_DATA" /\ Less(server.meta[j], wire[d][k].timestamp) =>
               /\ news[d][j] = NoEntry /\ view[d][j] = server.data[j]
               /\ \A n \in DOMAIN wire[d] : n > k => ~About(wire[d][n], j)
    BY DEF RInv, RParts, SincePart
  <2>2. CASE d # c
    BY <1>2, <2>1, <2>2
  <2>3. CASE d = c
    <3>1. ASSUME NEW k \in DOMAIN u, u[k].type = "ENTITY_DATA",
                 Less(server.meta[j], u[k].timestamp)
          PROVE  /\ news[c][j] = NoEntry /\ view[c][j] = server.data[j]
                 /\ \A n \in DOMAIN u : n > k => ~About(u[n], j)
      <4>1. /\ k + 1 \in DOMAIN w /\ w[k + 1] = u[k]
            /\ \A n \in DOMAIN u : n > k => n + 1 \in DOMAIN w /\ w[n + 1] = u[n] /\ n + 1 > k + 1
        BY <1>3
      <4>2. /\ news[c][j] = NoEntry /\ view[c][j] = server.data[j]
            /\ \A n \in DOMAIN w : n > k + 1 => ~About(w[n], j)
        BY <2>1, <2>3, <3>1, <4>1 DEF w
      <4> QED BY <4>1, <4>2
    <3> QED BY <1>2, <1>13, <2>3, <3>1
  <2> QED BY <2>2, <2>3
<1>15. FlushPart'
  <2> SUFFICES ASSUME doing = "flush", NEW d \in Clients
               PROVE  /\ client'[d].highest[1] = time =>
                           /\ checkpoint'[d] = client'[d].highest
                           /\ client'[d].data = server.data
                           /\ wire'[d] = <<>> /\ news[d] = NoEntries
                      /\ \A k \in DOMAIN wire'[d] : wire'[d][k].timestamp[1] = time =>
                           news[d] = NoEntries /\ k = Len(wire'[d]) /\ ~IsAck(wire'[d][k])
    BY <1>1 DEF FlushPart
  <2>1. CASE d # c
    BY <1>2, <2>1 DEF RInv, RParts, FlushPart
  <2>2. CASE d = c
    <3>1. \A k \in DOMAIN w : w[k].timestamp[1] = time =>
            news[c] = NoEntries /\ k = Len(w) /\ ~IsAck(w[k])
      BY DEF RInv, RParts, FlushPart, w
    <3>2. Len(w) = Len(u) + 1 /\ Len(u) \in Nat
      BY <1>1, <1>2 DEF u
    <3>3. \A k \in DOMAIN u : u[k].timestamp[1] = time =>
            news[c] = NoEntries /\ k = Len(u) /\ ~IsAck(u[k])
      BY <1>3, <3>1, <3>2
    <3>4. ASSUME ts[1] = time
          PROVE  client'[c].data = server.data /\ u = <<>> /\ news[c] = NoEntries
      <4>1. news[c] = NoEntries /\ Len(w) = 1
        BY <1>3, <3>1, <3>4 DEF ts
      <4>2. u = <<>>
        BY <1>1, <1>2, <4>1 DEF u
      <4>3. view[c] = server.data
        BY <1>7 DEF RInv, RParts, UpPart
      <4>4. ASSUME NEW j \in Ids PROVE client'[c].data[j] = server.data[j]
        <5>1. news[c][j] = NoEntry
          BY <4>1 DEF NoEntries
        <5>2. Arrives(<<>>, client'[c].data[j], pushed[c][j], server.data[j], j)
          BY <1>2, <1>7, <1>10, <4>2, <4>3, <5>1
        <5> QED BY <5>2, ArrivesEmpty
      <4>5. /\ client'[c].data \in [Ids -> Entity \union {None}]
            /\ server.data \in [Ids -> Entity \union {None}]
        BY Holdings DEF TypeOK, Replicas, Data
      <4> QED BY <4>1, <4>2, <4>4, <4>5
    <3> QED BY <1>2, <1>6, <2>2, <3>3, <3>4
  <2> QED BY <2>1, <2>2
<1> QED BY <1>8, <1>9, <1>11, <1>12, <1>14, <1>15 DEF RParts

(* ... and no step breaks it.                                              *)
LEMMA RStep == Prompt /\ RInv /\ [Next]_vars => RInv'
<1> SUFFICES ASSUME Prompt, RInv, [Next]_vars PROVE RInv'
  OBVIOUS
<1>1. Apart
  BY DEF Prompt
<1>2. AInv' /\ SInv' /\ TypeOK /\ TypeOK'
  BY <1>1, AStep, SStep DEF RInv, AInv
<1>3. \A t \in Timestamps : Past(t) => Past(t)'
  BY <1>1, <1>2, PastStays DEF RInv, SInv
<1>4. CASE Tick
  BY <1>2, <1>3, <1>4, RTick DEF RInv
<1>5. CASE Restart
  BY <1>2, <1>3, <1>5, RRestart DEF RInv
<1>6. ASSUME NEW i \in Ids, NEW entry \in Entries, Transact(i, entry) PROVE RInv'
  BY <1>2, <1>3, <1>6, RTransact DEF RInv
<1>7. ASSUME NEW c \in Clients, HandleChanges(c) PROVE RInv'
  BY <1>2, <1>3, <1>7, RHandleChanges DEF RInv
<1>8. ASSUME NEW c \in Clients, BufferEntityData(c) PROVE RInv'
  BY <1>2, <1>8, RBuffer DEF RInv
<1>9. ASSUME NEW c \in Clients, FlushEntityData(c) PROVE RInv'
  BY <1>2, <1>3, <1>9, RFlush DEF RInv
<1>10. ASSUME NEW c \in Clients, NEW i \in Ids, NEW entry \in Entries, Push(c, i, entry)
       PROVE  RInv'
  BY <1>2, <1>10, RPush DEF RInv
<1>11. ASSUME NEW c \in Clients, HandleAck(c) PROVE RInv'
  BY <1>2, <1>11, RHandleAck DEF RInv
<1>12. ASSUME NEW c \in Clients, HandleEntityData(c) PROVE RInv'
  BY <1>2, <1>12, RHandleEntityData DEF RInv
<1>13. ASSUME NEW c \in Clients, Drop(c) PROVE RInv'
  BY <1>2, <1>13, RDrop DEF RInv
<1>14. ASSUME NEW c \in Clients, Connect(c) PROVE RInv'
  BY <1>2, <1>14, RConnect DEF RInv
<1>15. CASE UNCHANGED vars
  BY <1>2, <1>15 DEF vars, RInv, RParts, FullPart, UpPart, AckPart, NewsPart, OrderPart,
     MetaPart, SincePart, FlushPart, Past, Now
<1> QED BY <1>4, <1>5, <1>6, <1>7, <1>8, <1>9, <1>10, <1>11, <1>12, <1>13, <1>14, <1>15
    DEF Next

(* While the server's clocks are read apart, time goes on and its storage  *)
(* answers at once, a connected client with nothing on its way has what    *)
(* the server has: no news is pruned by a stamp or kept back by a          *)
(* checkpoint, through any restart and any lost connection.                *)
THEOREM PromptConverged ==
  ASSUME Prompt
  PROVE  Spec => []Converged
<1>1. RInv /\ [Next]_vars => RInv'
  BY RStep
<1>2. RInv => Converged
  <2> SUFFICES ASSUME RInv, NEW c \in Clients, Settled(c)
               PROVE  client[c].data = server.data
    BY DEF Converged
  <2>1. TypeOK /\ c \in up /\ wire[c] = <<>> /\ news[c] = NoEntries /\ view[c] = server.data
    BY DEF RInv, AInv, Settled
  <2>2. ASSUME NEW j \in Ids PROVE client[c].data[j] = server.data[j]
    <3>1. Arrives(<<>>, client[c].data[j], pushed[c][j], server.data[j], j)
      BY <2>1 DEF RInv, RParts, NewsPart, NoEntries
    <3> QED BY <3>1, ArrivesEmpty
  <2> QED BY <2>1, <2>2, Holdings
<1> QED BY RInit, <1>1, <1>2, PTL DEF Spec
=============================================================================
