--------------------------- MODULE QuerySyncProofs ---------------------------
(***************************************************************************)
(* Proofs about QuerySync.  What is delivered is proved for every value of *)
(* its constants but the number of queries: with one query, the client's   *)
(* one checkpoint stands for it.  The invariant says where a request can   *)
(* be, and what the client will hold when it has handled the first k       *)
(* messages on their way to it.  The types are proved for every value.     *)
(***************************************************************************)
EXTENDS QuerySync, FiniteSetTheorems, WellFoundedInduction, TLAPS

(* One query on builds whose storages do not yield, whose subscribers stay *)
(* and whose client keeps running: the builds in which the one checkpoint  *)
(* of the client can stand for the query (the runs of more queries, of     *)
(* restarts and of leaving subscribers leave the two properties out).      *)
OneQuery(q) ==
  /\ Queries = {q}
  /\ ~ServerYields /\ ~ClientYields /\ ~Leaves /\ MaxCrashes = 0

-----------------------------------------------------------------------------
(* The messages.                                                           *)

Connecting(q, st) == [type |-> "CONNECT_QUERY", query |-> q, state |-> st]
Disconnecting(q) == [type |-> "DISCONNECT_QUERY", query |-> q]
ToClient ==
  [type : {"READY"}] \union [type : {"ERROR"}, query : Queries]
  \union [type : {"ENTITY_DATA"}, changes : Changes, timestamp : Nat, for : SUBSET Queries]
ToServer ==
  [type : {"CONNECT_QUERY"}, query : Queries, state : State]
  \union [type : {"DISCONNECT_QUERY"}, query : Queries]

Numbers == used \in [writes : Nat, drops : Nat, crashes : {0}, errors : Nat]
Wires == toServer \in Seq(ToServer) /\ toClient \in Seq(ToClient)

IsData(k) == toClient[k].type = "ENTITY_DATA"
Errors == {k \in DOMAIN toClient : toClient[k].type = "ERROR"}
Carries(k, i) == IsData(k) /\ toClient[k].changes[i] # "same"
Val(ch) == IF ch = "gone" THEN None ELSE ch

-----------------------------------------------------------------------------
(* Who waits for what.                                                     *)

(* At most one activation of the client is suspended.                      *)
Activations(q) ==
  /\ calls = <<>> \/ \E l \in Listeners \union {None} :
       calls = <<[query |-> q, timestamp |-> checkpoint, by |-> l, orphan |-> FALSE]>>
  /\ handlers = <<>> \/ \E m \in ToClient : handlers = <<m>> /\ m.type # "ERROR"
  /\ calls # <<>> => handlers = <<>>

Sent(q) == mounted[q] # None /\ mounted[q].hasSent
Subscribed(q) == conn.queries[q] # None
Requested(q) == toServer # <<>> /\ toServer[Len(toServer)].type = "CONNECT_QUERY"

(* A request that is sent is in one place: on its way, connected, or       *)
(* answered with an ERROR.                                                 *)
Request(q) ==
  /\ \/ toServer \in {<<>>, <<Disconnecting(q)>>}
     \/ \E st \in State : toServer \in {<<Connecting(q, st)>>,
                                        <<Disconnecting(q), Connecting(q, st)>>}
  /\ \A j, k \in Errors : j = k
  /\ Requested(q) => ~Subscribed(q) /\ Errors = {}
  /\ Subscribed(q) => toServer = <<>> /\ Errors = {}
  /\ Errors # {} => toServer = <<>>
  /\ Sent(q) <=> Requested(q) \/ Subscribed(q) \/ Errors # {}

(* The connection.                                                         *)
Session(q) ==
  /\ serverReady => conn.canSync
  /\ conn.canSync => link = "up"
  /\ ~conn.canSync => ~Subscribed(q) /\ toServer = <<>> /\ toClient = <<>>
  /\ calls # <<>> => serverReady /\ mounted[q] # None /\ ~mounted[q].hasSent
  /\ handlers # <<>> => serverReady
  /\ Sent(q) => serverReady

(* The server's side of the query, from CONNECT_QUERY to its first answer. *)
Server(q) ==
  LET sub == conn.queries[q]
  IN  /\ conn.entities = <<>> \/ \E X \in Result : conn.entities = <<[query |-> q, of |-> X]>>
      /\ Subscribed(q) => conn.entities # <<>>
      /\ conn.calling # {} => ~lag /\ Subscribed(q)
      /\ conn.tasks # {} => /\ ~lag /\ conn.calling = {} /\ Subscribed(q)
                            /\ sub.first /\ ~sub.fresh /\ sub.state # None
                            /\ conn.tasks = {[query |-> q, of |-> conn.entities[1].of,
                                              state |-> sub.state, orphan |-> FALSE]}
      /\ Subscribed(q) /\ sub.fresh =>
           /\ sub.first /\ conn.entities[1].of = Empty
           /\ ~lag => conn.calling = {q}
      /\ Subscribed(q) /\ sub.first /\ ~sub.fresh => conn.tasks # {}
      /\ Subscribed(q) /\ ~sub.fresh /\ ~lag /\ conn.calling = {} =>
           conn.entities[1].of = Answer(q, store)

(* The timestamps of data that is being stored, and of the first k         *)
(* messages: with the checkpoint, all that may be stored by then.          *)
HandlerStamps ==
  {handlers[j].timestamp : j \in {j \in DOMAIN handlers : handlers[j].type = "ENTITY_DATA"}}
DataStamps(k) == {toClient[j].timestamp : j \in {j \in 1..k : IsData(j)}}
Stamps(k) == {checkpoint} \union HandlerStamps \union DataStamps(k)

(* Nothing of the query is on its way before the server has answered.      *)
Answered(q) == Subscribed(q) /\ ~conn.queries[q].first
Quiet(q) ==
  ~Answered(q) =>
    /\ conn.changes = NoChanges /\ conn.changed = {}
    /\ \A k \in DOMAIN toClient : ~IsData(k)
    /\ HandlerStamps = {}

(* What the client says it has, it has until it is answered.               *)
Tells(q, st) ==
  IF st = None THEN cache = Empty
  ELSE st.ts = checkpoint /\ st.ids = {i \in Ids : Answer(q, cache)[i] # None}
Told(q) ==
  /\ \A k \in DOMAIN toServer : toServer[k].type = "CONNECT_QUERY" => Tells(q, toServer[k].state)
  /\ Subscribed(q) /\ conn.queries[q].first => Tells(q, conn.queries[q].state)
  /\ checkpoint = 0 /\ HandlerStamps = {} => cache = Empty

-----------------------------------------------------------------------------
(* What the client will have.                                              *)

(* The value of i when the first k messages are handled.                   *)
Holds(k, i, v) ==
  \/ \E j \in 1..k : /\ Carries(j, i)
                     /\ \A l \in (j + 1)..k : ~Carries(l, i)
                     /\ v = Val(toClient[j].changes[i])
  \/ (\A j \in 1..k : ~Carries(j, i)) /\ v = cache[i]

(* ... and all of them, and those that wait for the flush.                 *)
Finally(i, v) ==
  \/ conn.changes[i] # "same" /\ v = Val(conn.changes[i])
  \/ conn.changes[i] = "same" /\ Holds(Len(toClient), i, v)

Shown(q, v) == IF Matches(q, v) THEN v ELSE None

(* It comes to show what the server's connection has for the query.        *)
Agree(q) ==
  Answered(q) =>
    \A i \in Ids, v \in Values \union {None} :
      Finally(i, v) => Shown(q, v) = conn.entities[1].of[i]

(* Every timestamp is honest about what the client has at that point.      *)
Honest(q) ==
  \A k \in 0..Len(toClient), i \in Ids, v \in Values \union {None} :
    Holds(k, i, v) /\ Matches(q, v) =>
      \A ts \in Stamps(k) : at[i] < ts => v = store[i]

(* And is a time that has passed.                                          *)
Past ==
  /\ \A ts \in Stamps(Len(toClient)) : ts \in Nat /\ ts < now
  /\ \A ts \in HandlerStamps \union DataStamps(Len(toClient)) : ts # 0
  /\ \A i \in Ids : at[i] < now

Types == TypeOK /\ Numbers /\ Wires
Places(q) == Activations(q) /\ Request(q) /\ Session(q) /\ Server(q) /\ Quiet(q) /\ Told(q)
QInv(q) == Types /\ Places(q) /\ Agree(q) /\ Honest(q) /\ Past

-----------------------------------------------------------------------------
(* Types, and the operators on the server's Map of one query.              *)

LEMMA ConnType ==
  ASSUME TypeOK
  PROVE  /\ conn = [canSync |-> conn.canSync, queries |-> conn.queries,
                    entities |-> conn.entities, calling |-> conn.calling,
                    tasks |-> conn.tasks, changes |-> conn.changes, changed |-> conn.changed]
         /\ conn.canSync \in BOOLEAN
         /\ conn.queries \in [Queries -> Subs \union {None}]
         /\ conn.entities \in Seq([query : Queries, of : Result])
         /\ conn.calling \in SUBSET Queries
         /\ conn.tasks \in SUBSET [query : Queries, of : Result, state : State, orphan : BOOLEAN]
         /\ conn.changes \in Changes /\ conn.changed \in SUBSET Queries
  BY DEF TypeOK, Conns

(* The connection after a step on it, by its fields.                       *)
LEMMA ConnStep ==
  ASSUME TypeOK, NEW queries \in [Queries -> Subs \union {None}],
         NEW entities \in Seq([query : Queries, of : Result]), NEW calling \in SUBSET Queries,
         NEW tasks \in SUBSET [query : Queries, of : Result, state : State, orphan : BOOLEAN],
         NEW changes \in Changes, NEW changed \in SUBSET Queries,
         conn' = [conn EXCEPT !.queries = queries, !.entities = entities, !.calling = calling,
                              !.tasks = tasks, !.changes = changes, !.changed = changed]
  PROVE  /\ conn' \in Conns
         /\ conn'.canSync = conn.canSync /\ conn'.queries = queries
         /\ conn'.entities = entities /\ conn'.calling = calling /\ conn'.tasks = tasks
         /\ conn'.changes = changes /\ conn'.changed = changed
  BY DEF TypeOK, Conns

LEMMA NotNone ==
  /\ \A r \in States \union Subs \union Mounts : r # None
  /\ \A v \in Values : v # None /\ v # "same" /\ v # "gone"
  BY QuerySyncAssumption, NoneAssumption

LEMMA AnswerType == ASSUME NEW q, NEW s \in Result PROVE Answer(q, s) \in Result
  BY DEF Answer, Result, Matches

LEMMA EmptyType == Empty \in Result /\ NoChanges \in Changes
  BY DEF Empty, Result, NoChanges, Changes

LEMMA EntryAt ==
  ASSUME NEW q, NEW Y, conn.entities = <<>> \/ \E X \in Result : conn.entities = <<[query |-> q, of |-> X]>>
  PROVE  /\ Entry(q) = IF conn.entities = <<>> THEN 0 ELSE 1
         /\ WithEntities(q, Y) = <<[query |-> q, of |-> Y]>>
  <1>1. CASE conn.entities = <<>>
    <2>1. {i \in 1..Len(conn.entities) : conn.entities[i].query = q} = {}
      BY <1>1
    <2>2. Entry(q) = 0
      BY <2>1 DEF Entry, SelectInSeq
    <2> QED BY <1>1, <2>2 DEF WithEntities
  <1>2. CASE \E X \in Result : conn.entities = <<[query |-> q, of |-> X]>>
    <2>0. PICK X \in Result : conn.entities = <<[query |-> q, of |-> X]>>
      BY <1>2
    <2>8. conn.entities # <<>>
      BY <2>0
    <2>1. {i \in 1..Len(conn.entities) : conn.entities[i].query = q} = {1}
      BY <2>0
    <2>2. Min({1}) = 1
      BY DEF Min
    <2>3. Entry(q) = 1
      BY <2>1, <2>2 DEF Entry, SelectInSeq
    <2>4. WithEntities(q, Y) = [<<[query |-> q, of |-> X]>> EXCEPT ![1].of = Y]
      BY <2>0, <2>3, <2>8 DEF WithEntities
    <2>5. <<[query |-> q, of |-> X]>>[1] = [query |-> q, of |-> X]
          /\ DOMAIN <<[query |-> q, of |-> X]>> = {1}
      OBVIOUS
    <2>6. [<<[query |-> q, of |-> X]>> EXCEPT ![1].of = Y]
            = [k \in {1} |-> [query |-> q, of |-> Y]]
      BY <2>5
    <2>7. <<[query |-> q, of |-> Y]>> = [k \in {1} |-> [query |-> q, of |-> Y]]
      OBVIOUS
    <2> QED BY <2>3, <2>4, <2>6, <2>7, <2>8
  <1> QED BY <1>1, <1>2

LEMMA UnionOne ==
  ASSUME NEW q, NEW X \in Result
  PROVE  Union(<<[query |-> q, of |-> X]>>) = X
  <1> DEFINE es == <<[query |-> q, of |-> X]>>
  <1>1. DOMAIN es = {1} /\ es[1].of = X
    OBVIOUS
  <1>2. ASSUME NEW i \in Ids
        PROVE  Union(es)[i] = X[i]
    <2> DEFINE having == {k \in DOMAIN es : es[k].of[i] # None}
    <2>1. Union(es)[i] = IF having = {} THEN None ELSE es[Max(having)].of[i]
      BY DEF Union
    <2>2. CASE X[i] = None
      BY <1>1, <2>1, <2>2
    <2>3. CASE X[i] # None
      <3>1. having = {1}
        BY <1>1, <2>3
      <3>2. Max({1}) = 1
        BY DEF Max
      <3> QED BY <1>1, <2>1, <3>1, <3>2
    <2> QED BY <2>2, <2>3
  <1>3. Union(es) = [i \in Ids |-> Union(es)[i]]
    BY DEF Union
  <1> QED BY <1>2, <1>3 DEF Result

LEMMA ChangeTypes ==
  ASSUME NEW old \in Result, NEW new \in Result, NEW chs \in Changes, NEW news \in Changes
  PROVE  /\ Diff(old, new) \in Changes /\ Over(chs, news) \in Changes
         /\ Apply(old, chs) \in Result
         /\ \A i \in Ids : Apply(old, chs)[i] = IF chs[i] = "same" THEN old[i] ELSE Val(chs[i])
  <1>1. Diff(old, new) \in Changes
    BY DEF Diff, Changes, Result
  <1>2. Over(chs, news) \in Changes
    BY DEF Over, Changes
  <1>3. \A i \in Ids : Apply(old, chs)[i] = IF chs[i] = "same" THEN old[i] ELSE Val(chs[i])
    BY DEF Apply, Val
  <1>4. \A i \in Ids : Apply(old, chs)[i] \in Values \union {None}
    BY <1>3 DEF Val, Result, Changes
  <1> QED BY <1>1, <1>2, <1>3, <1>4 DEF Apply, Result

-----------------------------------------------------------------------------
(* How the connection moves.                                               *)

LEMMA Messages ==
  ASSUME Wires
  PROVE  /\ toClient = <<>> \/ (toClient # <<>> /\ Head(toClient) = toClient[1])
         /\ \A k \in DOMAIN toClient : toClient[k] \in ToClient
         /\ Len(toClient) \in Nat /\ DOMAIN toClient = 1..Len(toClient)
         /\ \A k \in DOMAIN toClient : IsData(k) =>
              toClient[k].changes \in Changes /\ toClient[k].timestamp \in Nat
  BY DEF Wires, ToClient, IsData

(* The first message is handled.                                           *)
LEMMA PopAt ==
  ASSUME Wires, toClient # <<>>, toClient' = Tail(toClient)
  PROVE  /\ Len(toClient') = Len(toClient) - 1
         /\ \A k \in 1..Len(toClient') : /\ toClient'[k] = toClient[k + 1]
                                        /\ IsData(k)' = IsData(k + 1)
                                        /\ \A i \in Ids : Carries(k, i)' = Carries(k + 1, i)
  <1>1. /\ Len(toClient') = Len(toClient) - 1
        /\ \A k \in 1..Len(toClient') : toClient'[k] = toClient[k + 1]
    BY DEF Wires
  <1> QED BY <1>1 DEF IsData, Carries

LEMMA PopHolds ==
  ASSUME Wires, toClient # <<>>, toClient' = Tail(toClient), cache \in Result,
         cache' = IF IsData(1) THEN Apply(cache, toClient[1].changes) ELSE cache,
         NEW k \in 0..Len(toClient'), NEW i \in Ids, NEW v, Holds(k, i, v)'
  PROVE  Holds(k + 1, i, v)
  <1>0. /\ k \in Nat /\ k + 1 \in 1..Len(toClient) /\ Len(toClient) \in Nat
        /\ \A j \in 1..k : /\ toClient'[j] = toClient[j + 1]
                           /\ Carries(j, i)' = Carries(j + 1, i)
    <2>1. Len(toClient') = Len(toClient) - 1 /\ Len(toClient) \in Nat
      BY PopAt, Messages
    <2>2. \A j \in 1..k : j \in 1..Len(toClient')
      BY <2>1
    <2>3. \A j \in 1..k : toClient'[j] = toClient[j + 1] /\ Carries(j, i)' = Carries(j + 1, i)
      BY <2>2, PopAt
    <2> QED BY <2>1, <2>3
  <1>1. CASE \E j \in 1..k : /\ Carries(j, i)'
                             /\ \A l \in (j + 1)..k : ~Carries(l, i)'
                             /\ v = Val(toClient'[j].changes[i])
    <2>1. PICK j \in 1..k : /\ Carries(j, i)'
                            /\ \A l \in (j + 1)..k : ~Carries(l, i)'
                            /\ v = Val(toClient'[j].changes[i])
      BY <1>1
    <2>2. /\ j + 1 \in 1..(k + 1) /\ Carries(j + 1, i)
          /\ v = Val(toClient[j + 1].changes[i])
      BY <1>0, <2>1
    <2>3. ASSUME NEW l \in ((j + 1) + 1)..(k + 1)
          PROVE  ~Carries(l, i)
      <3>1. l - 1 \in (j + 1)..k /\ l - 1 \in 1..k /\ l = (l - 1) + 1
        BY <1>0
      <3> QED BY <1>0, <2>1, <3>1
    <2> QED BY <2>2, <2>3 DEF Holds
  <1>2. CASE (\A j \in 1..k : ~Carries(j, i)') /\ v = cache'[i]
    <2>1. \A l \in 2..(k + 1) : ~Carries(l, i)
      <3> SUFFICES ASSUME NEW l \in 2..(k + 1) PROVE ~Carries(l, i)
        OBVIOUS
      <3>1. l - 1 \in 1..k /\ l = (l - 1) + 1
        BY <1>0
      <3> QED BY <1>0, <1>2, <3>1
    <2>2. IsData(1) => toClient[1].changes \in Changes
      BY <1>0, Messages
    <2>3. CASE Carries(1, i)
      <3>1. v = Val(toClient[1].changes[i])
        BY <1>2, <2>2, <2>3, ChangeTypes DEF Carries
      <3>2. 1 \in 1..(k + 1) /\ \A l \in (1 + 1)..(k + 1) : ~Carries(l, i)
        BY <1>0, <2>1
      <3> QED BY <2>3, <3>1, <3>2 DEF Holds
    <2>4. CASE ~Carries(1, i)
      <3>1. v = cache[i]
        BY <1>2, <2>2, <2>4, ChangeTypes DEF Carries
      <3>2. \A j \in 1..(k + 1) : j = 1 \/ j \in 2..(k + 1)
        BY <1>0
      <3> QED BY <2>1, <2>4, <3>1, <3>2 DEF Holds
    <2> QED BY <2>3, <2>4
  <1>3. \/ \E j \in 1..k : /\ Carries(j, i)'
                           /\ \A l \in (j + 1)..k : ~Carries(l, i)'
                           /\ v = Val(toClient'[j].changes[i])
        \/ (\A j \in 1..k : ~Carries(j, i)') /\ v = cache'[i]
    BY DEF Holds
  <1> QED BY <1>1, <1>2, <1>3

(* A message is sent.                                                      *)
LEMMA SendAt ==
  ASSUME Wires, NEW m, toClient' = Append(toClient, m)
  PROVE  /\ Len(toClient') = Len(toClient) + 1
         /\ toClient'[Len(toClient) + 1] = m
         /\ \A k \in 1..Len(toClient) : /\ toClient'[k] = toClient[k]
                                       /\ IsData(k)' = IsData(k)
                                       /\ \A i \in Ids : Carries(k, i)' = Carries(k, i)
  <1>1. /\ Len(toClient') = Len(toClient) + 1
        /\ toClient'[Len(toClient) + 1] = m
        /\ \A k \in 1..Len(toClient) : toClient'[k] = toClient[k]
    BY DEF Wires
  <1> QED BY <1>1 DEF IsData, Carries

LEMMA SendHolds ==
  ASSUME Wires, NEW m, toClient' = Append(toClient, m), cache' = cache, NEW i \in Ids, NEW v,
         NEW n, n = Len(toClient)
  PROVE  /\ \A k \in 0..n : Holds(k, i, v)' => Holds(k, i, v)
         /\ Holds(n + 1, i, v)' =>
              IF m.type = "ENTITY_DATA" /\ m.changes[i] # "same" THEN v = Val(m.changes[i])
              ELSE Holds(n, i, v)
  <1>0. n \in Nat
    BY Messages
  <1>1. \A k \in 1..n : toClient'[k] = toClient[k] /\ Carries(k, i)' = Carries(k, i)
    BY SendAt
  <1>2. toClient'[n + 1] = m /\ (Carries(n + 1, i)' <=> m.type = "ENTITY_DATA" /\ m.changes[i] # "same")
    BY SendAt DEF Carries, IsData
  <1>3. ASSUME NEW k \in 0..n, Holds(k, i, v)' PROVE Holds(k, i, v)
    <2>1. \A j \in 1..k : j \in 1..n /\ \A l \in (j + 1)..k : l \in 1..n
      BY <1>0
    <2>2. CASE \E j \in 1..k : /\ Carries(j, i)'
                               /\ \A l \in (j + 1)..k : ~Carries(l, i)'
                               /\ v = Val(toClient'[j].changes[i])
      BY <1>1, <2>1, <2>2 DEF Holds
    <2>3. CASE (\A j \in 1..k : ~Carries(j, i)') /\ v = cache'[i]
      BY <1>1, <2>1, <2>3 DEF Holds
    <2> QED BY <1>3, <2>2, <2>3 DEF Holds
  <1>4. ASSUME Holds(n + 1, i, v)', Carries(n + 1, i)' PROVE v = Val(m.changes[i])
    <2>1. n + 1 \in 1..(n + 1)
      BY <1>0
    <2>2. PICK j \in 1..(n + 1) : /\ \A l \in (j + 1)..(n + 1) : ~Carries(l, i)'
                                  /\ v = Val(toClient'[j].changes[i])
      BY <1>4, <2>1 DEF Holds
    <2>3. j = n + 1
      BY <1>0, <1>4, <2>2
    <2> QED BY <1>2, <2>2, <2>3
  <1>5. ASSUME Holds(n + 1, i, v)', ~Carries(n + 1, i)' PROVE Holds(n, i, v)'
    <2>1. CASE \E j \in 1..(n + 1) : /\ Carries(j, i)'
                                     /\ \A l \in (j + 1)..(n + 1) : ~Carries(l, i)'
                                     /\ v = Val(toClient'[j].changes[i])
      <3>1. PICK j \in 1..(n + 1) : /\ Carries(j, i)'
                                    /\ \A l \in (j + 1)..(n + 1) : ~Carries(l, i)'
                                    /\ v = Val(toClient'[j].changes[i])
        BY <2>1
      <3>2. j # n + 1
        BY <1>5, <3>1
      <3>3. j \in 1..n /\ \A l \in (j + 1)..n : l \in (j + 1)..(n + 1)
        BY <1>0, <3>2
      <3> QED BY <3>1, <3>3 DEF Holds
    <2>2. CASE (\A j \in 1..(n + 1) : ~Carries(j, i)') /\ v = cache'[i]
      <3>1. \A j \in 1..n : j \in 1..(n + 1)
        BY <1>0
      <3> QED BY <2>2, <3>1 DEF Holds
    <2> QED BY <1>5, <2>1, <2>2 DEF Holds
  <1>6. n \in 0..n
    BY <1>0
  <1>7. (\A k \in 0..n : Holds(k, i, v)' => Holds(k, i, v))
    BY <1>3
  <1>8. Holds(n + 1, i, v)' =>
              IF m.type = "ENTITY_DATA" /\ m.changes[i] # "same" THEN v = Val(m.changes[i])
              ELSE Holds(n, i, v)
    BY <1>2, <1>3, <1>4, <1>5, <1>6
  <1> QED BY <1>7, <1>8

-----------------------------------------------------------------------------
(* What a step on the connection does to what the client will have.        *)

LEMMA StampFrame ==
  ASSUME NEW q, Honest(q), Past, UNCHANGED <<toClient, cache, at, now, store>>,
         checkpoint' \in {checkpoint} \union HandlerStamps, HandlerStamps' \subseteq HandlerStamps
  PROVE  Honest(q)' /\ Past'
  <1>1. \A k, i, v : Holds(k, i, v)' <=> Holds(k, i, v)
    BY DEF Holds, Carries, IsData
  <1>2. \A k : DataStamps(k)' = DataStamps(k) /\ Stamps(k)' \subseteq Stamps(k)
    BY DEF DataStamps, Stamps, IsData
  <1>3. Honest(q)'
    BY <1>1, <1>2 DEF Honest
  <1>4. Past'
    BY <1>2 DEF Past
  <1> QED BY <1>3, <1>4

LEMMA AgreeFrame ==
  ASSUME NEW q, Agree(q), UNCHANGED <<toClient, cache>>,
         conn'.queries = conn.queries, conn'.entities = conn.entities,
         conn'.changes = conn.changes
  PROVE  Agree(q)'
  <1>1. \A k, i, v : Holds(k, i, v)' <=> Holds(k, i, v)
    BY DEF Holds, Carries, IsData
  <1>2. \A i, v : Finally(i, v)' <=> Finally(i, v)
    BY <1>1 DEF Finally
  <1> QED BY <1>2 DEF Agree, Answered, Subscribed

LEMMA QuietFrame ==
  ASSUME NEW q, Quiet(q), UNCHANGED toClient, HandlerStamps' \subseteq HandlerStamps,
         Answered(q)' = Answered(q), conn'.changes = conn.changes, conn'.changed = conn.changed
  PROVE  Quiet(q)'
  BY DEF Quiet, IsData

LEMMA PopData ==
  ASSUME NEW q, Types, Honest(q), Past, Agree(q), Quiet(q),
         toClient # <<>>, toClient' = Tail(toClient),
         cache' = IF IsData(1) THEN Apply(cache, toClient[1].changes) ELSE cache,
         HandlerStamps' \subseteq IF IsData(1) THEN {toClient[1].timestamp} ELSE {},
         UNCHANGED <<conn, checkpoint, at, now, store>>
  PROVE  Honest(q)' /\ Past' /\ Agree(q)' /\ Quiet(q)'
  <1>0. Wires /\ cache \in Result
    BY DEF Types, TypeOK
  <1>1. Len(toClient') = Len(toClient) - 1 /\ Len(toClient) \in Nat /\ Len(toClient) >= 1
        /\ DOMAIN toClient = 1..Len(toClient) /\ DOMAIN toClient' = 1..Len(toClient')
    <2>1. toClient' \in Seq(ToClient)
      BY <1>0 DEF Wires
    <2> QED BY <1>0, <2>1, PopAt, Messages
  <1>2. ASSUME NEW k \in 0..Len(toClient')
        PROVE  /\ k + 1 \in 0..Len(toClient)
               /\ DataStamps(k)' \subseteq DataStamps(k + 1)
               /\ Stamps(k)' \subseteq Stamps(k + 1)
    <2>1. k + 1 \in 0..Len(toClient) /\ k \in Nat
      BY <1>1
    <2>2. ASSUME NEW j \in 1..k, IsData(j)'
          PROVE  toClient'[j].timestamp \in DataStamps(k + 1)
      <3>1. toClient'[j] = toClient[j + 1] /\ IsData(j + 1) /\ j + 1 \in 1..(k + 1)
        BY <1>0, <1>1, <2>1, <2>2, PopAt
      <3> QED BY <3>1 DEF DataStamps
    <2>3. DataStamps(k)' \subseteq DataStamps(k + 1)
      BY <2>2 DEF DataStamps
    <2>4. HandlerStamps' \subseteq DataStamps(k + 1)
      <3>1. 1 \in 1..(k + 1)
        BY <2>1
      <3> QED BY <3>1 DEF DataStamps
    <2> QED BY <2>1, <2>3, <2>4 DEF Stamps
  <1>3. ASSUME NEW k \in 0..Len(toClient'), NEW i \in Ids, NEW v, Holds(k, i, v)'
        PROVE  Holds(k + 1, i, v)
    BY <1>0, <1>3, PopHolds
  <1>4. Honest(q)'
    <2> SUFFICES ASSUME NEW k \in 0..Len(toClient'), NEW i \in Ids, NEW v \in Values \union {None},
                        Holds(k, i, v)', Matches(q, v), NEW ts \in Stamps(k)', at[i] < ts
                 PROVE  v = store[i]
      BY DEF Honest
    <2> QED BY <1>2, <1>3 DEF Honest
  <1>5. Past'
    <2>1. Len(toClient') \in 0..Len(toClient') /\ Len(toClient') + 1 = Len(toClient)
      BY <1>1
    <2>2. Stamps(Len(toClient))' \subseteq Stamps(Len(toClient))
          /\ DataStamps(Len(toClient))' \subseteq DataStamps(Len(toClient))
      BY <1>2, <2>1
    <2>3. HandlerStamps' \subseteq DataStamps(Len(toClient))
      BY <1>1 DEF DataStamps
    <2> QED BY <2>2, <2>3 DEF Past
  <1>6. Agree(q)'
    <2>1. Len(toClient') \in 0..Len(toClient') /\ Len(toClient') + 1 = Len(toClient)
      BY <1>1
    <2>2. \A i \in Ids, v \in Values \union {None} :
            Holds(Len(toClient), i, v)' => Holds(Len(toClient), i, v)
      BY <1>3, <2>1
    <2> QED BY <2>2 DEF Agree, Answered, Subscribed, Finally
  <1>7. Quiet(q)'
    <2> SUFFICES ASSUME ~Answered(q)
                 PROVE  /\ \A k \in DOMAIN toClient' : ~IsData(k)'
                        /\ HandlerStamps' = {}
      BY DEF Quiet, Answered, Subscribed
    <2>1. \A k \in DOMAIN toClient : ~IsData(k)
      BY DEF Quiet
    <2>2. ~IsData(1)
      BY <1>1, <2>1
    <2>3. \A k \in DOMAIN toClient' : k + 1 \in DOMAIN toClient /\ IsData(k)' = IsData(k + 1)
      BY <1>0, <1>1, PopAt
    <2> QED BY <2>1, <2>2, <2>3
  <1> QED BY <1>4, <1>5, <1>6, <1>7

(* A message that is no data is sent.                                      *)
LEMMA SendOther ==
  ASSUME NEW q, Types, Honest(q), Past, Agree(q), Quiet(q),
         NEW m \in ToClient, m.type # "ENTITY_DATA", toClient' = Append(toClient, m),
         conn'.queries[q] = conn.queries[q], Answered(q) => conn'.entities = conn.entities,
         conn'.changes = conn.changes, conn'.changed = conn.changed,
         UNCHANGED <<handlers, cache, checkpoint, at, now, store>>
  PROVE  Honest(q)' /\ Past' /\ Agree(q)' /\ Quiet(q)'
  <1>n. PICK n \in Nat : n = Len(toClient)
    BY Messages DEF Types
  <1>0. Wires /\ n + 1 = Len(toClient') /\ DOMAIN toClient = 1..n
        /\ DOMAIN toClient' = 1..(n + 1)
    <2>1. Wires
      BY DEF Types
    <2>2. toClient' \in Seq(ToClient)
      BY <2>1 DEF Wires
    <2> QED BY <1>n, <2>1, <2>2, SendAt, Messages
  <1>1. \A k \in 1..n : IsData(k)' = IsData(k) /\ toClient'[k] = toClient[k]
    BY <1>0, <1>n, SendAt
  <1>2. toClient'[n + 1] = m
    BY <1>0, <1>n, SendAt
  <1>3. \A k \in DOMAIN toClient' : IsData(k)' => k \in 1..n /\ IsData(k)
    BY <1>0, <1>1, <1>2 DEF IsData
  <1>4. HandlerStamps' = HandlerStamps
    BY DEF HandlerStamps
  <1>5. ASSUME NEW k \in 0..(n + 1)
        PROVE  \E l \in 0..n :
                 /\ DataStamps(k)' = DataStamps(l) /\ Stamps(k)' = Stamps(l)
                 /\ k = n + 1 => l = n
                 /\ \A i \in Ids : \A v : Holds(k, i, v)' => Holds(l, i, v)
    <2>1. PICK l \in 0..n : IF k = n + 1 THEN l = n ELSE l = k
      BY <1>0
    <2>a. /\ \A j \in 1..k : j \in 1..(n + 1) /\ (j \in 1..n => j \in 1..l)
          /\ \A j \in 1..l : j \in 1..n /\ j \in 1..k
      BY <2>1
    <2>2. \A j : j \in 1..k /\ IsData(j)' <=> j \in 1..l /\ IsData(j)
      BY <1>0, <1>1, <1>3, <2>a
    <2>3. DataStamps(k)' = DataStamps(l)
      <3>1. \A j \in 1..k : IsData(j)' => toClient'[j] = toClient[j]
        BY <1>1, <2>a, <2>2
      <3>2. {j \in 1..k : IsData(j)'} = {j \in 1..l : IsData(j)}
        BY <2>2
      <3> QED BY <3>1, <3>2 DEF DataStamps
    <2>4. Stamps(k)' = Stamps(l)
      BY <1>4, <2>3 DEF Stamps
    <2>5. \A i \in Ids : \A v : Holds(k, i, v)' => Holds(l, i, v)
      <3> SUFFICES ASSUME NEW i \in Ids, NEW v, Holds(k, i, v)' PROVE Holds(l, i, v)
        OBVIOUS
      <3>1. /\ \A j \in 0..n : Holds(j, i, v)' => Holds(j, i, v)
            /\ Holds(n + 1, i, v)' => Holds(n, i, v)
        BY <1>0, <1>n, SendHolds
      <3> QED BY <2>1, <3>1
    <2> QED BY <2>1, <2>3, <2>4, <2>5
  <1>6. n + 1 \in 0..(n + 1)
    BY <1>0
  <1>7. /\ DataStamps(n + 1)' = DataStamps(n) /\ Stamps(n + 1)' = Stamps(n)
        /\ \A i \in Ids : \A v : Holds(n + 1, i, v)' => Holds(n, i, v)
    BY <1>5, <1>6
  <1>8. Honest(q)'
    <2> SUFFICES ASSUME NEW k \in 0..(n + 1), NEW i \in Ids, NEW v \in Values \union {None},
                        Holds(k, i, v)', Matches(q, v), NEW ts \in Stamps(k)', at[i] < ts
                 PROVE  v = store[i]
      BY <1>0 DEF Honest
    <2>1. PICK l \in 0..n : Stamps(k)' = Stamps(l) /\ Holds(l, i, v)
      BY <1>5
    <2> QED BY <1>n, <2>1 DEF Honest
  <1>9. Past'
    <2>1. Stamps(Len(toClient))' = Stamps(Len(toClient))
          /\ DataStamps(Len(toClient))' = DataStamps(Len(toClient))
      BY <1>0, <1>n, <1>7
    <2> QED BY <1>4, <2>1 DEF Past
  <1>10. Agree(q)'
    <2> SUFFICES ASSUME Answered(q), NEW i \in Ids, NEW v \in Values \union {None}, Finally(i, v)'
                 PROVE  Shown(q, v) = conn.entities[1].of[i]
      BY DEF Agree, Answered, Subscribed
    <2>1. Holds(Len(toClient), i, v)' => Holds(Len(toClient), i, v)
      BY <1>0, <1>n, <1>7
    <2>2. Finally(i, v)
      BY <2>1 DEF Finally
    <2> QED BY <2>2 DEF Agree
  <1>11. Quiet(q)'
    <2>1. Answered(q)' = Answered(q)
      BY DEF Answered, Subscribed
    <2> QED BY <1>0, <1>3, <1>4, <2>1 DEF Quiet
  <1> QED BY <1>8, <1>9, <1>10, <1>11

-----------------------------------------------------------------------------
(* What the places of the query do not depend on.                          *)

LEMMA PopErrors ==
  ASSUME Wires, toClient # <<>>, toClient' = Tail(toClient)
  PROVE  /\ Wires' \/ toServer' # toServer
         /\ \A k \in Errors' : k + 1 \in Errors
         /\ \A k \in Errors : k = 1 \/ (k - 1 \in Errors' /\ (k - 1) + 1 = k)
         /\ toClient[1].type # "ERROR" => 1 \notin Errors
  <1>1. /\ Len(toClient') = Len(toClient) - 1 /\ Len(toClient) \in Nat /\ Len(toClient) >= 1
        /\ DOMAIN toClient = 1..Len(toClient)
    BY PopAt, Messages DEF Wires
  <1>2. toClient' \in Seq(ToClient) /\ DOMAIN toClient' = 1..Len(toClient')
    BY DEF Wires
  <1>3. \A k \in 1..Len(toClient') : toClient'[k] = toClient[k + 1]
    BY PopAt
  <1> QED BY <1>1, <1>2, <1>3 DEF Wires, Errors

LEMMA SendErrors ==
  ASSUME Wires, NEW m \in ToClient, toClient' = Append(toClient, m)
  PROVE  /\ toClient' \in Seq(ToClient)
         /\ m.type # "ERROR" => Errors' = Errors
         /\ m.type = "ERROR" /\ Errors = {} => Errors' = {Len(toClient) + 1}
  <1>1. /\ Len(toClient') = Len(toClient) + 1 /\ Len(toClient) \in Nat
        /\ DOMAIN toClient = 1..Len(toClient) /\ DOMAIN toClient' = 1..Len(toClient')
        /\ toClient' \in Seq(ToClient)
    BY DEF Wires
  <1>2. /\ \A k \in 1..Len(toClient) : toClient'[k] = toClient[k]
        /\ toClient'[Len(toClient) + 1] = m
    BY SendAt
  <1> QED BY <1>1, <1>2 DEF Errors

LEMMA RequestFrame ==
  ASSUME NEW q, Request(q), UNCHANGED <<toServer, mounted>>,
         conn'.queries[q] = conn.queries[q],
         \/ UNCHANGED toClient
         \/ Wires /\ toClient # <<>> /\ toClient' = Tail(toClient) /\ toClient[1].type # "ERROR"
         \/ Wires /\ \E m \in ToClient : toClient' = Append(toClient, m) /\ m.type # "ERROR"
  PROVE  Request(q)'
  <1>1. /\ Errors' = {} <=> Errors = {}
        /\ \A j, k \in Errors' : j = k
    <2>1. CASE UNCHANGED toClient
      BY <2>1 DEF Request, Errors
    <2>2. CASE Wires /\ toClient # <<>> /\ toClient' = Tail(toClient) /\ toClient[1].type # "ERROR"
      <3>1. /\ \A k \in Errors' : k + 1 \in Errors /\ k \in Nat
            /\ \A k \in Errors : k - 1 \in Errors'
        <4>1. Len(toClient') \in Nat /\ DOMAIN toClient' = 1..Len(toClient')
          BY <2>2 DEF Wires
        <4>2. \A k \in Errors' : k \in Nat
          <5>1. \A len \in Nat : \A k \in 1..len : k \in Nat
            OBVIOUS
          <5>2. \A k \in DOMAIN toClient' : k \in Nat
            BY <4>1, <5>1, Zenon
          <5> QED BY <5>2 DEF Errors
        <4> QED BY <2>2, <4>2, PopErrors
      <3> QED BY <3>1 DEF Request
    <2>3. CASE Wires /\ \E m \in ToClient : toClient' = Append(toClient, m) /\ m.type # "ERROR"
      BY <2>3, SendErrors DEF Request
    <2> QED BY <2>1, <2>2, <2>3
  <1>2. Requested(q)' = Requested(q) /\ Subscribed(q)' = Subscribed(q) /\ Sent(q)' = Sent(q)
    BY DEF Requested, Subscribed, Sent
  <1> QED BY <1>1, <1>2 DEF Request

LEMMA ServerFrame ==
  ASSUME NEW q, Server(q), UNCHANGED <<store, lag>>,
         conn'.queries = conn.queries, conn'.entities = conn.entities,
         conn'.calling = conn.calling, conn'.tasks = conn.tasks
  PROVE  Server(q)'
  BY DEF Server, Subscribed

LEMMA ToldFrame ==
  ASSUME NEW q, Told(q), UNCHANGED <<toServer, cache, checkpoint>>,
         HandlerStamps' = HandlerStamps, conn'.queries = conn.queries
  PROVE  Told(q)'
  BY DEF Told, Tells, Subscribed

LEMMA Free ==
  ASSUME NEW q, OneQuery(q), ServerFree
  PROVE  ~lag /\ conn.calling = {} /\ conn.tasks = {}
  BY DEF OneQuery, ServerFree

LEMMA ClientAlone ==
  ASSUME NEW q, OneQuery(q), ClientFree
  PROVE  calls = <<>> /\ handlers = <<>> /\ HandlerStamps = {}
  <1>1. calls = <<>> /\ handlers = <<>>
    BY DEF OneQuery, ClientFree
  <1> QED BY <1>1 DEF HandlerStamps

-----------------------------------------------------------------------------
(* The server.                                                             *)

LEMMA WriteStep ==
  ASSUME NEW q, OneQuery(q), QInv(q), NEW i \in Ids, NEW v \in Values \union {None}, Write(i, v)
  PROVE  QInv(q)'
  <1>1. ~lag /\ conn.calling = {} /\ conn.tasks = {}
    BY Free DEF Write
  <1>2. /\ store' = [store EXCEPT ![i] = v] /\ at' = [at EXCEPT ![i] = now]
        /\ now' = now + 1 /\ lag' = TRUE /\ used' = [used EXCEPT !.writes = @ + 1]
        /\ UNCHANGED <<conn, link, toServer, toClient, cache, checkpoint, mounted, serverReady,
                       calls, handlers, listener, failed>>
    BY DEF Write, stored, memory
  <1> USE DEF QInv
  <1>3. Types'
    <2>1. /\ store' \in Result /\ at' \in [Ids -> Nat] /\ now' \in Nat /\ lag' \in BOOLEAN
      BY <1>2 DEF Types, TypeOK, Result
    <2>2. Numbers'
      BY <1>2 DEF Types, Numbers
    <2>3. TypeOK'
      BY <1>2, <2>1 DEF Types, TypeOK
    <2> QED BY <1>2, <2>2, <2>3 DEF Types, Wires
  <1>4. Places(q)'
    <2>1. HandlerStamps' = HandlerStamps
      BY <1>2 DEF HandlerStamps
    <2>2. Activations(q)'
      BY <1>2 DEF Places, Activations
    <2>3. Request(q)'
      BY <1>2, RequestFrame DEF Places
    <2>4. Session(q)'
      BY <1>2 DEF Places, Session, Sent, Subscribed
    <2>5. Server(q)'
      BY <1>1, <1>2 DEF Places, Server, Subscribed
    <2>6. Quiet(q)' /\ Told(q)'
      BY <1>2, <2>1, QuietFrame, ToldFrame DEF Places, Answered, Subscribed
    <2> QED BY <2>2, <2>3, <2>4, <2>5, <2>6 DEF Places
  <1>5. Agree(q)'
    BY <1>2, AgreeFrame
  <1>6. \A k : DataStamps(k)' = DataStamps(k) /\ Stamps(k)' = Stamps(k)
    BY <1>2 DEF DataStamps, Stamps, IsData, HandlerStamps
  <1>7. now \in Nat /\ at \in [Ids -> Nat] /\ store \in Result
    BY DEF Types, TypeOK
  <1>8. Past'
    <2>1. \A ts \in Stamps(Len(toClient)) : ts < now + 1
      BY <1>7 DEF Past
    <2>2. \A j \in Ids : at'[j] < now + 1
      BY <1>2, <1>7 DEF Past
    <2> QED BY <1>2, <1>6, <2>1, <2>2 DEF Past, HandlerStamps
  <1>9. Honest(q)'
    <2> SUFFICES ASSUME NEW k \in 0..Len(toClient), NEW j \in Ids, NEW w \in Values \union {None},
                        Holds(k, j, w)', Matches(q, w), NEW ts \in Stamps(k), at'[j] < ts
                 PROVE  w = store'[j]
      BY <1>2, <1>6 DEF Honest
    <2>1. Holds(k, j, w)
      BY <1>2 DEF Holds, Carries, IsData
    <2>2. ts \in Stamps(Len(toClient))
      <3>1. Len(toClient) \in Nat
        BY Messages DEF Types
      <3>2. \A l \in 1..k : l \in 1..Len(toClient)
        BY <3>1
      <3> QED BY <3>2 DEF Stamps, DataStamps
    <2>3. ts \in Nat /\ ts < now
      BY <2>2 DEF Past
    <2>4. j # i
      BY <1>2, <1>7, <2>3
    <2> QED BY <1>2, <1>7, <2>1, <2>4 DEF Honest
  <1> QED BY <1>3, <1>4, <1>5, <1>8, <1>9

LEMMA UpdateViewsStep ==
  ASSUME NEW q, OneQuery(q), QInv(q), UpdateViews
  PROVE  QInv(q)'
  <1> DEFINE called == {p \in Connected : conn.queries[p].fresh
                                          \/ conn.entities[Entry(p)].of # Answer(p, store)}
  <1>0. conn' = [conn EXCEPT !.calling = called]
    BY DEF UpdateViews
  <1>1. /\ lag /\ conn.calling = {} /\ lag' = FALSE
        /\ UNCHANGED <<store, at, now, link, toServer, toClient, cache, checkpoint, mounted,
                       serverReady, calls, handlers, listener, failed, used>>
    BY DEF UpdateViews, stored, memory
  <1> USE DEF QInv
  <1>2. called \subseteq Queries /\ TypeOK /\ Queries = {q}
    BY DEF Connected, Types, OneQuery
  <1> HIDE DEF called
  <1>3. /\ conn'.canSync = conn.canSync /\ conn'.queries = conn.queries
        /\ conn'.entities = conn.entities /\ conn'.calling = called /\ conn'.tasks = conn.tasks
        /\ conn'.changes = conn.changes /\ conn'.changed = conn.changed
    BY <1>0, <1>2 DEF TypeOK, Conns
  <1>4. Types'
    <2>1. conn' \in Conns
      BY <1>0, <1>2 DEF TypeOK, Conns
    <2>2. TypeOK'
      BY <1>1, <1>2, <2>1 DEF TypeOK
    <2>3. Numbers' /\ Wires'
      BY <1>1 DEF Types, Numbers, Wires
    <2> QED BY <2>2, <2>3 DEF Types
  <1>5. HandlerStamps' = HandlerStamps
    BY <1>1 DEF HandlerStamps
  <1>6. Server(q)'
    <2>1. conn.tasks = {}
      BY <1>1 DEF Places, Server
    <2>2. called # {} => Subscribed(q)
      BY <1>2 DEF called, Connected, Subscribed
    <2>3. Subscribed(q) /\ conn.queries[q].fresh => called = {q}
      BY <1>2 DEF called, Connected, Subscribed
    <2>4. Subscribed(q) /\ called = {} => conn.entities[1].of = Answer(q, store)
      <3>1. Subscribed(q) => Entry(q) = 1
        BY EntryAt DEF Places, Server
      <3> QED BY <1>2, <3>1 DEF called, Connected, Subscribed
    <2> QED BY <1>1, <1>3, <2>1, <2>2, <2>3, <2>4 DEF Places, Server, Subscribed
  <1>7. Session(q)'
    <2>1. /\ serverReady' = serverReady /\ link' = link /\ toServer' = toServer
          /\ toClient' = toClient /\ calls' = calls /\ handlers' = handlers
          /\ mounted' = mounted
      BY <1>1
    <2>2. Sent(q)' = Sent(q) /\ Subscribed(q)' = Subscribed(q)
      BY <1>3, <2>1 DEF Sent, Subscribed
    <2> QED BY <1>3, <2>1, <2>2 DEF Places, Session
  <1>8. Places(q)'
    <2>1. Activations(q)'
      BY <1>1 DEF Places, Activations
    <2>2. Request(q)'
      BY <1>1, <1>3, RequestFrame DEF Places
    <2>3. Quiet(q)' /\ Told(q)'
      BY <1>1, <1>3, <1>5, QuietFrame, ToldFrame DEF Places, Answered, Subscribed
    <2> QED BY <1>6, <1>7, <2>1, <2>2, <2>3 DEF Places
  <1>9. Agree(q)' /\ Honest(q)' /\ Past'
    BY <1>1, <1>3, <1>5, AgreeFrame, StampFrame
  <1> QED BY <1>4, <1>8, <1>9

(* A step that changes nothing but what the server knows of the query.     *)
LEMMA ServerOnly ==
  ASSUME NEW q, QInv(q), lag' \in BOOLEAN, conn' \in Conns, conn'.canSync = conn.canSync,
         UNCHANGED <<store, at, now, link, toServer, toClient, cache, checkpoint, mounted,
                     serverReady, calls, handlers, listener, failed, used>>,
         Subscribed(q)' = Subscribed(q),
         Server(q)', Quiet(q)', Told(q)', Agree(q)'
  PROVE  QInv(q)'
  <1> USE DEF QInv
  <1>1. Types'
    <2>1. TypeOK'
      BY DEF Types, TypeOK
    <2>2. Numbers' /\ Wires'
      BY DEF Types, Numbers, Wires
    <2> QED BY <2>1, <2>2 DEF Types
  <1>2. Activations(q)'
    BY DEF Places, Activations
  <1>3. Sent(q)' = Sent(q) /\ Requested(q)' = Requested(q) /\ Errors' = Errors
    BY DEF Sent, Requested, Errors
  <1>4. Request(q)'
    BY <1>3 DEF Places, Request
  <1>5. Session(q)'
    BY <1>3 DEF Places, Session
  <1>6. Places(q)'
    BY <1>2, <1>4, <1>5 DEF Places
  <1>7. HandlerStamps' = HandlerStamps
    BY DEF HandlerStamps
  <1>8. Honest(q)' /\ Past'
    BY <1>7, StampFrame
  <1> QED BY <1>1, <1>6, <1>8

LEMMA ShownAnswer ==
  ASSUME NEW q, NEW s \in Result, NEW i \in Ids
  PROVE  Shown(q, Answer(q, s)[i]) = Answer(q, s)[i] /\ Shown(q, s[i]) = Answer(q, s)[i]
  BY DEF Shown, Answer, Matches

(* The results of the query are buffered: as a task if the client has to   *)
(* be told of what it has, as changes otherwise.                           *)
LEMMA BufferEntityDataStep ==
  ASSUME NEW q, OneQuery(q), QInv(q), BufferEntityData(q)
  PROVE  QInv(q)'
  <1> DEFINE sub == conn.queries[q]
             results == Answer(q, store)
  <1> USE DEF QInv
  <1>1. TypeOK /\ Queries = {q} /\ results \in Result /\ store \in Result
    BY AnswerType DEF Types, TypeOK, OneQuery
  <1>2. q \in conn.calling /\ conn.calling = {q} /\ ~lag /\ Subscribed(q) /\ conn.tasks = {}
    BY <1>1, ConnType DEF BufferEntityData, Places, Server
  <1>3. PICK X \in Result : conn.entities = <<[query |-> q, of |-> X]>>
    BY <1>2 DEF Places, Server
  <1>4. WithEntities(q, results) = <<[query |-> q, of |-> results]>> /\ conn.entities[1].of = X
    BY <1>3, EntryAt
  <1>5. /\ <<[query |-> q, of |-> results]>> \in Seq([query : Queries, of : Result])
        /\ <<[query |-> q, of |-> results]>>[1].of = results
        /\ <<[query |-> q, of |-> results]>> # <<>>
    BY <1>1
  <1>6. sub \in Subs /\ sub # None
    BY <1>1, <1>2, ConnType DEF Subscribed
  <1>7. /\ lag' = lag
        /\ UNCHANGED <<store, at, now, link, toServer, toClient, cache, checkpoint, mounted,
                       serverReady, calls, handlers, listener, failed, used>>
    BY DEF BufferEntityData, stored, memory
  <1>8. HandlerStamps' = HandlerStamps
    BY <1>7 DEF HandlerStamps
  <1>9. CASE sub.first /\ sub.state # None
    <2> DEFINE task == [query |-> q, of |-> results, state |-> sub.state, orphan |-> FALSE]
    <2>1. conn' = [conn EXCEPT !.calling = {}, !.entities = <<[query |-> q, of |-> results]>>,
                               !.queries = [conn.queries EXCEPT ![q].fresh = FALSE],
                               !.tasks = {task}]
      BY <1>2, <1>4, <1>9 DEF BufferEntityData
    <2>a. /\ [sub EXCEPT !.fresh = FALSE] \in Subs
          /\ [sub EXCEPT !.fresh = FALSE].first /\ ~[sub EXCEPT !.fresh = FALSE].fresh
          /\ [sub EXCEPT !.fresh = FALSE].state = sub.state
      BY <1>6, <1>9 DEF Subs
    <2>2. /\ [conn.queries EXCEPT ![q].fresh = FALSE] \in [Queries -> Subs \union {None}]
          /\ [conn.queries EXCEPT ![q].fresh = FALSE][q] = [sub EXCEPT !.fresh = FALSE]
      BY <1>1, <1>6, <2>a, ConnType
    <2>3. task \in [query : Queries, of : Result, state : State, orphan : BOOLEAN]
      BY <1>1, <1>6 DEF Subs
    <2>4. /\ conn' \in Conns /\ conn'.canSync = conn.canSync
          /\ conn'.queries = [conn.queries EXCEPT ![q].fresh = FALSE]
          /\ conn'.entities = <<[query |-> q, of |-> results]>>
          /\ conn'.calling = {} /\ conn'.tasks = {task}
          /\ conn'.changes = conn.changes /\ conn'.changed = conn.changed
      BY <1>1, <1>5, <2>1, <2>2, <2>3 DEF TypeOK, Conns
    <2>5. /\ conn'.queries[q] = [sub EXCEPT !.fresh = FALSE] /\ conn'.queries[q] \in Subs
          /\ conn'.queries[q].first /\ ~conn'.queries[q].fresh
          /\ conn'.queries[q].state = sub.state
      BY <2>2, <2>4, <2>a
    <2>6. Subscribed(q)' /\ ~Answered(q)' /\ ~Answered(q)
      BY <1>9, <2>5, NotNone DEF Subscribed, Answered
    <2>7. Server(q)'
      BY <1>2, <1>5, <1>7, <1>9, <2>4, <2>5, <2>6, <1>1 DEF Server
    <2>8. Quiet(q)' /\ Agree(q)'
      BY <1>7, <1>8, <2>4, <2>6 DEF Places, Quiet, Agree, IsData
    <2>9. Told(q)'
      BY <1>2, <1>7, <1>8, <1>9, <2>5 DEF Places, Told, Tells
    <2> QED BY <1>1, <1>2, <1>7, <2>4, <2>6, <2>7, <2>8, <2>9, ServerOnly DEF TypeOK
  <1>10. CASE ~(sub.first /\ sub.state # None)
    <2> DEFINE d == Diff(X, results)
               answered == [sub EXCEPT !.fresh = FALSE, !.first = FALSE]
    <2>1. Union(conn.entities) = X /\ Union(<<[query |-> q, of |-> results]>>) = results
      BY <1>1, <1>3, UnionOne
    <2>2. conn' = [conn EXCEPT !.calling = {}, !.entities = <<[query |-> q, of |-> results]>>,
                               !.queries = [conn.queries EXCEPT ![q] = answered],
                               !.changes = Over(conn.changes, d),
                               !.changed = conn.changed \union {q}]
      BY <1>2, <1>4, <1>10, <2>1 DEF BufferEntityData
    <2>a. answered \in Subs /\ ~answered.first /\ ~answered.fresh
      BY <1>6 DEF Subs
    <2> HIDE DEF answered, d
    <2>3. /\ [conn.queries EXCEPT ![q] = answered] \in [Queries -> Subs \union {None}]
          /\ [conn.queries EXCEPT ![q] = answered][q] = answered
      BY <1>1, <1>6, <2>a, ConnType
    <2>4. conn.changes \in Changes /\ d \in Changes /\ Over(conn.changes, d) \in Changes
      BY <1>1, <1>3, ConnType, ChangeTypes DEF d
    <2>5. /\ conn' \in Conns /\ conn'.canSync = conn.canSync
          /\ conn'.queries = [conn.queries EXCEPT ![q] = answered]
          /\ conn'.entities = <<[query |-> q, of |-> results]>>
          /\ conn'.calling = {} /\ conn'.tasks = conn.tasks
          /\ conn'.changes = Over(conn.changes, d)
      BY <1>1, <1>5, <2>2, <2>3, <2>4 DEF TypeOK, Conns
    <2>6. /\ conn'.queries[q] \in Subs
          /\ ~conn'.queries[q].first /\ ~conn'.queries[q].fresh
      BY <2>3, <2>5, <2>a
    <2>7. Subscribed(q)' /\ Answered(q)'
      BY <2>6, NotNone DEF Subscribed, Answered
    <2>8. Server(q)'
      BY <1>2, <1>5, <1>7, <2>5, <2>6, <2>7, <1>1 DEF Server
    <2>9. Quiet(q)'
      BY <2>7 DEF Quiet
    <2>10. Told(q)'
      BY <1>2, <1>7, <1>8, <2>6 DEF Places, Told, Tells
    <2>11. Agree(q)'
      <3> SUFFICES ASSUME NEW i \in Ids, NEW v \in Values \union {None}, Finally(i, v)'
                   PROVE  Shown(q, v) = results[i]
        BY <1>5, <1>7, <2>5 DEF Agree
      <3>1. d[i] = IF X[i] = results[i] THEN "same"
                   ELSE IF results[i] = None THEN "gone" ELSE results[i]
        BY DEF Diff, d
      <3>2. conn'.changes[i] = IF d[i] = "same" THEN conn.changes[i] ELSE d[i]
        BY <2>5 DEF Over
      <3>3. results[i] \in Values \union {None} /\ Shown(q, results[i]) = results[i]
        BY <1>1, ShownAnswer DEF Result
      <3>4. Holds(Len(toClient), i, v)' => Holds(Len(toClient), i, v)
        BY <1>7 DEF Holds, Carries, IsData
      <3>5. CASE X[i] # results[i]
        <4>1. d[i] # "same" /\ Val(d[i]) = results[i]
          BY <3>1, <3>3, <3>5, NotNone DEF Val
        <4> QED BY <3>2, <3>3, <4>1 DEF Finally
      <3>6. CASE X[i] = results[i]
        <4>1. Finally(i, v)
          BY <3>1, <3>2, <3>4, <3>6 DEF Finally
        <4>2. CASE Answered(q)
          BY <1>4, <3>6, <4>1, <4>2 DEF Agree
        <4>3. CASE ~Answered(q)
          <5>1. sub.first /\ sub.state = None /\ sub.fresh
            BY <1>2, <1>10, <4>3 DEF Answered, Places, Server
          <5>2. X = Empty
            BY <1>2, <1>4, <5>1 DEF Places, Server
          <5>3. cache = Empty
            BY <1>2, <5>1 DEF Places, Told, Tells
          <5>4. conn.changes[i] = "same" /\ \A k \in DOMAIN toClient : ~IsData(k)
            BY <4>3 DEF Places, Quiet, NoChanges
          <5>5. v = cache[i]
            <6>1. DOMAIN toClient = 1..Len(toClient)
              BY Messages DEF Types
            <6> QED BY <4>1, <5>4, <6>1 DEF Finally, Holds, Carries
          <5> QED BY <3>3, <3>6, <5>2, <5>3, <5>5 DEF Empty
        <4> QED BY <4>2, <4>3
      <3> QED BY <3>5, <3>6
    <2> QED BY <1>1, <1>2, <1>7, <2>5, <2>7, <2>8, <2>9, <2>10, <2>11, ServerOnly DEF TypeOK
  <1> QED BY <1>9, <1>10

(* The client's first answer, where it said what it has.                   *)
LEMMA BufferedStep ==
  ASSUME NEW q, OneQuery(q), QInv(q), NEW t \in conn.tasks, Buffered(t)
  PROVE  QInv(q)'
  <1> DEFINE sub == conn.queries[q]
             since == SinceCheckpoint(t)
             answered == [sub EXCEPT !.first = FALSE]
             results == Answer(q, store)
  <1> USE DEF QInv
  <1>1. TypeOK /\ Queries = {q} /\ results \in Result /\ store \in Result /\ cache \in Result
    BY AnswerType DEF Types, TypeOK, OneQuery
  <1>2. /\ ~lag /\ conn.calling = {} /\ Subscribed(q) /\ sub.first /\ ~sub.fresh
        /\ sub.state # None
        /\ t = [query |-> q, of |-> conn.entities[1].of, state |-> sub.state, orphan |-> FALSE]
        /\ conn.tasks = {t}
    BY DEF Places, Server
  <1>3. conn.entities[1].of = results
    BY <1>2 DEF Places, Server
  <1>4. t.query = q /\ t.of = results /\ t.state = sub.state /\ t.orphan = FALSE
    BY <1>2, <1>3
  <1>5. sub \in Subs /\ sub # None /\ sub.state \in States
    <2>1. sub \in Subs /\ sub # None
      BY <1>1, <1>2, ConnType DEF Subscribed
    <2> QED BY <1>2, <2>1 DEF Subs, State
  <1>6. /\ lag' = lag
        /\ UNCHANGED <<store, at, now, link, toServer, toClient, cache, checkpoint, mounted,
                       serverReady, calls, handlers, listener, failed, used>>
    BY DEF Buffered, stored, memory
  <1>7. HandlerStamps' = HandlerStamps
    BY <1>6 DEF HandlerStamps
  <1>8. /\ ~Answered(q) /\ conn.changes = NoChanges /\ \A k \in DOMAIN toClient : ~IsData(k)
        /\ sub.state.ts = checkpoint
        /\ sub.state.ids = {i \in Ids : Answer(q, cache)[i] # None}
    BY <1>2 DEF Answered, Places, Quiet, Told, Tells
  <1>9. since \in Changes /\ Over(conn.changes, since) \in Changes
    <2>1. \A i \in Ids : since[i] \in Values \union {"same", "gone"}
      BY <1>1, <1>4 DEF SinceCheckpoint, Result
    <2>2. since \in Changes
      BY <2>1 DEF SinceCheckpoint, Changes
    <2> QED BY <2>2, <1>1, ConnType, ChangeTypes
  <1>10. conn' = [conn EXCEPT !.tasks = {},
                              !.queries = [conn.queries EXCEPT ![q] = answered],
                              !.changes = Over(conn.changes, since),
                              !.changed = conn.changed \union {q}]
    BY <1>2, <1>4 DEF Buffered
  <1>a. answered \in Subs /\ ~answered.first /\ ~answered.fresh
    BY <1>2, <1>5 DEF Subs
  <1> HIDE DEF answered, since
  <1>11. /\ [conn.queries EXCEPT ![q] = answered] \in [Queries -> Subs \union {None}]
         /\ [conn.queries EXCEPT ![q] = answered][q] = answered
    BY <1>1, <1>5, <1>a, ConnType
  <1>12. /\ conn' \in Conns /\ conn'.canSync = conn.canSync
         /\ conn'.queries = [conn.queries EXCEPT ![q] = answered]
         /\ conn'.entities = conn.entities
         /\ conn'.calling = {} /\ conn'.tasks = {}
         /\ conn'.changes = Over(conn.changes, since)
    BY <1>1, <1>2, <1>9, <1>10, <1>11 DEF TypeOK, Conns
  <1>13. /\ conn'.queries[q] \in Subs
         /\ ~conn'.queries[q].first /\ ~conn'.queries[q].fresh
    BY <1>11, <1>12, <1>a
  <1>14. Subscribed(q)' /\ Answered(q)'
    BY <1>13, NotNone DEF Subscribed, Answered
  <1>15. Server(q)'
    BY <1>2, <1>3, <1>6, <1>12, <1>13, <1>14 DEF Places, Server
  <1>16. Quiet(q)'
    BY <1>14 DEF Quiet
  <1>17. Told(q)'
    BY <1>2, <1>6, <1>7, <1>13 DEF Places, Told, Tells
  <1>18. Agree(q)'
    <2> SUFFICES ASSUME NEW i \in Ids, NEW v \in Values \union {None}, Finally(i, v)'
                 PROVE  Shown(q, v) = results[i]
      BY <1>3, <1>6, <1>12 DEF Agree
    <2>1. conn'.changes[i] = since[i]
      BY <1>8, <1>12 DEF Over, NoChanges
    <2>2. results[i] \in Values \union {None} /\ store[i] \in Values \union {None}
          /\ Shown(q, results[i]) = results[i] /\ Shown(q, store[i]) = results[i]
      BY <1>1, ShownAnswer DEF Result
    <2>3. since[i] = IF results[i] # None
                     THEN IF i \in sub.state.ids /\ Unchanged(i, sub.state) THEN "same"
                          ELSE results[i]
                     ELSE IF i \notin sub.state.ids THEN "same"
                     ELSE IF store[i] = None THEN "gone" ELSE store[i]
      BY <1>4 DEF SinceCheckpoint, since
    <2>4. CASE since[i] # "same"
      <3>1. v = Val(since[i])
        BY <2>1, <2>4 DEF Finally
      <3>2. Val(since[i]) \in {results[i], store[i]}
        BY <2>2, <2>3, <2>4, NotNone DEF Val
      <3> QED BY <2>2, <3>1, <3>2
    <2>5. CASE since[i] = "same"
      <3>1. v = cache[i]
        <4>1. DOMAIN toClient = 1..Len(toClient)
          BY Messages DEF Types
        <4>2. Holds(Len(toClient), i, v)
          BY <1>6, <2>1, <2>5 DEF Finally, Holds, Carries, IsData
        <4> QED BY <1>8, <4>1, <4>2 DEF Holds, Carries
      <3>2. CASE results[i] # None
        <4>1. i \in sub.state.ids /\ at[i] < checkpoint
          BY <1>8, <2>2, <2>3, <2>5, <3>2, NotNone DEF Unchanged
        <4>2. Matches(q, cache[i])
          BY <1>8, <4>1 DEF Answer
        <4>3. Holds(0, i, cache[i]) /\ checkpoint \in Stamps(0) /\ 0 \in 0..Len(toClient)
          <5>1. Len(toClient) \in Nat /\ 1..0 = {}
            BY Messages DEF Types
          <5> QED BY <5>1 DEF Holds, Stamps
        <4>4. cache[i] = store[i]
          BY <3>1, <4>1, <4>2, <4>3 DEF Honest
        <4> QED BY <2>2, <3>1, <4>4
      <3>3. CASE results[i] = None
        <4>1. Answer(q, cache)[i] = None
          BY <1>8, <2>2, <2>3, <2>5, <3>3, NotNone
        <4> QED BY <1>1, <3>1, <3>3, <4>1, ShownAnswer
      <3> QED BY <3>2, <3>3
    <2> QED BY <2>4, <2>5
  <1> QED BY <1>1, <1>2, <1>6, <1>12, <1>14, <1>15, <1>16, <1>17, <1>18, ServerOnly DEF TypeOK

(* The changes are flushed: what they lead to is what the server has at    *)
(* the message's timestamp.                                                *)
LEMMA FlushEntityDataStep ==
  ASSUME NEW q, OneQuery(q), QInv(q), FlushEntityData
  PROVE  QInv(q)'
  <1> DEFINE m == Data(conn.changes, now, conn.changed)
  <1> USE DEF QInv
  <1>n. PICK n \in Nat : n = Len(toClient)
    BY Messages DEF Types
  <1>1. TypeOK /\ Wires /\ Queries = {q} /\ store \in Result /\ now \in Nat /\ at \in [Ids -> Nat]
    BY DEF Types, TypeOK, OneQuery
  <1>2. ~lag /\ conn.calling = {} /\ conn.tasks = {} /\ conn.changed # {}
    BY Free DEF FlushEntityData
  <1>3. Answered(q) /\ conn.entities[1].of = Answer(q, store)
    BY <1>2 DEF Places, Quiet, Answered, Server
  <1>4. /\ toClient' = Append(toClient, m) /\ now' = now + 1
        /\ UNCHANGED <<store, at, lag, link, toServer, cache, checkpoint, mounted, serverReady,
                       calls, handlers, listener, failed, used>>
    BY DEF FlushEntityData, stored, memory
  <1>5. m \in ToClient /\ m.type = "ENTITY_DATA" /\ m.changes = conn.changes /\ m.timestamp = now
    BY <1>1, ConnType DEF Data, ToClient
  <1>6. /\ conn' \in Conns /\ conn'.canSync = conn.canSync /\ conn'.queries = conn.queries
        /\ conn'.entities = conn.entities /\ conn'.calling = conn.calling
        /\ conn'.tasks = conn.tasks /\ conn'.changes = NoChanges
    BY <1>1, EmptyType DEF FlushEntityData, TypeOK, Conns
  <1> HIDE DEF m
  <1>7. Types'
    <2>1. now' \in Nat /\ Wires'
      BY <1>1, <1>4, <1>5, SendErrors DEF Wires
    <2>2. TypeOK'
      BY <1>1, <1>4, <1>6, <2>1 DEF TypeOK
    <2>3. Numbers'
      BY <1>4 DEF Types, Numbers
    <2> QED BY <2>1, <2>2, <2>3 DEF Types
  <1>8. HandlerStamps' = HandlerStamps
    BY <1>4 DEF HandlerStamps
  <1>9. Answered(q)' = Answered(q) /\ Subscribed(q)' = Subscribed(q) /\ Sent(q)' = Sent(q)
    BY <1>4, <1>6 DEF Answered, Subscribed, Sent
  <1>10. Places(q)'
    <2>1. Activations(q)'
      BY <1>4 DEF Places, Activations
    <2>2. Request(q)'
      BY <1>1, <1>4, <1>5, <1>6, RequestFrame DEF Places
    <2>3. Session(q)'
      BY <1>3, <1>4, <1>6, <1>9 DEF Places, Session, Answered
    <2>4. Server(q)' /\ Told(q)'
      BY <1>4, <1>6, <1>8, ServerFrame, ToldFrame DEF Places
    <2>5. Quiet(q)'
      BY <1>3, <1>9 DEF Quiet
    <2> QED BY <2>1, <2>2, <2>3, <2>4, <2>5 DEF Places
  <1>11. ASSUME NEW i \in Ids, NEW v
         PROVE  /\ \A k \in 0..n : Holds(k, i, v)' => Holds(k, i, v)
                /\ Holds(n + 1, i, v)' => Finally(i, v)
    <2>1. /\ \A k \in 0..n : Holds(k, i, v)' => Holds(k, i, v)
          /\ Holds(n + 1, i, v)' =>
               IF m.type = "ENTITY_DATA" /\ m.changes[i] # "same" THEN v = Val(m.changes[i])
               ELSE Holds(n, i, v)
      BY <1>1, <1>4, <1>n, SendHolds
    <2> QED BY <1>5, <1>n, <2>1 DEF Finally
  <1>12. n + 1 = Len(toClient') /\ DOMAIN toClient = 1..n
    BY <1>1, <1>4, <1>n, SendAt, Messages
  <1>13. /\ \A k \in 0..n : DataStamps(k)' = DataStamps(k) /\ Stamps(k)' = Stamps(k)
         /\ DataStamps(n + 1)' = DataStamps(n) \union {now}
         /\ Stamps(n + 1)' = Stamps(n) \union {now}
    <2>1. /\ \A k \in 1..n : IsData(k)' = IsData(k) /\ toClient'[k] = toClient[k]
          /\ toClient'[n + 1] = m /\ IsData(n + 1)'
      BY <1>1, <1>4, <1>5, <1>n, SendAt DEF IsData
    <2>2. ASSUME NEW k \in 0..n PROVE DataStamps(k)' = DataStamps(k)
      <3>1. \A j \in 1..k : j \in 1..n
        OBVIOUS
      <3> QED BY <2>1, <3>1 DEF DataStamps
    <2>3. DataStamps(n + 1)' = DataStamps(n) \union {now}
      <3>1. \A j : j \in 1..(n + 1) <=> j \in 1..n \/ j = n + 1
        OBVIOUS
      <3> QED BY <1>5, <2>1, <3>1 DEF DataStamps
    <2> QED BY <1>4, <1>8, <2>2, <2>3 DEF Stamps
  <1>14. Agree(q)'
    <2> SUFFICES ASSUME NEW i \in Ids, NEW v \in Values \union {None}, Finally(i, v)'
                 PROVE  Shown(q, v) = conn.entities[1].of[i]
      BY <1>6 DEF Agree
    <2>1. Holds(n + 1, i, v)'
      BY <1>6, <1>12 DEF Finally, NoChanges
    <2> QED BY <1>3, <1>11, <2>1 DEF Agree
  <1>15. Honest(q)'
    <2> SUFFICES ASSUME NEW k \in 0..(n + 1), NEW i \in Ids, NEW v \in Values \union {None},
                        Holds(k, i, v)', Matches(q, v), NEW ts \in Stamps(k)', at[i] < ts
                 PROVE  v = store[i]
      BY <1>4, <1>12 DEF Honest
    <2>1. CASE k \in 0..n
      <3>1. k \in 0..Len(toClient) /\ Holds(k, i, v) /\ ts \in Stamps(k)
        BY <1>11, <1>13, <1>n, <2>1
      <3> QED BY <3>1 DEF Honest
    <2>2. CASE k = n + 1
      <3>1. Shown(q, v) = Answer(q, store)[i]
        BY <1>3, <1>11, <2>2 DEF Agree
      <3> QED BY <1>1, <3>1 DEF Shown, Answer, Matches
    <2> QED BY <2>1, <2>2
  <1>16. Past'
    <2>1. \A ts \in Stamps(n) \union {now} : ts \in Nat /\ ts < now + 1
      BY <1>1, <1>n DEF Past
    <2>2. now # 0
      <3>1. checkpoint \in Stamps(n)
        BY DEF Stamps
      <3> QED BY <1>1, <1>n, <3>1 DEF Past
    <2>3. \A i \in Ids : at[i] < now + 1
      BY <1>1 DEF Past
    <2> QED BY <1>4, <1>8, <1>12, <1>13, <1>n, <2>1, <2>2, <2>3 DEF Past
  <1> QED BY <1>7, <1>10, <1>14, <1>15, <1>16

(* The session of the server starts.                                       *)
LEMMA ServerStartStep ==
  ASSUME NEW q, OneQuery(q), QInv(q), ServerStart
  PROVE  QInv(q)'
  <1> DEFINE m == [type |-> "READY"]
  <1> USE DEF QInv
  <1>1. TypeOK /\ Wires /\ m \in ToClient /\ m.type = "READY"
    BY DEF Types, ToClient
  <1>2. /\ toClient' = Append(toClient, m) /\ link = "up"
        /\ UNCHANGED <<store, at, now, lag, link, toServer, cache, checkpoint, mounted, serverReady,
                       calls, handlers, listener, failed, used>>
    BY DEF ServerStart, stored, memory
  <1>3. /\ conn' \in Conns /\ conn'.canSync /\ conn'.queries = conn.queries
        /\ conn'.entities = conn.entities /\ conn'.calling = conn.calling
        /\ conn'.tasks = conn.tasks /\ conn'.changes = conn.changes
        /\ conn'.changed = conn.changed
    BY <1>1 DEF ServerStart, TypeOK, Conns
  <1> HIDE DEF m
  <1>4. Types'
    <2>1. Wires'
      BY <1>1, <1>2, SendErrors DEF Wires
    <2>2. TypeOK'
      BY <1>1, <1>2, <1>3 DEF TypeOK
    <2>3. Numbers'
      BY <1>2 DEF Types, Numbers
    <2> QED BY <2>1, <2>2, <2>3 DEF Types
  <1>5. HandlerStamps' = HandlerStamps
    BY <1>2 DEF HandlerStamps
  <1>6. Activations(q)' /\ Server(q)' /\ Told(q)'
    BY <1>2, <1>3, <1>5, ServerFrame, ToldFrame DEF Places, Activations
  <1>7. Request(q)'
    BY <1>1, <1>2, <1>3, RequestFrame DEF Places
  <1>8. Session(q)'
    <2>1. Sent(q)' = Sent(q)
      BY <1>2 DEF Sent
    <2> QED BY <1>2, <1>3, <2>1 DEF Places, Session
  <1>9. Honest(q)' /\ Past' /\ Agree(q)' /\ Quiet(q)'
    BY <1>1, <1>2, <1>3, SendOther DEF Places
  <1> QED BY <1>4, <1>6, <1>7, <1>8, <1>9 DEF Places

(* What the server receives, and what is left of it.                       *)
LEMMA Receive ==
  ASSUME NEW q, OneQuery(q), QInv(q), ServerFree, toServer # <<>>, toServer' = Tail(toServer)
  PROVE  /\ ~Subscribed(q) /\ conn.canSync /\ conn.tasks = {} /\ conn.calling = {} /\ ~lag
         /\ Head(toServer).type = "CONNECT_QUERY" =>
              \E st \in State : /\ toServer = <<Connecting(q, st)>> /\ toServer' = <<>>
                                /\ Head(toServer) = Connecting(q, st)
                                /\ Tells(q, st) /\ Requested(q) /\ Errors = {} /\ Sent(q)
         /\ Head(toServer).type = "DISCONNECT_QUERY" =>
              /\ Head(toServer).query = q
              /\ \/ toServer = <<Disconnecting(q)>> /\ toServer' = <<>>
                 \/ \E st \in State : /\ toServer = <<Disconnecting(q), Connecting(q, st)>>
                                      /\ toServer' = <<Connecting(q, st)>>
         /\ toServer' \in Seq(ToServer)
  <1> USE DEF QInv
  <1>1. /\ ~Subscribed(q) /\ conn.canSync /\ conn.tasks = {} /\ conn.calling = {} /\ ~lag
        /\ toServer' \in Seq(ToServer)
    BY Free DEF Places, Request, Session, Types, Wires
  <1>2. CASE toServer = <<Disconnecting(q)>>
    BY <1>1, <1>2 DEF Disconnecting
  <1>3. CASE \E st \in State : toServer = <<Connecting(q, st)>>
    <2>1. PICK st \in State : toServer = <<Connecting(q, st)>>
      BY <1>3
    <2>2. /\ toServer' = <<>> /\ Len(toServer) = 1 /\ toServer[1] = Connecting(q, st)
          /\ Head(toServer) = Connecting(q, st) /\ DOMAIN toServer = {1}
      BY <2>1
    <2>3. /\ Connecting(q, st).type = "CONNECT_QUERY" /\ Connecting(q, st).state = st
      BY DEF Connecting
    <2>4. Requested(q)
      BY <2>2, <2>3 DEF Requested
    <2>5. Tells(q, st)
      BY <2>2, <2>3 DEF Places, Told
    <2>6. Errors = {} /\ Sent(q)
      BY <2>4 DEF Places, Request
    <2> QED BY <1>1, <2>1, <2>2, <2>3, <2>4, <2>5, <2>6
  <1>4. CASE \E st \in State : toServer = <<Disconnecting(q), Connecting(q, st)>>
    <2>1. PICK st \in State : toServer = <<Disconnecting(q), Connecting(q, st)>>
      BY <1>4
    <2>2. toServer' = <<Connecting(q, st)>> /\ Head(toServer) = Disconnecting(q)
      BY <2>1
    <2> QED BY <1>1, <2>1, <2>2 DEF Disconnecting
  <1> QED BY <1>2, <1>3, <1>4 DEF Places, Request

(* CONNECT_QUERY.                                                          *)
LEMMA HandleConnectQueryStep ==
  ASSUME NEW q, OneQuery(q), QInv(q), HandleConnectQuery
  PROVE  QInv(q)'
  <1> USE DEF QInv
  <1>1. TypeOK /\ Queries = {q}
    BY DEF Types, OneQuery
  <1>2. PICK st \in State :
          /\ toServer = <<Connecting(q, st)>> /\ toServer' = <<>>
          /\ Head(toServer) = Connecting(q, st)
          /\ Tells(q, st) /\ Requested(q) /\ Errors = {} /\ Sent(q)
    BY Receive DEF HandleConnectQuery, Received
  <1>3. ~Subscribed(q) /\ conn.canSync /\ conn.tasks = {} /\ conn.calling = {}
    BY Receive DEF HandleConnectQuery, Received
  <1>4. /\ lag'
        /\ UNCHANGED <<store, at, now, link, toClient, cache, checkpoint, mounted, serverReady,
                       calls, handlers, listener, failed, used>>
    BY <1>3 DEF HandleConnectQuery, stored, memory
  <1> DEFINE sub == [first |-> TRUE, fresh |-> TRUE, state |-> st]
             es == <<[query |-> q, of |-> Empty]>>
  <1>5. Orphaned({}, q) = {} /\ WithEntities(q, Empty) = es
    BY EntryAt DEF Orphaned, Places, Server
  <1>6. conn' = [conn EXCEPT !.entities = es, !.queries = [conn.queries EXCEPT ![q] = sub],
                             !.tasks = {}]
    <2>1. Head(toServer).query = q /\ Head(toServer).state = st
      BY <1>2 DEF Connecting
    <2>2. conn' = [conn EXCEPT !.entities = WithEntities(Head(toServer).query, Empty),
                               !.queries[Head(toServer).query] =
                                 [first |-> TRUE, fresh |-> TRUE, state |-> Head(toServer).state],
                               !.tasks = Orphaned(conn.tasks, Head(toServer).query)]
      BY <1>3 DEF HandleConnectQuery
    <2> QED BY <1>3, <1>5, <2>1, <2>2
  <1>7. /\ sub \in Subs /\ sub.first /\ sub.fresh /\ sub.state = st /\ sub # None
        /\ es \in Seq([query : Queries, of : Result]) /\ es[1].of = Empty /\ es # <<>>
        /\ es = <<[query |-> q, of |-> Empty]>>
    <2>1. sub \in Subs /\ sub.first /\ sub.fresh /\ sub.state = st
      BY DEF Subs
    <2>2. sub # None
      BY <2>1, NotNone
    <2>3. es \in Seq([query : Queries, of : Result]) /\ es[1].of = Empty /\ es # <<>>
      BY <1>1, EmptyType
    <2> QED BY <2>1, <2>2, <2>3
  <1> HIDE DEF sub, es
  <1>8. /\ [conn.queries EXCEPT ![q] = sub] \in [Queries -> Subs \union {None}]
        /\ [conn.queries EXCEPT ![q] = sub][q] = sub
    BY <1>1, <1>7, ConnType
  <1>9. /\ conn' \in Conns /\ conn'.canSync = conn.canSync /\ conn'.queries[q] = sub
        /\ conn'.entities = es /\ conn'.calling = {} /\ conn'.tasks = {}
        /\ conn'.changes = conn.changes /\ conn'.changed = conn.changed
    BY <1>1, <1>3, <1>6, <1>7, <1>8 DEF TypeOK, Conns
  <1>10. Types'
    <2>1. TypeOK'
      BY <1>1, <1>4, <1>9 DEF TypeOK
    <2>2. Wires' /\ Numbers'
      BY <1>2, <1>4 DEF Types, Wires, Numbers
    <2> QED BY <2>1, <2>2 DEF Types
  <1>11. HandlerStamps' = HandlerStamps /\ Errors' = Errors /\ Sent(q)' = Sent(q)
    BY <1>4 DEF HandlerStamps, Errors, Sent
  <1>12. Subscribed(q)' /\ ~Answered(q)' /\ ~Answered(q) /\ ~Requested(q)'
    BY <1>2, <1>3, <1>7, <1>9 DEF Subscribed, Answered, Requested
  <1>13. Places(q)'
    <2>1. Activations(q)'
      BY <1>4 DEF Places, Activations
    <2>2. Request(q)'
      BY <1>2, <1>11, <1>12 DEF Places, Request
    <2>3. Session(q)'
      BY <1>3, <1>4, <1>9, <1>11 DEF Places, Session
    <2>4. Server(q)'
      BY <1>1, <1>4, <1>7, <1>9, <1>12, EmptyType DEF Server
    <2>5. Told(q)'
      <3>1. DOMAIN toServer' = {}
        BY <1>2
      <3> QED BY <1>2, <1>4, <1>7, <1>9, <1>11, <3>1 DEF Places, Told, Tells
    <2>6. Quiet(q)'
      BY <1>4, <1>9, <1>11, <1>12 DEF Places, Quiet, IsData
    <2> QED BY <2>1, <2>2, <2>3, <2>4, <2>5, <2>6 DEF Places
  <1>14. Agree(q)'
    BY <1>12 DEF Agree
  <1>15. Honest(q)' /\ Past'
    BY <1>4, <1>11, StampFrame
  <1> QED BY <1>10, <1>13, <1>14, <1>15

(* CONNECT_QUERY that the server refuses.                                  *)
LEMMA RefuseConnectQueryStep ==
  ASSUME NEW q, OneQuery(q), QInv(q), RefuseConnectQuery
  PROVE  QInv(q)'
  <1> USE DEF QInv
  <1>1. TypeOK /\ Wires /\ Queries = {q}
    BY DEF Types, OneQuery
  <1>2. PICK st \in State :
          /\ toServer = <<Connecting(q, st)>> /\ toServer' = <<>>
          /\ Head(toServer) = Connecting(q, st)
          /\ Tells(q, st) /\ Requested(q) /\ Errors = {} /\ Sent(q)
    BY Receive DEF RefuseConnectQuery, Received
  <1>3. ~Subscribed(q) /\ conn.canSync /\ conn.tasks = {} /\ conn.calling = {}
    BY Receive DEF RefuseConnectQuery, Received
  <1> DEFINE m == [type |-> "ERROR", query |-> q]
             es == <<[query |-> q, of |-> Empty]>>
  <1>4. /\ used' = [used EXCEPT !.errors = @ + 1] /\ toClient' = Append(toClient, m)
        /\ UNCHANGED <<store, at, now, lag, link, cache, checkpoint, mounted, serverReady,
                       calls, handlers, listener, failed>>
    BY <1>2 DEF RefuseConnectQuery, stored, memory, Connecting
  <1>5. WithEntities(q, Empty) = es
    BY EntryAt DEF Places, Server
  <1>6. conn' = [conn EXCEPT !.entities = es]
    BY <1>2, <1>5 DEF RefuseConnectQuery, Connecting
  <1>7. /\ es \in Seq([query : Queries, of : Result]) /\ Empty \in Result
        /\ es = <<[query |-> q, of |-> Empty]>> /\ m \in ToClient /\ m.type = "ERROR"
    BY <1>1, EmptyType DEF ToClient
  <1> HIDE DEF m, es
  <1>8. /\ conn' \in Conns /\ conn'.canSync = conn.canSync /\ conn'.queries = conn.queries
        /\ conn'.entities = es /\ conn'.calling = {} /\ conn'.tasks = {}
        /\ conn'.changes = conn.changes /\ conn'.changed = conn.changed
    BY <1>1, <1>3, <1>6, <1>7 DEF TypeOK, Conns
  <1>9. Types'
    <2>1. TypeOK'
      BY <1>1, <1>4, <1>8 DEF TypeOK
    <2>2. Wires'
      BY <1>1, <1>2, <1>4, <1>7, SendErrors DEF Wires
    <2>3. Numbers'
      BY <1>4 DEF Types, Numbers
    <2> QED BY <2>1, <2>2, <2>3 DEF Types
  <1>10. HandlerStamps' = HandlerStamps /\ Sent(q)' = Sent(q)
    BY <1>4 DEF HandlerStamps, Sent
  <1>11. ~Subscribed(q)' /\ ~Answered(q)' /\ ~Answered(q) /\ ~Requested(q)'
    BY <1>2, <1>3, <1>8 DEF Subscribed, Answered, Requested
  <1>12. Errors' = {Len(toClient) + 1}
    BY <1>1, <1>2, <1>4, <1>7, SendErrors
  <1>13. Honest(q)' /\ Past' /\ Agree(q)' /\ Quiet(q)'
    BY <1>4, <1>7, <1>8, <1>11, SendOther DEF Places
  <1>14. Places(q)'
    <2>1. Activations(q)'
      BY <1>4 DEF Places, Activations
    <2>2. Request(q)'
      BY <1>2, <1>10, <1>11, <1>12 DEF Places, Request
    <2>3. Session(q)'
      BY <1>3, <1>4, <1>8, <1>10 DEF Places, Session
    <2>4. Server(q)'
      BY <1>7, <1>8, <1>11 DEF Server
    <2>5. Told(q)'
      <3>1. DOMAIN toServer' = {}
        BY <1>2
      <3> QED BY <1>4, <1>10, <1>11, <3>1 DEF Places, Told
    <2> QED BY <1>13, <2>1, <2>2, <2>3, <2>4, <2>5 DEF Places
  <1> QED BY <1>9, <1>13, <1>14

(* DISCONNECT_QUERY, which comes when the query is not connected.          *)
LEMMA HandleDisconnectQueryStep ==
  ASSUME NEW q, OneQuery(q), QInv(q), HandleDisconnectQuery
  PROVE  QInv(q)'
  <1> USE DEF QInv
  <1>1. TypeOK /\ Wires /\ Queries = {q}
    BY DEF Types, OneQuery
  <1>2. /\ Head(toServer).query = q
        /\ \/ toServer = <<Disconnecting(q)>> /\ toServer' = <<>>
           \/ \E st \in State : /\ toServer = <<Disconnecting(q), Connecting(q, st)>>
                                /\ toServer' = <<Connecting(q, st)>>
        /\ toServer' \in Seq(ToServer) /\ ~Subscribed(q)
    BY Receive DEF HandleDisconnectQuery, Received
  <1>3. q \notin Connected
    BY <1>2 DEF Connected, Subscribed
  <1>4. UNCHANGED <<conn, store, at, now, lag, link, toClient, cache, checkpoint, mounted,
                    serverReady, calls, handlers, listener, failed, used>>
    BY <1>2, <1>3 DEF HandleDisconnectQuery, stored, memory
  <1>5. Types'
    <2>1. TypeOK'
      BY <1>1, <1>4 DEF TypeOK
    <2>2. Wires' /\ Numbers'
      BY <1>2, <1>4 DEF Types, Wires, Numbers
    <2> QED BY <2>1, <2>2 DEF Types
  <1>6. HandlerStamps' = HandlerStamps /\ Errors' = Errors /\ Sent(q)' = Sent(q)
        /\ Subscribed(q)' = Subscribed(q) /\ Answered(q)' = Answered(q)
    BY <1>4 DEF HandlerStamps, Errors, Sent, Subscribed, Answered
  <1>7. /\ Requested(q)' = Requested(q)
        /\ \/ toServer' = <<>>
           \/ \E st \in State : toServer' = <<Connecting(q, st)>>
        /\ \A k \in DOMAIN toServer' : toServer'[k].type = "CONNECT_QUERY" =>
             \E j \in DOMAIN toServer : /\ toServer[j].type = "CONNECT_QUERY"
                                        /\ toServer[j].state = toServer'[k].state
    <2>1. CASE toServer = <<Disconnecting(q)>> /\ toServer' = <<>>
      BY <2>1 DEF Requested, Disconnecting
    <2>2. CASE \E st \in State : /\ toServer = <<Disconnecting(q), Connecting(q, st)>>
                                 /\ toServer' = <<Connecting(q, st)>>
      <3>1. PICK st \in State : /\ toServer = <<Disconnecting(q), Connecting(q, st)>>
                                /\ toServer' = <<Connecting(q, st)>>
        BY <2>2
      <3>2. /\ Len(toServer) = 2 /\ toServer[2] = Connecting(q, st) /\ 2 \in DOMAIN toServer
            /\ Len(toServer') = 1 /\ toServer'[1] = Connecting(q, st) /\ DOMAIN toServer' = {1}
            /\ toServer # <<>> /\ toServer' # <<>>
        BY <3>1
      <3>3. Requested(q)' = Requested(q)
        BY <3>2 DEF Requested
      <3> QED BY <3>1, <3>2, <3>3
    <2> QED BY <1>2, <2>1, <2>2
  <1>8. Places(q)'
    <2>1. Activations(q)'
      BY <1>4 DEF Places, Activations
    <2>2. Request(q)'
      BY <1>2, <1>6, <1>7 DEF Places, Request
    <2>3. Session(q)'
      <3>1. conn.canSync
        BY Receive DEF HandleDisconnectQuery, Received
      <3> QED BY <1>4, <1>6, <3>1 DEF Places, Session
    <2>4. Server(q)'
      BY <1>4, ServerFrame DEF Places
    <2>5. Told(q)'
      <3>1. \A st : Tells(q, st)' = Tells(q, st)
        BY <1>4 DEF Tells
      <3> QED BY <1>4, <1>6, <1>7, <3>1 DEF Places, Told
    <2>6. Quiet(q)'
      BY <1>4, <1>6, QuietFrame DEF Places
    <2> QED BY <2>1, <2>2, <2>3, <2>4, <2>5, <2>6 DEF Places
  <1>9. Agree(q)'
    BY <1>4, AgreeFrame
  <1>10. Honest(q)' /\ Past'
    BY <1>4, <1>6, StampFrame
  <1> QED BY <1>5, <1>8, <1>9, <1>10

LEMMA SetToSeqSmall ==
  /\ SetToSeq({}) = <<>>
  /\ \A x : SetToSeq({x}) = <<x>>
  <1>1. SetToSeq({}) = <<>>
    <2>1. Cardinality({}) = 0
      BY FS_EmptySet
    <2>2. <<>> \in [1..0 -> {}] /\ \A f \in [1..0 -> {}] : f = <<>>
      OBVIOUS
    <2>3. IsInjective(<<>>)
      BY DEF IsInjective
    <2> QED BY <2>1, <2>2, <2>3 DEF SetToSeq
  <1>2. ASSUME NEW x PROVE SetToSeq({x}) = <<x>>
    <2>1. Cardinality({x}) = 1
      BY FS_Singleton
    <2>2. <<x>> \in [1..1 -> {x}] /\ \A f \in [1..1 -> {x}] : f = <<x>>
      OBVIOUS
    <2>3. IsInjective(<<x>>)
      BY DEF IsInjective
    <2> QED BY <2>1, <2>2, <2>3 DEF SetToSeq
  <1> QED BY <1>1, <1>2

LEMMA AppendSecond ==
  ASSUME NEW a, NEW b
  PROVE  Append(<<a>>, b) = <<a, b>>
  <1>1. <<a, b>> = [k \in 1..2 |-> IF k = 1 THEN a ELSE b]
    OBVIOUS
  <1>2. Append(<<a>>, b) = [k \in 1..2 |-> IF k = 1 THEN a ELSE b]
    OBVIOUS
  <1> QED BY <1>1, <1>2

-----------------------------------------------------------------------------
(* The client.                                                             *)

LEMMA MountTypes ==
  ASSUME TypeOK, NEW q, Queries = {q}
  PROVE  /\ mounted \in [{q} -> Mounts \union {None}]
         /\ mounted[q] # None => /\ mounted[q] \in Mounts
                                 /\ mounted[q].hasSent \in BOOLEAN /\ mounted[q].subCount \in Nat
         /\ \A m \in Mounts : /\ [mounted EXCEPT ![q] = m] \in [Queries -> Mounts \union {None}]
                              /\ [mounted EXCEPT ![q] = m][q] = m /\ m # None
         /\ [mounted EXCEPT ![q] = None] \in [Queries -> Mounts \union {None}]
         /\ [mounted EXCEPT ![q] = None][q] = None
  BY NotNone DEF TypeOK, Mounts

(* A step of the client that sends and receives nothing.                   *)
LEMMA ClientOnly ==
  ASSUME NEW q, QInv(q),
         UNCHANGED <<conn, store, at, now, lag, link, toServer, toClient, cache, serverReady, used>>,
         mounted' \in [Queries -> Mounts \union {None}],
         listener' \in [Listeners -> Queries \union {"new", "gone"}], failed' = failed,
         Sent(q)' = Sent(q), Activations(q)',
         calls' # <<>> => serverReady /\ mounted'[q] # None /\ ~mounted'[q].hasSent,
         handlers' # <<>> => serverReady,
         \/ checkpoint' = checkpoint /\ HandlerStamps' = HandlerStamps
         \/ checkpoint' \in HandlerStamps /\ HandlerStamps' = {}
  PROVE  QInv(q)'
  <1> USE DEF QInv
  <1>0. Wires
    BY DEF Types
  <1>1. HandlerStamps # {} => Answered(q)
    BY DEF Places, Quiet
  <1>2. /\ Answered(q)' = Answered(q) /\ Subscribed(q)' = Subscribed(q)
        /\ Requested(q)' = Requested(q) /\ Errors' = Errors
    BY DEF Answered, Subscribed, Requested, Errors
  <1>3. \A ts \in HandlerStamps : ts \in Nat /\ ts # 0
    BY DEF Past, Stamps
  <1>4. Types'
    <2>1. checkpoint' \in Nat
      BY <1>3 DEF Types, TypeOK
    <2>2. TypeOK'
      BY <2>1 DEF Types, TypeOK
    <2>3. Wires' /\ Numbers'
      BY DEF Types, Wires, Numbers
    <2> QED BY <2>2, <2>3 DEF Types
  <1>5. Request(q)'
    BY <1>2 DEF Places, Request
  <1>6. Session(q)'
    BY <1>2 DEF Places, Session
  <1>7. Server(q)'
    BY ServerFrame DEF Places
  <1>8. Quiet(q)'
    BY <1>1, <1>2, QuietFrame DEF Places
  <1>9. Told(q)'
    <2>1. CASE checkpoint' = checkpoint /\ HandlerStamps' = HandlerStamps
      BY <2>1, ToldFrame DEF Places
    <2>2. CASE checkpoint' \in HandlerStamps /\ HandlerStamps' = {}
      <3>1. Answered(q) /\ checkpoint' # 0
        BY <1>1, <1>3, <2>2
      <3>2. toServer = <<>> /\ Subscribed(q) /\ ~conn.queries[q].first
        BY <3>1 DEF Answered, Places, Request
      <3>3. DOMAIN toServer' = {}
        BY <3>2
      <3> QED BY <3>1, <3>2, <3>3 DEF Told
    <2> QED BY <2>1, <2>2
  <1>10. Agree(q)'
    BY AgreeFrame
  <1>11. Honest(q)' /\ Past'
    <2>1. checkpoint' \in {checkpoint} \union HandlerStamps /\ HandlerStamps' \subseteq HandlerStamps
      OBVIOUS
    <2> QED BY <2>1, StampFrame
  <1> QED BY <1>4, <1>5, <1>6, <1>7, <1>8, <1>9, <1>10, <1>11 DEF Places

LEMMA SubscribeStep ==
  ASSUME NEW q, OneQuery(q), QInv(q), NEW l \in Listeners, Subscribe(l, q)
  PROVE  QInv(q)'
  <1> USE DEF QInv
  <1>1. TypeOK /\ Queries = {q}
    BY DEF Types, OneQuery
  <1>2. calls = <<>> /\ handlers = <<>>
    BY ClientAlone DEF Subscribe
  <1>3. /\ listener' = [listener EXCEPT ![l] = q]
        /\ UNCHANGED <<conn, store, at, now, lag, link, toServer, toClient, cache, checkpoint,
                       serverReady, handlers, failed, used>>
    BY DEF Subscribe, server, stored
  <1>4. listener' \in [Listeners -> Queries \union {"new", "gone"}]
    BY <1>1, <1>3 DEF TypeOK
  <1>5. HandlerStamps' = HandlerStamps
    BY <1>3 DEF HandlerStamps
  <1>6. CASE mounted[q] = None
    <2> DEFINE m == [syncState |-> "NOT_STARTED", hasSent |-> FALSE, subCount |-> 1]
    <2>1. m \in Mounts /\ ~m.hasSent
      BY DEF Mounts
    <2>2. mounted' = [mounted EXCEPT ![q] = m]
      BY <1>6 DEF Subscribe
    <2> HIDE DEF m
    <2>3. /\ mounted' \in [Queries -> Mounts \union {None}]
          /\ mounted'[q] # None /\ ~mounted'[q].hasSent
      BY <1>1, <2>1, <2>2, MountTypes
    <2>4. calls' = <<>> \/ (calls' = <<Call(q, l)>> /\ serverReady)
      <3>1. Append(<<>>, Call(q, l)) = <<Call(q, l)>>
        OBVIOUS
      <3> QED BY <1>2, <1>6, <3>1 DEF Subscribe
    <2>5. Activations(q)'
      BY <1>2, <1>3, <2>4 DEF Activations, Call
    <2>6. Sent(q)' = Sent(q)
      BY <1>6, <2>3 DEF Sent
    <2> QED BY <1>2, <1>3, <1>4, <1>5, <2>3, <2>4, <2>5, <2>6, ClientOnly
  <1>7. CASE mounted[q] # None
    <2> DEFINE m == [mounted[q] EXCEPT !.subCount = @ + 1]
    <2>1. m \in Mounts /\ m.hasSent = mounted[q].hasSent
      BY <1>1, <1>7, MountTypes DEF Mounts
    <2>2. mounted' = [mounted EXCEPT ![q] = m] /\ calls' = calls
      BY <1>7 DEF Subscribe
    <2> HIDE DEF m
    <2>3. /\ mounted' \in [Queries -> Mounts \union {None}]
          /\ mounted'[q] # None /\ mounted'[q].hasSent = mounted[q].hasSent
      BY <1>1, <2>1, <2>2, MountTypes
    <2>4. Activations(q)'
      BY <1>2, <1>3, <2>2 DEF Activations
    <2>5. Sent(q)' = Sent(q)
      BY <1>7, <2>3 DEF Sent
    <2> QED BY <1>2, <1>3, <1>4, <1>5, <2>2, <2>3, <2>4, <2>5, ClientOnly
  <1> QED BY <1>6, <1>7

LEMMA RemoveOnly ==
  ASSUME NEW c PROVE RemoveAt(<<c>>, 1) = <<>> /\ DOMAIN <<c>> = {1} /\ <<c>>[1] = c
  BY DEF RemoveAt

(* The client sends CONNECT_QUERY.  What it says it has is what it has.    *)
LEMMA ConnectQueryStep ==
  ASSUME NEW q, OneQuery(q), QInv(q), NEW k \in DOMAIN calls, ConnectQuery(k)
  PROVE  QInv(q)'
  <1> USE DEF QInv
  <1>1. TypeOK /\ Wires /\ Queries = {q} /\ checkpoint \in Nat
    BY DEF Types, TypeOK, OneQuery
  <1>2. PICK l \in Listeners \union {None} :
          calls = <<[query |-> q, timestamp |-> checkpoint, by |-> l, orphan |-> FALSE]>>
    BY DEF Places, Activations
  <1> DEFINE c == [query |-> q, timestamp |-> checkpoint, by |-> l, orphan |-> FALSE]
             st == QueryState(c)
  <1>3. k = 1 /\ calls[k] = c /\ RemoveAt(calls, k) = <<>> /\ calls # <<>>
    BY <1>2, RemoveOnly
  <1>4. /\ handlers = <<>> /\ serverReady /\ conn.canSync /\ link = "up"
        /\ mounted[q] # None /\ ~Sent(q)
    BY <1>3 DEF Places, Activations, Session, Sent
  <1>5. c.query = q /\ c.timestamp = checkpoint /\ c.orphan = FALSE
    OBVIOUS
  <1>6. /\ calls' = <<>> /\ toServer' = Append(toServer, Connecting(q, st))
        /\ mounted' = [mounted EXCEPT ![q] = [mounted[q] EXCEPT !.syncState = "IN_FLIGHT",
                                                                !.hasSent = TRUE]]
        /\ UNCHANGED <<conn, store, at, now, lag, link, toClient, cache, checkpoint, serverReady,
                       handlers, listener, failed, used>>
    BY <1>3, <1>4, <1>5 DEF ConnectQuery, Connecting, server, stored
  <1>7. HandlerStamps = {} /\ HandlerStamps' = HandlerStamps
    BY <1>4, <1>6 DEF HandlerStamps
  <1>8. st \in State /\ Tells(q, st)
    <2>1. CASE checkpoint = 0
      BY <1>5, <1>7, <2>1 DEF QueryState, Places, Told, Tells, State
    <2>2. CASE checkpoint # 0
      <3>1. st = [ts |-> checkpoint, ids |-> {i \in Ids : Answer(q, cache)[i] # None}]
        BY <1>5, <2>2 DEF QueryState
      <3> HIDE DEF st, c
      <3>2. st \in States
        <4>1. {i \in Ids : Answer(q, cache)[i] # None} \in SUBSET Ids
          OBVIOUS
        <4> QED BY <1>1, <3>1, <4>1 DEF States
      <3>3. st # None
        BY <3>2, NotNone
      <3> QED BY <3>1, <3>2, <3>3 DEF State, Tells
    <2> QED BY <2>1, <2>2
  <1> HIDE DEF st, c
  <1>9. ~Requested(q) /\ ~Subscribed(q) /\ Errors = {}
    BY <1>4 DEF Places, Request
  <1>10. toServer \in {<<>>, <<Disconnecting(q)>>}
    <2>1. ASSUME NEW s, toServer \in {<<Connecting(q, s)>>, <<Disconnecting(q), Connecting(q, s)>>}
          PROVE  FALSE
      <3>1. toServer # <<>> /\ toServer[Len(toServer)] = Connecting(q, s)
        BY <2>1, SMTT(30)
      <3> QED BY <1>9, <3>1 DEF Requested, Connecting
    <2> QED BY <2>1 DEF Places, Request
  <1>11. /\ toServer' \in {<<Connecting(q, st)>>, <<Disconnecting(q), Connecting(q, st)>>}
         /\ toServer' # <<>> /\ toServer'[Len(toServer')] = Connecting(q, st)
         /\ \A j \in DOMAIN toServer' : toServer'[j] \in {Connecting(q, st), Disconnecting(q)}
         /\ toServer' \in Seq(ToServer)
    <2>1. Connecting(q, st) \in ToServer /\ Disconnecting(q) \in ToServer
      BY <1>1, <1>8 DEF Connecting, Disconnecting, ToServer
    <2>2. CASE toServer = <<>>
      BY <1>6, <2>1, <2>2
    <2>3. CASE toServer = <<Disconnecting(q)>>
      <3>1. Append(<<Disconnecting(q)>>, Connecting(q, st)) = <<Disconnecting(q), Connecting(q, st)>>
        BY AppendSecond
      <3>2. toServer' = <<Disconnecting(q), Connecting(q, st)>>
        BY <1>6, <2>3, <3>1
      <3>3. Len(toServer') = 2 /\ DOMAIN toServer' = {1, 2}
            /\ toServer'[1] = Disconnecting(q) /\ toServer'[2] = Connecting(q, st)
        BY <3>2
      <3>4. toServer' \in Seq(ToServer) /\ toServer' # <<>>
        BY <2>1, <3>2
      <3> QED BY <3>2, <3>3, <3>4
    <2> QED BY <1>10, <2>2, <2>3
  <1>12. /\ mounted' \in [Queries -> Mounts \union {None}]
         /\ mounted'[q] # None /\ mounted'[q].hasSent
    <2> DEFINE m == [mounted[q] EXCEPT !.syncState = "IN_FLIGHT", !.hasSent = TRUE]
    <2>1. m \in Mounts /\ m.hasSent
      BY <1>1, <1>4, MountTypes DEF Mounts
    <2>2. mounted' = [mounted EXCEPT ![q] = m]
      BY <1>6
    <2> HIDE DEF m
    <2> QED BY <1>1, <2>1, <2>2, MountTypes
  <1>13. Requested(q)' /\ Sent(q)' /\ ~Subscribed(q)' /\ Errors' = {}
    BY <1>6, <1>9, <1>11, <1>12 DEF Requested, Sent, Subscribed, Errors, Connecting
  <1>14. Types'
    <2>1. TypeOK'
      BY <1>1, <1>6, <1>12 DEF TypeOK
    <2>2. Wires' /\ Numbers'
      BY <1>6, <1>11 DEF Types, Wires, Numbers
    <2> QED BY <2>1, <2>2 DEF Types
  <1>15. Places(q)'
    <2>1. Activations(q)'
      BY <1>4, <1>6 DEF Activations
    <2>2. Request(q)'
      BY <1>8, <1>11, <1>13 DEF Request
    <2>3. Session(q)'
      BY <1>4, <1>6 DEF Places, Session
    <2>4. Server(q)' /\ Quiet(q)'
      BY <1>6, <1>7, ServerFrame, QuietFrame DEF Places, Answered, Subscribed
    <2>5. Told(q)'
      <3>1. \A s : Tells(q, s)' = Tells(q, s)
        BY <1>6 DEF Tells
      <3>2. /\ Connecting(q, st).state = st /\ Disconnecting(q).type = "DISCONNECT_QUERY"
        BY DEF Connecting, Disconnecting
      <3>3. \A j \in DOMAIN toServer' : toServer'[j].type = "CONNECT_QUERY" =>
              Tells(q, toServer[j].state)'
        BY <1>8, <1>11, <3>1, <3>2
      <3> QED BY <1>6, <1>7, <1>13, <3>3 DEF Places, Told
    <2> QED BY <2>1, <2>2, <2>3, <2>4, <2>5 DEF Places
  <1>16. Agree(q)'
    BY <1>6, AgreeFrame
  <1>17. Honest(q)' /\ Past'
    BY <1>6, <1>7, StampFrame
  <1> QED BY <1>14, <1>15, <1>16, <1>17

LEMMA InitializeSyncStep ==
  ASSUME NEW q, OneQuery(q), QInv(q), NEW k \in DOMAIN handlers, InitializeSync(k)
  PROVE  QInv(q)'
  <1> USE DEF QInv
  <1>1. TypeOK /\ Queries = {q}
    BY DEF Types, OneQuery
  <1>2. PICK m \in ToClient : handlers = <<m>>
    BY DEF Places, Activations
  <1>3. k = 1 /\ RemoveAt(handlers, k) = <<>> /\ handlers # <<>> /\ m.type = "READY"
        /\ DOMAIN handlers = {1} /\ handlers[1] = m
    BY <1>2, RemoveOnly DEF InitializeSync
  <1>4. calls = <<>> /\ serverReady
    BY <1>3 DEF Places, Activations, Session
  <1>5. /\ handlers' = <<>>
        /\ UNCHANGED <<conn, store, at, now, lag, link, toServer, toClient, cache, checkpoint,
                       serverReady, mounted, listener, failed, used>>
    BY <1>3 DEF InitializeSync, server, stored
  <1>6. HandlerStamps = {} /\ HandlerStamps' = {}
    BY <1>3, <1>5 DEF HandlerStamps
  <1>7. calls' = <<>> \/ (calls' = <<Call(q, None)>> /\ mounted[q] # None /\ ~mounted[q].hasSent)
    <2>1. calls' = <<>> \o SetToSeq({Call(p, None) : p \in Unsent})
      BY <1>4 DEF InitializeSync
    <2>2. CASE Unsent = {}
      <3>1. {Call(p, None) : p \in Unsent} = {}
        BY <2>2
      <3>2. SetToSeq({Call(p, None) : p \in Unsent}) = <<>>
        BY <3>1, SetToSeqSmall
      <3>3. <<>> \o <<>> = <<>>
        OBVIOUS
      <3> QED BY <2>1, <3>2, <3>3
    <2>3. CASE q \in Unsent
      <3>1. {Call(p, None) : p \in Unsent} = {Call(q, None)}
        BY <1>1, <2>3 DEF Unsent
      <3>2. <<>> \o <<Call(q, None)>> = <<Call(q, None)>>
        OBVIOUS
      <3> QED BY <2>1, <2>3, <3>1, <3>2, SetToSeqSmall DEF Unsent
    <2> QED BY <1>1, <2>2, <2>3 DEF Unsent
  <1>8. Activations(q)'
    BY <1>5, <1>7 DEF Activations, Call
  <1>9. Sent(q)' = Sent(q) /\ mounted' \in [Queries -> Mounts \union {None}]
        /\ listener' \in [Listeners -> Queries \union {"new", "gone"}]
    BY <1>1, <1>5 DEF Sent, TypeOK
  <1> QED BY <1>4, <1>5, <1>6, <1>7, <1>8, <1>9, ClientOnly

(* ENTITY_DATA is stored: its timestamp becomes the checkpoint.            *)
LEMMA EntityDataStoredStep ==
  ASSUME NEW q, OneQuery(q), QInv(q), NEW k \in DOMAIN handlers, EntityDataStored(k)
  PROVE  QInv(q)'
  <1> USE DEF QInv
  <1>1. TypeOK /\ Queries = {q}
    BY DEF Types, OneQuery
  <1>2. PICK m \in ToClient : handlers = <<m>>
    BY DEF Places, Activations
  <1>3. k = 1 /\ RemoveAt(handlers, k) = <<>> /\ handlers # <<>> /\ m.type = "ENTITY_DATA"
        /\ DOMAIN handlers = {1} /\ handlers[1] = m
    BY <1>2, RemoveOnly DEF EntityDataStored
  <1>4. calls = <<>> /\ serverReady
    BY <1>3 DEF Places, Activations, Session
  <1>5. /\ handlers' = <<>> /\ checkpoint' = m.timestamp
        /\ UNCHANGED <<conn, store, at, now, lag, link, toServer, toClient, cache,
                       serverReady, calls, listener, failed, used>>
    BY <1>3 DEF EntityDataStored, server
  <1>6. m.timestamp \in HandlerStamps /\ HandlerStamps' = {}
    BY <1>3, <1>5 DEF HandlerStamps
  <1>7. /\ mounted' \in [Queries -> Mounts \union {None}] /\ Sent(q)' = Sent(q)
    <2>1. \/ mounted' = [p \in Queries |-> mounted[p]]
          \/ /\ mounted[q] # None
             /\ mounted' = [p \in Queries |-> [mounted[q] EXCEPT !.syncState = "FULFILLED"]]
      BY <1>1, <1>3 DEF EntityDataStored
    <2>2. mounted[q] # None => /\ [mounted[q] EXCEPT !.syncState = "FULFILLED"] \in Mounts
                               /\ [mounted[q] EXCEPT !.syncState = "FULFILLED"] # None
                               /\ [mounted[q] EXCEPT !.syncState = "FULFILLED"].hasSent
                                    = mounted[q].hasSent
      <3> SUFFICES ASSUME mounted[q] # None
                   PROVE  /\ [mounted[q] EXCEPT !.syncState = "FULFILLED"] \in Mounts
                          /\ [mounted[q] EXCEPT !.syncState = "FULFILLED"].hasSent
                                    = mounted[q].hasSent
        BY NotNone
      <3> QED BY <1>1, MountTypes DEF Mounts
    <2>3. CASE mounted' = [p \in Queries |-> mounted[p]]
      BY <1>1, <2>3, MountTypes DEF Sent
    <2>4. CASE /\ mounted[q] # None
               /\ mounted' = [p \in Queries |-> [mounted[q] EXCEPT !.syncState = "FULFILLED"]]
      <3> DEFINE mq == [mounted[q] EXCEPT !.syncState = "FULFILLED"]
      <3>1. mq \in Mounts /\ mq # None /\ mq.hasSent = mounted[q].hasSent
        BY <2>2, <2>4
      <3> HIDE DEF mq
      <3>2. mounted' = [p \in Queries |-> mq]
        BY <2>4 DEF mq
      <3> QED BY <1>1, <2>4, <3>1, <3>2 DEF Sent
    <2> QED BY <2>1, <2>3, <2>4
  <1>8. Activations(q)' /\ listener' \in [Listeners -> Queries \union {"new", "gone"}]
    BY <1>1, <1>4, <1>5 DEF Activations, TypeOK
  <1> QED BY <1>4, <1>5, <1>6, <1>7, <1>8, ClientOnly

(* The first message that the client handles.                              *)
LEMMA Arrival ==
  ASSUME NEW q, OneQuery(q), QInv(q), NEW type, Arrived(type), toClient' = Tail(toClient)
  PROVE  /\ calls = <<>> /\ handlers = <<>> /\ HandlerStamps = {}
         /\ toClient # <<>> /\ Head(toClient) = toClient[1] /\ 1 \in DOMAIN toClient
         /\ toClient[1] \in ToClient /\ toClient[1].type = type
         /\ toClient' \in Seq(ToClient) /\ conn.canSync /\ link = "up"
  <1> USE DEF QInv
  <1>1. calls = <<>> /\ handlers = <<>> /\ HandlerStamps = {} /\ toClient # <<>>
        /\ Head(toClient).type = type
    BY ClientAlone DEF Arrived
  <1>2. Wires
    BY DEF Types
  <1>3. Head(toClient) = toClient[1] /\ 1 \in DOMAIN toClient /\ toClient' \in Seq(ToClient)
    BY <1>1, <1>2 DEF Wires
  <1>4. toClient[1] \in ToClient
    BY <1>2, <1>3 DEF Wires
  <1>5. conn.canSync /\ link = "up"
    BY <1>1 DEF Places, Session
  <1> QED BY <1>1, <1>3, <1>4, <1>5

LEMMA HandleReadyStep ==
  ASSUME NEW q, OneQuery(q), QInv(q), HandleReady
  PROVE  QInv(q)'
  <1> USE DEF QInv
  <1>1. TypeOK /\ Wires
    BY DEF Types
  <1>2. /\ toClient' = Tail(toClient) /\ serverReady' = TRUE
        /\ UNCHANGED <<conn, store, at, now, lag, link, toServer, cache, checkpoint, mounted, calls,
                       listener, failed, used>>
    BY DEF HandleReady, server, stored
  <1>3. /\ calls = <<>> /\ handlers = <<>> /\ HandlerStamps = {}
        /\ toClient # <<>> /\ Head(toClient) = toClient[1]
        /\ toClient[1] \in ToClient /\ toClient[1].type = "READY"
        /\ toClient' \in Seq(ToClient) /\ conn.canSync /\ link = "up"
    BY <1>2, Arrival DEF HandleReady
  <1>4. handlers' = <<>> \/ handlers' = <<toClient[1]>>
    <2>1. Append(<<>>, toClient[1]) = <<toClient[1]>>
      OBVIOUS
    <2> QED BY <1>3, <2>1 DEF HandleReady
  <1>5. HandlerStamps' = {}
    <2>1. \A j \in DOMAIN handlers' : handlers'[j].type = "READY"
      BY <1>3, <1>4
    <2> QED BY <2>1 DEF HandlerStamps
  <1>6. Types'
    <2>1. TypeOK'
      BY <1>1, <1>2 DEF TypeOK
    <2>2. Wires' /\ Numbers'
      BY <1>2, <1>3 DEF Types, Wires, Numbers
    <2> QED BY <2>1, <2>2 DEF Types
  <1>7. Honest(q)' /\ Past' /\ Agree(q)' /\ Quiet(q)'
    <2>1. ~IsData(1)
      BY <1>3 DEF IsData
    <2> QED BY <1>2, <1>3, <1>5, <2>1, PopData DEF Places
  <1>8. Activations(q)'
    BY <1>2, <1>3, <1>4 DEF Activations
  <1>9. Request(q)'
    BY <1>1, <1>2, <1>3, RequestFrame DEF Places
  <1>10. Session(q)'
    <2>1. Sent(q)' = Sent(q)
      BY <1>2 DEF Sent
    <2> QED BY <1>2, <1>3, <2>1 DEF Places, Session
  <1>11. Server(q)' /\ Told(q)'
    BY <1>2, <1>3, <1>5, ServerFrame, ToldFrame DEF Places
  <1> QED BY <1>6, <1>7, <1>8, <1>9, <1>10, <1>11 DEF Places

(* ENTITY_DATA: the client has the changes from now on.                    *)
LEMMA HandleEntityDataStep ==
  ASSUME NEW q, OneQuery(q), QInv(q), HandleEntityData
  PROVE  QInv(q)'
  <1> USE DEF QInv
  <1>1. TypeOK /\ Wires
    BY DEF Types
  <1>2. /\ toClient' = Tail(toClient)
        /\ UNCHANGED <<conn, store, at, now, lag, link, toServer, checkpoint, mounted, serverReady,
                       calls, listener, failed, used>>
    BY DEF HandleEntityData, server
  <1>3. /\ calls = <<>> /\ handlers = <<>> /\ HandlerStamps = {}
        /\ toClient # <<>> /\ Head(toClient) = toClient[1] /\ 1 \in DOMAIN toClient
        /\ toClient[1] \in ToClient /\ toClient[1].type = "ENTITY_DATA"
        /\ toClient' \in Seq(ToClient) /\ conn.canSync /\ link = "up"
    BY <1>2, Arrival DEF HandleEntityData
  <1>4. handlers' = <<toClient[1]>> /\ cache' = Apply(cache, toClient[1].changes)
    <2>1. Append(<<>>, toClient[1]) = <<toClient[1]>>
      OBVIOUS
    <2> QED BY <1>3, <2>1 DEF HandleEntityData
  <1>5. HandlerStamps' = {toClient[1].timestamp}
    <2>1. DOMAIN handlers' = {1} /\ handlers'[1] = toClient[1]
      BY <1>4
    <2> QED BY <1>3, <2>1 DEF HandlerStamps
  <1>6. IsData(1) /\ Answered(q)
    BY <1>3 DEF IsData, Places, Quiet
  <1>7. toServer = <<>> /\ Sent(q) /\ serverReady /\ ~conn.queries[q].first
    BY <1>6 DEF Answered, Places, Request, Session
  <1>8. Types'
    <2>1. cache' \in Result
      <3>1. toClient[1].changes \in Changes
        BY <1>1, <1>3, <1>6, Messages
      <3> QED BY <1>1, <1>4, <3>1, EmptyType, ChangeTypes DEF TypeOK
    <2>2. TypeOK'
      BY <1>1, <1>2, <2>1 DEF TypeOK
    <2>3. Wires' /\ Numbers'
      BY <1>2, <1>3 DEF Types, Wires, Numbers
    <2> QED BY <2>2, <2>3 DEF Types
  <1>9. Honest(q)' /\ Past' /\ Agree(q)' /\ Quiet(q)'
    BY <1>2, <1>3, <1>4, <1>5, <1>6, PopData DEF Places
  <1>10. Activations(q)'
    BY <1>2, <1>3, <1>4 DEF Activations
  <1>11. Request(q)'
    BY <1>1, <1>2, <1>3, RequestFrame DEF Places
  <1>12. Session(q)'
    <2>1. Sent(q)' = Sent(q)
      BY <1>2 DEF Sent
    <2> QED BY <1>2, <1>3, <1>7, <2>1 DEF Places, Session
  <1>13. Server(q)'
    BY <1>2, ServerFrame DEF Places
  <1>14. Told(q)'
    <2>1. DOMAIN toServer' = {}
      BY <1>2, <1>7
    <2> QED BY <1>2, <1>5, <1>7, <2>1 DEF Told
  <1> QED BY <1>8, <1>9, <1>10, <1>11, <1>12, <1>13, <1>14 DEF Places

(* ERROR: the client gives the query up, and says so to the server.        *)
LEMMA HandleErrorStep ==
  ASSUME NEW q, OneQuery(q), QInv(q), HandleError
  PROVE  QInv(q)'
  <1> USE DEF QInv
  <1>1. TypeOK /\ Wires /\ Queries = {q}
    BY DEF Types, OneQuery
  <1>2. /\ toClient' = Tail(toClient)
        /\ UNCHANGED <<conn, store, at, now, lag, link, cache, checkpoint, serverReady, handlers,
                       listener, used>>
    BY DEF HandleError, server, stored
  <1>3. /\ calls = <<>> /\ handlers = <<>> /\ HandlerStamps = {}
        /\ toClient # <<>> /\ Head(toClient) = toClient[1] /\ 1 \in DOMAIN toClient
        /\ toClient[1] \in ToClient /\ toClient[1].type = "ERROR"
        /\ toClient' \in Seq(ToClient) /\ conn.canSync /\ link = "up"
    BY <1>2, Arrival DEF HandleError
  <1>4. Head(toClient).query = q
    BY <1>1, <1>3 DEF ToClient
  <1>5. 1 \in Errors /\ \A k \in Errors : k = 1
    BY <1>3 DEF Errors, Places, Request
  <1>6. Sent(q) /\ toServer = <<>> /\ ~Subscribed(q)
    BY <1>5 DEF Places, Request
  <1>7. /\ toServer' = <<Disconnecting(q)>> /\ mounted' = [mounted EXCEPT ![q] = None]
        /\ failed' \in SUBSET Listeners
    <2>1. mounted[q] # None /\ mounted[q].hasSent
      BY <1>6 DEF Sent
    <2>2. Disconnect(q) /\ failed' = failed \union {l \in Listeners : listener[l] = q}
      BY <1>4, <2>1 DEF HandleError
    <2>3. Append(<<>>, Disconnecting(q)) = <<Disconnecting(q)>>
      OBVIOUS
    <2> QED BY <1>1, <1>3, <1>6, <2>1, <2>2, <2>3 DEF Disconnect, Disconnecting, TypeOK
  <1>8. calls' = <<>>
    <2>1. mounted[q] # None
      BY <1>6 DEF Sent
    <2>2. calls' = [k \in DOMAIN calls |-> [calls[k] EXCEPT !.orphan = @ \/ calls[k].query = q]]
      BY <1>4, <2>1 DEF HandleError, Disconnect
    <2>3. DOMAIN calls = {}
      BY <1>3
    <2> QED BY <2>2, <2>3
  <1>9. mounted' \in [Queries -> Mounts \union {None}] /\ mounted'[q] = None
    BY <1>1, <1>7, MountTypes
  <1>10. Types'
    <2>1. TypeOK'
      BY <1>1, <1>2, <1>7, <1>9 DEF TypeOK
    <2>2. Wires'
      <3>1. Disconnecting(q) \in ToServer
        BY <1>1 DEF Disconnecting, ToServer
      <3> QED BY <1>3, <1>7, <3>1 DEF Wires
    <2>3. Numbers'
      BY <1>2 DEF Types, Numbers
    <2> QED BY <2>1, <2>2, <2>3 DEF Types
  <1>11. HandlerStamps' = {}
    BY <1>2, <1>3 DEF HandlerStamps
  <1>12. Honest(q)' /\ Past' /\ Agree(q)' /\ Quiet(q)'
    <2>1. ~IsData(1)
      BY <1>3 DEF IsData
    <2> QED BY <1>2, <1>3, <1>11, <2>1, PopData DEF Places
  <1>13. Errors' = {}
    <2>1. \A k \in Errors' : k + 1 \in Errors
      BY <1>1, <1>2, <1>3, PopErrors
    <2>2. \A k \in Errors' : k \in 1..Len(toClient')
      BY <1>3 DEF Errors
    <2>3. Len(toClient') \in Nat
      BY <1>3
    <2> QED BY <1>5, <2>1, <2>2, <2>3
  <1>14. ~Requested(q)' /\ ~Sent(q)' /\ ~Subscribed(q)'
    <2>1. toServer' # <<>> /\ Len(toServer') = 1 /\ toServer'[1] = Disconnecting(q)
      BY <1>7
    <2> QED BY <1>2, <1>6, <1>9, <2>1 DEF Requested, Sent, Subscribed, Disconnecting
  <1>15. Activations(q)'
    BY <1>2, <1>3, <1>8 DEF Activations
  <1>16. Request(q)'
    BY <1>7, <1>13, <1>14 DEF Request
  <1>17. Session(q)'
    BY <1>2, <1>3, <1>8, <1>14 DEF Places, Session
  <1>18. Server(q)'
    BY <1>2, ServerFrame DEF Places
  <1>19. Told(q)'
    <2>1. \A k \in DOMAIN toServer' : toServer'[k].type = "DISCONNECT_QUERY"
      <3>1. DOMAIN toServer' = {1} /\ toServer'[1] = Disconnecting(q)
        BY <1>7
      <3> QED BY <3>1 DEF Disconnecting
    <2> QED BY <1>2, <1>3, <1>14, <2>1 DEF Places, Told
  <1> QED BY <1>10, <1>12, <1>15, <1>16, <1>17, <1>18, <1>19 DEF Places

-----------------------------------------------------------------------------
(* The connection.                                                         *)

LEMMA NewConnType ==
  /\ NewConn \in Conns /\ ~NewConn.canSync
  /\ \A q \in Queries : NewConn.queries[q] = None
  /\ NewConn.entities = <<>> /\ NewConn.calling = {} /\ NewConn.tasks = {}
  /\ NewConn.changes = NoChanges /\ NewConn.changed = {}
  BY EmptyType DEF NewConn, Conns

(* With nothing on its way, only the checkpoint has to be honest.          *)
LEMMA AloneNext ==
  ASSUME NEW q, toClient' = <<>>, HandlerStamps' = {}, UNCHANGED <<cache, checkpoint>>
  PROVE  /\ \A k \in 0..Len(toClient') : Stamps(k)' = {checkpoint}
         /\ \A k \in 0..Len(toClient') : \A i, v : Holds(k, i, v)' => v = cache[i]
         /\ DataStamps(Len(toClient))' = {} /\ Stamps(Len(toClient))' = {checkpoint}
         /\ \A k \in DOMAIN toClient' : ~IsData(k)'
         /\ Errors' = {}
  <1>1. Len(toClient') = 0 /\ DOMAIN toClient' = {} /\ 1..0 = {} /\ 0..0 = {0}
    OBVIOUS
  <1>2. \A k \in 0..Len(toClient') : k = 0
    BY <1>1
  <1>3. \A j \in 1..0 : FALSE
    BY <1>1
  <1>4. DataStamps(0)' = {}
    BY <1>3 DEF DataStamps
  <1>5. \A i, v : Holds(0, i, v)' => v = cache[i]
    BY <1>3 DEF Holds
  <1>6. Stamps(0)' = {checkpoint}
    BY <1>4 DEF Stamps
  <1>7. DataStamps(Len(toClient))' = {} /\ Stamps(Len(toClient))' = {checkpoint}
    BY <1>1, <1>3 DEF DataStamps, Stamps
  <1>8. Errors' = {} /\ \A k \in DOMAIN toClient' : ~IsData(k)'
    BY <1>1 DEF Errors
  <1> QED BY <1>2, <1>5, <1>6, <1>7, <1>8

LEMMA DropStep ==
  ASSUME NEW q, OneQuery(q), QInv(q), Drop
  PROVE  QInv(q)'
  <1> USE DEF QInv
  <1>1. TypeOK /\ Queries = {q}
    BY DEF Types, OneQuery
  <1>2. /\ link' = "down" /\ conn' = NewConn /\ toServer' = <<>> /\ toClient' = <<>>
        /\ serverReady' = FALSE /\ mounted' = Reset(mounted)
        /\ used' = [used EXCEPT !.drops = @ + 1]
        /\ UNCHANGED <<store, at, now, lag, cache, checkpoint, calls, handlers, listener, failed>>
    BY DEF Drop, stored
  <1>3. calls = <<>> /\ handlers = <<>> /\ HandlerStamps = {}
    BY ClientAlone DEF Drop
  <1>4. HandlerStamps' = {}
    BY <1>2, <1>3 DEF HandlerStamps
  <1>5. /\ conn' \in Conns /\ ~conn'.canSync /\ conn'.queries[q] = None
        /\ conn'.entities = <<>> /\ conn'.calling = {} /\ conn'.tasks = {}
        /\ conn'.changes = NoChanges /\ conn'.changed = {}
    BY <1>1, <1>2, NewConnType
  <1>6. mounted' \in [Queries -> Mounts \union {None}] /\ ~Sent(q)'
    <2>1. mounted[q] # None => [mounted[q] EXCEPT !.hasSent = FALSE, !.syncState = "NOT_STARTED"]
                                  \in Mounts
      BY <1>1, MountTypes DEF Mounts
    <2>2. mounted' = [p \in Queries |-> IF mounted[p] = None THEN None
                        ELSE [mounted[p] EXCEPT !.hasSent = FALSE, !.syncState = "NOT_STARTED"]]
      BY <1>2 DEF Reset
    <2>3. mounted[q] # None => ~[mounted[q] EXCEPT !.hasSent = FALSE,
                                                   !.syncState = "NOT_STARTED"].hasSent
      BY <1>1, MountTypes DEF Mounts
    <2> QED BY <1>1, <2>1, <2>2, <2>3 DEF Sent
  <1>7. Types'
    <2>1. TypeOK'
      BY <1>1, <1>2, <1>5, <1>6 DEF TypeOK
    <2>2. Wires'
      BY <1>2 DEF Wires
    <2>3. Numbers'
      BY <1>2 DEF Types, Numbers
    <2> QED BY <2>1, <2>2, <2>3 DEF Types
  <1>8. ~Requested(q)' /\ ~Subscribed(q)' /\ ~Answered(q)'
    BY <1>2, <1>5 DEF Requested, Subscribed, Answered
  <1>9. /\ \A k \in 0..Len(toClient') : Stamps(k)' = {checkpoint}
        /\ \A k \in 0..Len(toClient') : \A i, v : Holds(k, i, v)' => v = cache[i]
        /\ DataStamps(Len(toClient))' = {} /\ Stamps(Len(toClient))' = {checkpoint}
        /\ \A k \in DOMAIN toClient' : ~IsData(k)'
        /\ Errors' = {}
    BY <1>2, <1>4, AloneNext
  <1>10. Places(q)'
    <2>1. Activations(q)'
      BY <1>2, <1>3 DEF Activations
    <2>2. Request(q)'
      BY <1>2, <1>6, <1>8, <1>9 DEF Request
    <2>3. Session(q)'
      BY <1>2, <1>3, <1>5, <1>6, <1>8 DEF Session
    <2>4. Server(q)'
      BY <1>5, <1>8 DEF Server
    <2>5. Quiet(q)'
      BY <1>4, <1>5, <1>9 DEF Quiet
    <2>6. Told(q)'
      <3>1. DOMAIN toServer' = {}
        BY <1>2
      <3> QED BY <1>2, <1>3, <1>8, <3>1 DEF Places, Told
    <2> QED BY <2>1, <2>2, <2>3, <2>4, <2>5, <2>6 DEF Places
  <1>11. Agree(q)'
    BY <1>8 DEF Agree
  <1>12. checkpoint \in Stamps(0) /\ checkpoint \in Stamps(Len(toClient)) /\ 0 \in 0..Len(toClient)
         /\ \A i \in Ids : Holds(0, i, cache[i])
    <2>1. Len(toClient) \in Nat /\ 1..0 = {}
      BY Messages DEF Types
    <2> QED BY <2>1 DEF Stamps, Holds
  <1>13. Honest(q)'
    <2> SUFFICES ASSUME NEW k \in 0..Len(toClient'), NEW i \in Ids, NEW v \in Values \union {None},
                        Holds(k, i, v)', Matches(q, v), NEW ts \in Stamps(k)', at[i] < ts
                 PROVE  v = store[i]
      BY <1>2 DEF Honest
    <2>1. v = cache[i] /\ ts = checkpoint
      BY <1>9
    <2> QED BY <1>12, <2>1 DEF Honest
  <1>14. Past'
    BY <1>2, <1>4, <1>9, <1>12 DEF Past
  <1> QED BY <1>7, <1>10, <1>11, <1>13, <1>14

LEMMA OpenStep ==
  ASSUME NEW q, QInv(q), Open
  PROVE  QInv(q)'
  <1> USE DEF QInv
  <1>1. /\ link = "down" /\ link' = "up"
        /\ UNCHANGED <<conn, store, at, now, lag, toServer, toClient, cache, checkpoint, mounted,
                       serverReady, calls, handlers, listener, failed, used>>
    BY DEF Open, server, stored, memory
  <1>2. Types'
    <2>1. TypeOK'
      BY <1>1 DEF Types, TypeOK
    <2>2. Wires' /\ Numbers'
      BY <1>1 DEF Types, Wires, Numbers
    <2> QED BY <2>1, <2>2 DEF Types
  <1>3. HandlerStamps' = HandlerStamps /\ Sent(q)' = Sent(q) /\ Subscribed(q)' = Subscribed(q)
        /\ Answered(q)' = Answered(q)
    BY <1>1 DEF HandlerStamps, Sent, Subscribed, Answered
  <1>4. Places(q)'
    <2>1. Activations(q)'
      BY <1>1 DEF Places, Activations
    <2>2. Request(q)'
      BY <1>1, RequestFrame DEF Places
    <2>3. Session(q)'
      BY <1>1, <1>3 DEF Places, Session
    <2>4. Server(q)' /\ Quiet(q)' /\ Told(q)'
      BY <1>1, <1>3, ServerFrame, QuietFrame, ToldFrame DEF Places
    <2> QED BY <2>1, <2>2, <2>3, <2>4 DEF Places
  <1>5. Agree(q)' /\ Honest(q)' /\ Past'
    BY <1>1, <1>3, AgreeFrame, StampFrame
  <1> QED BY <1>2, <1>4, <1>5

LEMMA StutterStep ==
  ASSUME NEW q, QInv(q), UNCHANGED vars
  PROVE  QInv(q)'
  <1> USE DEF QInv
  <1>1. UNCHANGED <<conn, store, at, now, lag, link, toServer, toClient, cache, checkpoint, mounted,
                    serverReady, calls, handlers, listener, failed, used>>
    BY DEF vars, server, stored, memory
  <1>2. TypeOK'
    BY <1>1 DEF Types, TypeOK
  <1>3. HandlerStamps' = HandlerStamps /\ Sent(q)' = Sent(q) /\ Activations(q)'
    BY <1>1 DEF HandlerStamps, Sent, Places, Activations
  <1>4. /\ calls' # <<>> => serverReady /\ mounted'[q] # None /\ ~mounted'[q].hasSent
        /\ handlers' # <<>> => serverReady
    BY <1>1 DEF Places, Session
  <1> QED BY <1>1, <1>2, <1>3, <1>4, ClientOnly DEF TypeOK

-----------------------------------------------------------------------------
(* The invariant.                                                          *)

LEMMA QInvInit ==
  ASSUME NEW q, OneQuery(q), Init
  PROVE  QInv(q)
  <1>1. /\ Queries = {q} /\ conn = NewConn /\ q \in Queries
    BY EmptyType DEF OneQuery, Init
  <1>2. /\ conn \in Conns /\ ~conn.canSync /\ conn.queries[q] = None
        /\ conn.entities = <<>> /\ conn.calling = {} /\ conn.tasks = {}
        /\ conn.changes = NoChanges /\ conn.changed = {}
    BY <1>1, NewConnType
  <1>3. Types
    <2>1. mounted \in [Queries -> Mounts \union {None}]
          /\ listener \in [Listeners -> Queries \union {"new", "gone"}]
          /\ store \in Result /\ cache \in Result /\ at \in [Ids -> Nat]
      BY EmptyType DEF Init, Result
    <2>2. TypeOK
      BY <1>2, <2>1 DEF Init, TypeOK
    <2>3. Numbers /\ Wires
      BY DEF Init, Numbers, Wires
    <2> QED BY <2>2, <2>3 DEF Types
  <1>4. HandlerStamps = {} /\ Errors = {} /\ ~Sent(q) /\ ~Requested(q) /\ ~Subscribed(q)
        /\ ~Answered(q) /\ \A k \in DOMAIN toClient : ~IsData(k)
    <2>1. DOMAIN handlers = {} /\ DOMAIN toClient = {} /\ mounted[q] = None /\ toServer = <<>>
      BY <1>1 DEF Init
    <2> QED BY <1>2, <2>1 DEF HandlerStamps, Errors, Sent, Requested, Subscribed, Answered
  <1>5. Places(q)
    <2>1. Activations(q)
      BY DEF Init, Activations
    <2>2. Request(q)
      BY <1>4 DEF Init, Request
    <2>3. Session(q)
      BY <1>2, <1>4 DEF Init, Session
    <2>4. Server(q)
      BY <1>2, <1>4 DEF Server
    <2>5. Quiet(q)
      BY <1>2, <1>4 DEF Quiet
    <2>6. Told(q)
      <3>1. DOMAIN toServer = {} /\ cache = Empty
        BY DEF Init
      <3> QED BY <1>4, <3>1 DEF Told
    <2> QED BY <2>1, <2>2, <2>3, <2>4, <2>5, <2>6 DEF Places
  <1>6. Agree(q)
    BY <1>4 DEF Agree
  <1>7. \A k \in 0..Len(toClient) : Stamps(k) = {0} /\ DataStamps(k) = {}
    <2>1. Len(toClient) = 0 /\ checkpoint = 0
      BY DEF Init
    <2>2. \A k \in 0..0 : \A j \in 1..k : FALSE
      OBVIOUS
    <2>3. \A k \in 0..0 : DataStamps(k) = {}
      BY <2>2 DEF DataStamps
    <2> QED BY <1>4, <2>1, <2>3 DEF Stamps
  <1>8. Honest(q)
    <2> SUFFICES ASSUME NEW k \in 0..Len(toClient), NEW i \in Ids, NEW ts \in Stamps(k)
                 PROVE  ~(at[i] < ts)
      BY DEF Honest
    <2>1. at[i] = 0 /\ ts = 0
      BY <1>7 DEF Init
    <2> QED BY <2>1
  <1>9. Past
    <2>1. Len(toClient) \in 0..Len(toClient) /\ now = 1 /\ \A i \in Ids : at[i] = 0
      BY DEF Init
    <2> QED BY <1>4, <1>7, <2>1 DEF Past
  <1> QED BY <1>3, <1>5, <1>6, <1>8, <1>9 DEF QInv

LEMMA QInvStep ==
  ASSUME NEW q, OneQuery(q), QInv(q), [Next]_vars
  PROVE  QInv(q)'
  <1>1. Queries = {q} /\ ~Leaves /\ MaxCrashes = 0
    BY DEF OneQuery
  <1>2. CASE ServerStep
    <2>1. \A p \in Queries : p = q
      BY <1>1
    <2> QED BY <1>2, <2>1, UpdateViewsStep, BufferEntityDataStep, BufferedStep,
               FlushEntityDataStep, ServerStartStep, HandleConnectQueryStep,
               HandleDisconnectQueryStep DEF ServerStep
  <1>3. CASE RefuseConnectQuery
    BY <1>3, RefuseConnectQueryStep
  <1>4. CASE ClientStep
    BY <1>4, ConnectQueryStep, HandleReadyStep, HandleEntityDataStep, HandleErrorStep,
       InitializeSyncStep, EntityDataStoredStep, OpenStep DEF ClientStep
  <1>5. CASE \E l \in Listeners : Unsubscribe(l) \/ \E p \in Queries : Subscribe(l, p)
    BY <1>1, <1>5, SubscribeStep DEF Unsubscribe
  <1>6. CASE \E i \in Ids, v \in Values \union {None} : Write(i, v)
    BY <1>6, WriteStep
  <1>7. CASE Drop
    BY <1>7, DropStep
  <1>8. CASE Crash
    <2>1. used.crashes = 0
      BY DEF QInv, Types, Numbers
    <2> QED BY <1>1, <1>8, <2>1 DEF Crash
  <1>9. CASE UNCHANGED vars
    BY <1>9, StutterStep
  <1> QED BY <1>2, <1>3, <1>4, <1>5, <1>6, <1>7, <1>8, <1>9 DEF Next

LEMMA QInvNothingSkipped ==
  ASSUME NEW q, OneQuery(q), QInv(q)
  PROVE  NothingSkipped
  <1>1. Queries = {q} /\ store \in Result /\ cache \in Result
    BY DEF OneQuery, QInv, Types, TypeOK
  <1> SUFFICES ASSUME NEW i \in Ids, Served(q), ~OnItsWay(i)
               PROVE  Answer(q, cache)[i] = Answer(q, store)[i]
    BY <1>1 DEF NothingSkipped
  <1>2. /\ ~lag /\ conn.calling = {} /\ conn.tasks = {} /\ conn.changes[i] = "same"
        /\ \A k \in DOMAIN toClient : ~Carries(k, i)
    BY DEF OnItsWay, Carries, IsData
  <1>3. Subscribed(q) /\ ~conn.queries[q].fresh
    BY DEF Served, Connected, Subscribed
  <1>4. Answered(q) /\ conn.entities[1].of = Answer(q, store)
    BY <1>2, <1>3 DEF QInv, Places, Server, Answered
  <1>5. Finally(i, cache[i])
    <2>1. DOMAIN toClient = 1..Len(toClient)
      BY Messages DEF QInv, Types
    <2> QED BY <1>2, <2>1 DEF Finally, Holds
  <1>6. cache[i] \in Values \union {None}
    BY <1>1 DEF Result
  <1>7. Shown(q, cache[i]) = Answer(q, store)[i]
    BY <1>4, <1>5, <1>6 DEF QInv, Agree
  <1> QED BY <1>1, <1>7, ShownAnswer

LEMMA QInvCheckpointHonest ==
  ASSUME NEW q, OneQuery(q), QInv(q)
  PROVE  CheckpointHonest
  <1>1. Queries = {q} /\ cache \in Result
    BY DEF OneQuery, QInv, Types, TypeOK
  <1> SUFFICES ASSUME NEW i \in Ids, Answer(q, cache)[i] # None, at[i] < checkpoint
               PROVE  cache[i] = store[i]
    BY <1>1 DEF CheckpointHonest
  <1>2. Matches(q, cache[i]) /\ cache[i] \in Values \union {None}
    BY <1>1 DEF Answer, Result
  <1>3. 0 \in 0..Len(toClient) /\ Holds(0, i, cache[i]) /\ checkpoint \in Stamps(0)
    <2>1. Len(toClient) \in Nat /\ 1..0 = {}
      BY Messages DEF QInv, Types
    <2> QED BY <2>1 DEF Holds, Stamps
  <1> QED BY <1>2, <1>3 DEF QInv, Honest

(* With one query nothing that the server's connection has for it and the  *)
(* client lacks is forgotten, whatever the drops, the refusals and the     *)
(* answers from a checkpoint: bufferEntityData, the flush and the handlers *)
(* of the client together lose no change.                                  *)
THEOREM OneQueryNothingSkipped ==
  ASSUME NEW q, OneQuery(q)
  PROVE  Spec => []NothingSkipped
  <1>1. Init => QInv(q)
    BY QInvInit
  <1>2. QInv(q) /\ [Next]_vars => QInv(q)'
    BY QInvStep
  <1>3. QInv(q) => NothingSkipped
    BY QInvNothingSkipped
  <1> QED BY <1>1, <1>2, <1>3, PTL DEF Spec

(* And the checkpoint is what the server takes it for: what the client     *)
(* shows and was not written since is as the server has it.                *)
THEOREM OneQueryCheckpointHonest ==
  ASSUME NEW q, OneQuery(q)
  PROVE  Spec => []CheckpointHonest
  <1>1. Init => QInv(q)
    BY QInvInit
  <1>2. QInv(q) /\ [Next]_vars => QInv(q)'
    BY QInvStep
  <1>3. QInv(q) => CheckpointHonest
    BY QInvCheckpointHonest
  <1> QED BY <1>1, <1>2, <1>3, PTL DEF Spec
-----------------------------------------------------------------------------
(* Whatever the number of queries and the flags.  A message and an         *)
(* activation that awaits are what their handlers take them for: what they *)
(* go back to, when they are not orphans, is still there.                  *)

(* queryEntities is a Map.                                                 *)
OneEach(es) == \A j, k \in DOMAIN es : es[j].query = es[k].query => j = k
HasEntry(es, q) == \E k \in DOMAIN es : es[k].query = q

ServerSide ==
  /\ store \in Result /\ at \in [Ids -> Nat] /\ now \in Nat /\ lag \in BOOLEAN
  /\ conn \in Conns
  /\ OneEach(conn.entities)
  /\ \A q \in Connected : HasEntry(conn.entities, q)
  /\ conn.calling \subseteq Connected
  /\ \A t \in conn.tasks : t.state # None /\ (t.orphan \/ t.query \in Connected)

Mounted == {q \in Queries : mounted[q] # None}

Waiting == [query : Queries, timestamp : Nat, by : Listeners \union {None}, orphan : BOOLEAN]
WaitingFor(qs) == {w \in Waiting : w.orphan \/ w.query \in qs}

ClientSide ==
  /\ cache \in Result /\ checkpoint \in Nat /\ serverReady \in BOOLEAN
  /\ mounted \in [Queries -> Mounts \union {None}]
  /\ listener \in [Listeners -> Queries \union {"new", "gone"}] /\ failed \in SUBSET Listeners
  /\ calls \in Seq(WaitingFor(Mounted)) /\ handlers \in Seq(ToClient)
  /\ \A q \in Mounted : mounted[q].subCount # 0
  /\ IsFiniteSet(Mounted)

Typed == ServerSide /\ ClientSide /\ Wires /\ link \in {"up", "down"}

-----------------------------------------------------------------------------
(* Sequences, the Map, and what is made of them.                           *)

LEMMA Extremes ==
  ASSUME NEW n \in Nat, NEW S \in SUBSET (1..n), S # {}
  PROVE  Min(S) \in S /\ Max(S) \in S
  <1>1. ASSUME NEW N \in SUBSET Nat, N # {}
        PROVE  \E x \in N : \A y \in N : x <= y
    <2>0. \E x \in N : \A y \in N : ~(<<y, x>> \in OpToRel(<, Nat))
      <3>1. N \subseteq Nat
        OBVIOUS
      <3> QED BY <1>1, <3>1, NatLessThanWellFounded, WFMin
    <2>1. PICK x \in N : \A y \in N : ~(<<y, x>> \in OpToRel(<, Nat))
      BY <2>0
    <2>2. ASSUME NEW y \in N PROVE x <= y
      <3>1. ~(<<y, x>> \in OpToRel(<, Nat)) /\ x \in Nat /\ y \in Nat
        BY <2>1
      <3> QED BY <3>1 DEF OpToRel
    <2> QED BY <2>2
  <1>2. \E x \in S : \A y \in S : x <= y
    <2>1. S \in SUBSET Nat
      OBVIOUS
    <2> QED BY <1>1, <2>1
  <1>3. \E x \in S : \A y \in S : x >= y
    <2> DEFINE N == {n - x : x \in S}
    <2>1. N \in SUBSET Nat /\ N # {}
      <3>1. \A x \in S : n - x \in Nat
        OBVIOUS
      <3> QED BY <3>1
    <2>2. \E m \in N : \A k \in N : m <= k
      <3> HIDE DEF N
      <3> QED BY <1>1, <2>1
    <2>3. PICK x \in S : \A y \in S : n - x <= n - y
      BY <2>2
    <2> QED BY <2>3
  <1> QED BY <1>2, <1>3 DEF Min, Max

LEMMA Elements ==
  ASSUME NEW S, NEW s \in Seq(S)
  PROVE  Len(s) \in Nat /\ DOMAIN s = 1..Len(s) /\ \A k \in DOMAIN s : s[k] \in S
  OBVIOUS

LEMMA Joined ==
  ASSUME NEW S, NEW a \in Seq(S), NEW b \in Seq(S)
  PROVE  /\ a \o b \in Seq(S) /\ Len(a \o b) = Len(a) + Len(b)
         /\ \A j \in 1..(Len(a) + Len(b)) :
              (a \o b)[j] = IF j <= Len(a) THEN a[j] ELSE b[j - Len(a)]
  OBVIOUS

LEMMA RemoveAtType ==
  ASSUME NEW S, NEW s \in Seq(S), NEW k \in DOMAIN s
  PROVE  /\ RemoveAt(s, k) \in Seq(S)
         /\ \A j \in DOMAIN RemoveAt(s, k) :
              RemoveAt(s, k)[j] = IF j < k THEN s[j] ELSE s[j + 1]
         /\ Len(RemoveAt(s, k)) = Len(s) - 1
  <1>1. /\ k \in 1..Len(s) /\ Len(s) \in Nat
    OBVIOUS
  <1>2. PICK a : a = SubSeq(s, 1, k - 1)
    OBVIOUS
  <1>3. PICK b : b = SubSeq(s, k + 1, Len(s))
    OBVIOUS
  <1>4. a \in Seq(S) /\ Len(a) = k - 1 /\ \A j \in 1..(k - 1) : a[j] = s[j]
    BY <1>1, <1>2
  <1>5. /\ b \in Seq(S) /\ Len(b) = Len(s) - k
        /\ \A j \in 1..(Len(s) - k) : b[j] = s[k + j]
    BY <1>1, <1>3
  <1>6. RemoveAt(s, k) = a \o b
    BY <1>2, <1>3 DEF RemoveAt
  <1>7. /\ a \o b \in Seq(S) /\ Len(a \o b) = Len(a) + Len(b)
        /\ \A j \in 1..(Len(a) + Len(b)) :
             (a \o b)[j] = IF j <= Len(a) THEN a[j] ELSE b[j - Len(a)]
    BY <1>4, <1>5, Joined
  <1>8. Len(a) + Len(b) = Len(s) - 1
    BY <1>1, <1>4, <1>5
  <1>9. ASSUME NEW j \in 1..(Len(s) - 1)
        PROVE  (a \o b)[j] = IF j < k THEN s[j] ELSE s[j + 1]
    <2>1. CASE j < k
      <3>1. j \in 1..(k - 1) /\ j <= Len(a) /\ j \in 1..(Len(a) + Len(b))
        BY <1>1, <1>4, <1>8, <2>1
      <3> QED BY <1>4, <1>7, <2>1, <3>1
    <2>2. CASE ~(j < k)
      <3>1. /\ ~(j <= Len(a)) /\ j \in 1..(Len(a) + Len(b))
            /\ j - Len(a) \in 1..(Len(s) - k) /\ k + (j - Len(a)) = j + 1
        <4>1. k \in Nat /\ Len(a) = k - 1 /\ Len(s) \in Nat /\ j \in Nat /\ j <= Len(s) - 1
              /\ 1 <= j /\ k <= j
          BY <1>1, <1>4, <2>2
        <4>2. j - Len(a) \in 1..(Len(s) - k)
          BY <4>1
        <4>3. ~(j <= Len(a)) /\ k + (j - Len(a)) = j + 1
          BY <4>1
        <4> QED BY <1>8, <4>2, <4>3
      <3> QED BY <1>5, <1>7, <2>2, <3>1
    <2> QED BY <2>1, <2>2
  <1>10. DOMAIN (a \o b) = 1..(Len(s) - 1)
    BY <1>7, <1>8, Elements
  <1> QED BY <1>6, <1>7, <1>8, <1>9, <1>10

LEMMA SetToSeqType ==
  ASSUME NEW S, IsFiniteSet(S)
  PROVE  SetToSeq(S) \in Seq(S)
  <1>1. Cardinality(S) \in Nat /\ ExistsBijection(1..Cardinality(S), S)
    BY FS_CardinalityType
  <1>2. \E f \in [1..Cardinality(S) -> S] : IsInjective(f)
    BY <1>1 DEF ExistsBijection, Bijection, Injection
  <1>3. SetToSeq(S) \in [1..Cardinality(S) -> S]
    BY <1>2 DEF SetToSeq
  <1> QED BY <1>1, <1>3

LEMMA EntryFound ==
  ASSUME NEW q, conn.entities \in Seq([query : Queries, of : Result])
  PROVE  IF HasEntry(conn.entities, q)
         THEN Entry(q) \in DOMAIN conn.entities /\ conn.entities[Entry(q)].query = q
         ELSE Entry(q) = 0
  <1> DEFINE n == Len(conn.entities)
             found == {k \in 1..n : conn.entities[k].query = q}
  <1>1. n \in Nat /\ DOMAIN conn.entities = 1..n
    OBVIOUS
  <1>2. Entry(q) = IF found # {} THEN Min(found) ELSE 0
    BY DEF Entry, SelectInSeq
  <1>3. HasEntry(conn.entities, q) <=> found # {}
    BY <1>1 DEF HasEntry
  <1>4. found # {} => Min(found) \in found
    <2> HIDE DEF n
    <2>1. found \in SUBSET (1..n)
      OBVIOUS
    <2> HIDE DEF found
    <2> QED BY <1>1, <2>1, Extremes
  <1> QED BY <1>1, <1>2, <1>3, <1>4

LEMMA WithEntry ==
  ASSUME NEW q \in Queries, NEW Y \in Result,
         conn.entities \in Seq([query : Queries, of : Result]), OneEach(conn.entities)
  PROVE  /\ WithEntities(q, Y) \in Seq([query : Queries, of : Result])
         /\ OneEach(WithEntities(q, Y))
         /\ HasEntry(WithEntities(q, Y), q)
         /\ \A p \in Queries : HasEntry(conn.entities, p) => HasEntry(WithEntities(q, Y), p)
  <1> DEFINE es == conn.entities
             new == WithEntities(q, Y)
             added == [query |-> q, of |-> Y]
  <1>1. CASE ~HasEntry(es, q)
    <2>1. new = Append(es, added)
      BY <1>1, EntryFound DEF WithEntities
    <2>2. /\ added \in [query : Queries, of : Result] /\ added.query = q
      OBVIOUS
    <2> HIDE DEF added
    <2>3. /\ new \in Seq([query : Queries, of : Result]) /\ Len(new) = Len(es) + 1
          /\ new[Len(es) + 1] = added /\ \A k \in DOMAIN es : k \in DOMAIN new /\ new[k] = es[k]
          /\ DOMAIN new = DOMAIN es \union {Len(es) + 1} /\ Len(es) + 1 \in DOMAIN new
      BY <2>1, <2>2
    <2> HIDE DEF es, new
    <2>4. OneEach(new)
      BY <1>1, <2>2, <2>3 DEF OneEach, HasEntry, es
    <2>5. HasEntry(new, q) /\ \A p \in Queries : HasEntry(es, p) => HasEntry(new, p)
      BY <2>2, <2>3 DEF HasEntry
    <2> QED BY <2>3, <2>4, <2>5 DEF es, new
  <1>2. CASE HasEntry(es, q)
    <2>0. Entry(q) \in DOMAIN es /\ es[Entry(q)].query = q
      BY <1>2, EntryFound
    <2>1. Entry(q) \in DOMAIN es /\ es[Entry(q)].query = q /\ Entry(q) # 0
      <3>1. DOMAIN es = 1..Len(es)
        OBVIOUS
      <3> QED BY <2>0, <3>1
    <2>2. new = [es EXCEPT ![Entry(q)].of = Y]
      BY <2>1 DEF WithEntities
    <2>3. /\ es[Entry(q)] \in [query : Queries, of : Result]
          /\ [es[Entry(q)] EXCEPT !.of = Y] = added
      <3>1. PICK k : k = Entry(q)
        OBVIOUS
      <3>2. es[k] \in [query : Queries, of : Result] /\ es[k].query = q
        BY <2>1, <3>1, Elements
      <3>3. [es[k] EXCEPT !.of = Y] = added
        BY <3>2
      <3> QED BY <3>1, <3>2, <3>3
    <2> HIDE DEF added
    <2>4. /\ added \in [query : Queries, of : Result] /\ added.query = q
      BY DEF added
    <2>5. new = [es EXCEPT ![Entry(q)] = added]
      BY <2>2, <2>3
    <2>6. /\ new \in Seq([query : Queries, of : Result]) /\ DOMAIN new = DOMAIN es
          /\ \A k \in DOMAIN es : new[k].query = es[k].query
      BY <2>1, <2>4, <2>5
    <2> HIDE DEF es, new
    <2> QED BY <1>2, <2>6 DEF OneEach, HasEntry, es, new
  <1> QED BY <1>1, <1>2

LEMMA WithoutEntry ==
  ASSUME NEW q, conn.entities \in Seq([query : Queries, of : Result]), OneEach(conn.entities),
         HasEntry(conn.entities, q)
  PROVE  /\ WithoutEntities(q) \in Seq([query : Queries, of : Result])
         /\ OneEach(WithoutEntities(q))
         /\ \A p : p # q /\ HasEntry(conn.entities, p) => HasEntry(WithoutEntities(q), p)
  <1> DEFINE es == conn.entities
             at0 == Entry(q)
             new == WithoutEntities(q)
  <1>1. at0 \in DOMAIN es /\ es[at0].query = q
    BY EntryFound
  <1>2. /\ new \in Seq([query : Queries, of : Result]) /\ Len(new) = Len(es) - 1
        /\ \A j \in DOMAIN new : new[j] = IF j < at0 THEN es[j] ELSE es[j + 1]
    <2>1. new = RemoveAt(es, at0)
      BY DEF WithoutEntities
    <2> HIDE DEF at0, es, new
    <2> QED BY <1>1, <2>1, RemoveAtType DEF es
  <1> HIDE DEF new, at0
  <1>3. /\ Len(es) \in Nat /\ DOMAIN es = 1..Len(es) /\ DOMAIN new = 1..(Len(es) - 1)
        /\ at0 \in 1..Len(es)
    BY <1>1, <1>2
  <1>4. OneEach(new)
    <2> SUFFICES ASSUME NEW j \in DOMAIN new, NEW k \in DOMAIN new, new[j].query = new[k].query
                 PROVE  j = k
      BY DEF OneEach
    <2> DEFINE old(i) == IF i < at0 THEN i ELSE i + 1
    <2>1. old(j) \in DOMAIN es /\ old(k) \in DOMAIN es /\ new[j] = es[old(j)] /\ new[k] = es[old(k)]
      BY <1>2, <1>3
    <2>2. old(j) = old(k)
      BY <2>1 DEF OneEach
    <2> QED BY <1>3, <2>2
  <1>5. ASSUME NEW p, p # q, HasEntry(es, p)
        PROVE  HasEntry(new, p)
    <2>1. PICK k \in DOMAIN es : es[k].query = p
      BY <1>5 DEF HasEntry
    <2>2. k # at0
      BY <1>1, <1>5, <2>1
    <2>3. CASE k < at0
      <3>1. k \in DOMAIN new /\ new[k] = es[k]
        BY <1>2, <1>3, <2>3
      <3> QED BY <2>1, <3>1 DEF HasEntry
    <2>4. CASE ~(k < at0)
      <3>1. k - 1 \in DOMAIN new /\ ~(k - 1 < at0) /\ (k - 1) + 1 = k
        BY <1>3, <2>2, <2>4
      <3>2. new[k - 1] = es[k]
        BY <1>2, <3>1
      <3> QED BY <2>1, <3>1, <3>2 DEF HasEntry
    <2> QED BY <2>3, <2>4
  <1> QED BY <1>2, <1>4, <1>5 DEF new

LEMMA UnionType ==
  ASSUME NEW es \in Seq([query : Queries, of : Result])
  PROVE  Union(es) \in Result
  <1> SUFFICES ASSUME NEW i \in Ids PROVE Union(es)[i] \in Values \union {None}
    BY DEF Union, Result
  <1> DEFINE having == {k \in DOMAIN es : es[k].of[i] # None}
  <1>1. Union(es)[i] = IF having = {} THEN None ELSE es[Max(having)].of[i]
    BY DEF Union
  <1>2. having # {} => Max(having) \in DOMAIN es
    <2>1. Len(es) \in Nat /\ DOMAIN es = 1..Len(es) /\ having \in SUBSET (1..Len(es))
      OBVIOUS
    <2> HIDE DEF having
    <2>2. having # {} => Max(having) \in having
      BY <2>1, Extremes
    <2> QED BY <2>1, <2>2
  <1>3. \A k \in DOMAIN es : es[k].of[i] \in Values \union {None}
    <2>1. \A k \in DOMAIN es : es[k].of \in Result
      <3>1. \A k \in DOMAIN es : es[k] \in [query : Queries, of : Result]
        BY Elements
      <3> QED BY <3>1
    <2> QED BY <2>1 DEF Result
  <1> HIDE DEF having
  <1> QED BY <1>1, <1>2, <1>3

(* What the server does leaves the client's side as it is, and so on.      *)
LEMMA ServerStays == ASSUME ServerSide, UNCHANGED server PROVE ServerSide'
  BY DEF ServerSide, server, Connected

LEMMA ClientStays == ASSUME ClientSide, UNCHANGED <<stored, memory>> PROVE ClientSide'
  BY DEF ClientSide, stored, memory, Mounted

LEMMA WiresStay == ASSUME Wires, UNCHANGED <<toServer, toClient>> PROVE Wires'
  BY DEF Wires

Task == [query : Queries, of : Result, state : State, orphan : BOOLEAN]

LEMMA ServerFields ==
  ASSUME ServerSide
  PROVE  /\ conn.canSync \in BOOLEAN
         /\ conn.queries \in [Queries -> Subs \union {None}]
         /\ conn.entities \in Seq([query : Queries, of : Result])
         /\ conn.calling \in SUBSET Queries /\ conn.tasks \in SUBSET Task
         /\ conn.changes \in Changes /\ conn.changed \in SUBSET Queries
         /\ \A q \in Connected : q \in Queries /\ conn.queries[q] \in Subs
  <1>1. conn \in Conns
    BY DEF ServerSide
  <1>2. conn.queries \in [Queries -> Subs \union {None}]
    BY <1>1 DEF Conns
  <1> QED BY <1>1, <1>2 DEF Conns, Connected, Task

LEMMA WriteTypes ==
  ASSUME Typed, NEW i \in Ids, NEW v \in Values \union {None}, Write(i, v)
  PROVE  Typed'
  <1>1. /\ store' = [store EXCEPT ![i] = v] /\ at' = [at EXCEPT ![i] = now] /\ now' = now + 1
        /\ lag' = TRUE /\ UNCHANGED <<conn, link, toServer, toClient, stored, memory>>
    BY DEF Write
  <1>2. ServerSide'
    BY <1>1 DEF Typed, ServerSide, Result, Connected
  <1>3. ClientSide' /\ Wires'
    BY <1>1, ClientStays, WiresStay DEF Typed
  <1> QED BY <1>1, <1>2, <1>3 DEF Typed

LEMMA UpdateViewsTypes ==
  ASSUME Typed, UpdateViews
  PROVE  Typed'
  <1> DEFINE called == {q \in Connected : conn.queries[q].fresh
                                          \/ conn.entities[Entry(q)].of # Answer(q, store)}
  <1>1. /\ lag' = FALSE /\ conn' = [conn EXCEPT !.calling = called]
        /\ UNCHANGED <<store, at, now, link, toServer, toClient, stored, memory>>
    BY DEF UpdateViews
  <1>2. called \subseteq Connected /\ Connected \subseteq Queries
    BY DEF Connected
  <1> HIDE DEF called
  <1>3. /\ conn' \in Conns /\ conn'.queries = conn.queries /\ conn'.entities = conn.entities
        /\ conn'.calling = called /\ conn'.tasks = conn.tasks
    BY <1>1, <1>2 DEF Typed, ServerSide, Conns
  <1>4. Connected' = Connected
    BY <1>3 DEF Connected
  <1>5. ServerSide'
    BY <1>1, <1>2, <1>3, <1>4 DEF Typed, ServerSide
  <1>6. ClientSide' /\ Wires'
    BY <1>1, ClientStays, WiresStay DEF Typed
  <1> QED BY <1>1, <1>5, <1>6 DEF Typed

LEMMA BufferEntityDataTypes ==
  ASSUME Typed, NEW q \in Queries, BufferEntityData(q)
  PROVE  Typed'
  <1> DEFINE sub == conn.queries[q]
             results == Answer(q, store)
             entities == WithEntities(q, results)
  <1>1. /\ q \in conn.calling
        /\ UNCHANGED <<store, at, now, lag, link, toServer, toClient, stored, memory>>
    BY DEF BufferEntityData
  <1>2. q \in Connected /\ sub \in Subs
    BY <1>1, ServerFields DEF Typed, ServerSide
  <1>3. results \in Result
    BY AnswerType DEF Typed, ServerSide
  <1>4. /\ entities \in Seq([query : Queries, of : Result]) /\ OneEach(entities)
        /\ HasEntry(entities, q)
        /\ \A p \in Queries : HasEntry(conn.entities, p) => HasEntry(entities, p)
    BY <1>3, WithEntry, ServerFields DEF Typed, ServerSide
  <1>5. ASSUME NEW s \in Subs
        PROVE  /\ [conn.queries EXCEPT ![q] = s] \in [Queries -> Subs \union {None}]
               /\ \A p \in Queries : [conn.queries EXCEPT ![q] = s][p] # None <=> p \in Connected
    BY <1>2, NotNone, ServerFields DEF Typed, Connected
  <1>6. CASE sub.first /\ sub.state # None
    <2> DEFINE task == [query |-> q, of |-> results, state |-> sub.state, orphan |-> FALSE]
               heard == [sub EXCEPT !.fresh = FALSE]
    <2>1. conn' = [conn EXCEPT !.calling = conn.calling \ {q}, !.entities = entities,
                               !.queries = [conn.queries EXCEPT ![q].fresh = FALSE],
                               !.tasks = conn.tasks \union {task}]
      BY <1>6 DEF BufferEntityData
    <2>2. [conn.queries EXCEPT ![q].fresh = FALSE] = [conn.queries EXCEPT ![q] = heard]
      OBVIOUS
    <2>3. heard \in Subs /\ task \in Task /\ task.state # None /\ task.query = q
      BY <1>2, <1>3, <1>6 DEF Subs, Task
    <2> HIDE DEF heard, task, entities
    <2>4. /\ conn' \in Conns /\ conn'.queries = [conn.queries EXCEPT ![q] = heard]
          /\ conn'.entities = entities /\ conn'.calling = conn.calling \ {q}
          /\ conn'.tasks = conn.tasks \union {task}
      BY <1>4, <1>5, <2>1, <2>2, <2>3, ServerFields DEF Typed, ServerSide, Conns, Task
    <2>5. Connected' = Connected
      BY <1>5, <2>3, <2>4 DEF Connected
    <2>6. ServerSide'
      BY <1>1, <1>2, <1>4, <2>3, <2>4, <2>5 DEF Typed, ServerSide, Connected
    <2> QED BY <1>1, <2>6, ClientStays, WiresStay DEF Typed
  <1>7. CASE ~(sub.first /\ sub.state # None)
    <2> DEFINE heard == [sub EXCEPT !.fresh = FALSE, !.first = FALSE]
               changes == Over(conn.changes, Diff(Union(conn.entities), Union(entities)))
    <2>1. conn' = [conn EXCEPT !.calling = conn.calling \ {q}, !.entities = entities,
                               !.queries = [conn.queries EXCEPT ![q] = heard],
                               !.changes = changes, !.changed = conn.changed \union {q}]
      BY <1>7 DEF BufferEntityData
    <2>2. heard \in Subs
      BY <1>2 DEF Subs
    <2> HIDE DEF entities, heard
    <2>3. changes \in Changes
      <3>1. Union(conn.entities) \in Result /\ Union(entities) \in Result
        BY <1>4, UnionType, ServerFields DEF Typed
      <3>2. Diff(Union(conn.entities), Union(entities)) \in Changes
        BY <3>1, ChangeTypes, EmptyType
      <3> QED BY <3>1, <3>2, ChangeTypes, ServerFields DEF Typed
    <2> HIDE DEF changes
    <2>4. /\ conn' \in Conns /\ conn'.queries = [conn.queries EXCEPT ![q] = heard]
          /\ conn'.entities = entities /\ conn'.calling = conn.calling \ {q}
          /\ conn'.tasks = conn.tasks
      BY <1>4, <1>5, <2>1, <2>2, <2>3, ServerFields DEF Typed, ServerSide, Conns
    <2>5. Connected' = Connected
      BY <1>5, <2>2, <2>4 DEF Connected
    <2>6. ServerSide'
      BY <1>1, <1>2, <1>4, <2>4, <2>5 DEF Typed, ServerSide, Connected
    <2> QED BY <1>1, <2>6, ClientStays, WiresStay DEF Typed
  <1> QED BY <1>6, <1>7

LEMMA BufferedTypes ==
  ASSUME Typed, NEW t \in conn.tasks, Buffered(t)
  PROVE  Typed'
  <1> DEFINE since == SinceCheckpoint(t)
             queries == IF t.orphan THEN conn.queries
                        ELSE [conn.queries EXCEPT ![t.query] = [conn.queries[t.query] EXCEPT !.first = FALSE]]
             changes == Over(conn.changes, since)
  <1>1. UNCHANGED <<store, at, now, lag, link, toServer, toClient, stored, memory>>
    BY DEF Buffered
  <1>2. t \in Task /\ (t.orphan \/ t.query \in Connected)
    BY ServerFields DEF Typed, ServerSide
  <1>3. /\ t.query \in Queries /\ t.of \in Result /\ t.orphan \in BOOLEAN
    BY <1>2 DEF Task
  <1>4. conn' = [conn EXCEPT !.tasks = conn.tasks \ {t}, !.queries = queries,
                             !.changes = changes, !.changed = conn.changed \union {t.query}]
    <2>1. conn' = [conn EXCEPT !.tasks = conn.tasks \ {t},
                               !.queries = [conn.queries EXCEPT ![t.query] =
                                              IF t.orphan THEN @ ELSE [@ EXCEPT !.first = FALSE]],
                               !.changes = changes, !.changed = conn.changed \union {t.query}]
      BY DEF Buffered
    <2>2. [conn.queries EXCEPT ![t.query] = IF t.orphan THEN @ ELSE [@ EXCEPT !.first = FALSE]] = queries
      BY <1>3, ServerFields DEF Typed
    <2> QED BY <2>1, <2>2
  <1>5. /\ queries \in [Queries -> Subs \union {None}]
        /\ \A p \in Queries : queries[p] # None <=> p \in Connected
    <2>1. CASE t.orphan
      BY <2>1, ServerFields DEF Typed, Connected
    <2>2. CASE ~t.orphan
      <3>1. PICK s : s = [conn.queries[t.query] EXCEPT !.first = FALSE]
        OBVIOUS
      <3>2. s \in Subs /\ s # None
        <4>1. conn.queries[t.query] \in Subs
          BY <1>2, <2>2, ServerFields DEF Typed
        <4>2. s \in Subs
          BY <3>1, <4>1 DEF Subs
        <4> QED BY <4>2, NotNone
      <3>3. queries = [conn.queries EXCEPT ![t.query] = s]
        BY <2>2, <3>1
      <3>4. t.query \in Connected
        BY <1>2, <2>2
      <3> QED BY <1>3, <3>2, <3>3, <3>4, ServerFields DEF Typed, Connected
    <2> QED BY <2>1, <2>2
  <1>6. changes \in Changes
    <2>1. \A i \in Ids : since[i] \in Values \union {"same", "gone"}
      BY <1>3 DEF Typed, ServerSide, SinceCheckpoint, Result
    <2>2. since \in Changes
      BY <2>1 DEF SinceCheckpoint, Changes
    <2> QED BY <2>2, EmptyType, ChangeTypes, ServerFields DEF Typed
  <1> HIDE DEF queries, changes
  <1>7. /\ conn' \in Conns /\ conn'.queries = queries /\ conn'.entities = conn.entities
        /\ conn'.calling = conn.calling /\ conn'.tasks = conn.tasks \ {t}
    BY <1>3, <1>4, <1>5, <1>6 DEF Typed, ServerSide, Conns
  <1>8. Connected' = Connected
    BY <1>5, <1>7 DEF Connected
  <1>9. ServerSide'
    BY <1>1, <1>7, <1>8 DEF Typed, ServerSide
  <1> QED BY <1>1, <1>9, ClientStays, WiresStay DEF Typed

LEMMA SendsTo ==
  ASSUME Wires
  PROVE  /\ \A m \in ToClient : Append(toClient, m) \in Seq(ToClient)
         /\ \A m \in ToServer : Append(toServer, m) \in Seq(ToServer)
         /\ toClient # <<>> => Head(toClient) \in ToClient /\ Tail(toClient) \in Seq(ToClient)
         /\ toServer # <<>> => Head(toServer) \in ToServer /\ Tail(toServer) \in Seq(ToServer)
  BY DEF Wires

LEMMA FlushEntityDataTypes ==
  ASSUME Typed, FlushEntityData
  PROVE  Typed'
  <1> DEFINE m == Data(conn.changes, now, conn.changed)
  <1>1. /\ toClient' = Append(toClient, m) /\ now' = now + 1
        /\ conn' = [conn EXCEPT !.changes = NoChanges, !.changed = {}]
        /\ UNCHANGED <<store, at, lag, link, toServer, stored, memory>>
    BY DEF FlushEntityData
  <1>2. m \in ToClient
    BY ServerFields DEF Typed, ServerSide, Data, ToClient
  <1> HIDE DEF m
  <1>3. Wires'
    BY <1>1, <1>2, SendsTo DEF Typed, Wires
  <1>4. /\ conn' \in Conns /\ conn'.queries = conn.queries /\ conn'.entities = conn.entities
        /\ conn'.calling = conn.calling /\ conn'.tasks = conn.tasks
    BY <1>1, EmptyType DEF Typed, ServerSide, Conns
  <1>5. Connected' = Connected
    BY <1>4 DEF Connected
  <1>6. ServerSide'
    BY <1>1, <1>4, <1>5 DEF Typed, ServerSide
  <1> QED BY <1>1, <1>3, <1>6, ClientStays DEF Typed

LEMMA ServerStartTypes ==
  ASSUME Typed, ServerStart
  PROVE  Typed'
  <1> DEFINE m == [type |-> "READY"]
  <1>1. /\ toClient' = Append(toClient, m) /\ conn' = [conn EXCEPT !.canSync = TRUE]
        /\ UNCHANGED <<store, at, now, lag, link, toServer, stored, memory>>
    BY DEF ServerStart
  <1>2. m \in ToClient
    BY DEF ToClient
  <1> HIDE DEF m
  <1>3. Wires'
    BY <1>1, <1>2, SendsTo DEF Typed, Wires
  <1>4. /\ conn' \in Conns /\ conn'.queries = conn.queries /\ conn'.entities = conn.entities
        /\ conn'.calling = conn.calling /\ conn'.tasks = conn.tasks
    BY <1>1 DEF Typed, ServerSide, Conns
  <1>5. Connected' = Connected
    BY <1>4 DEF Connected
  <1>6. ServerSide'
    BY <1>1, <1>4, <1>5 DEF Typed, ServerSide
  <1> QED BY <1>1, <1>3, <1>6, ClientStays DEF Typed

LEMMA OrphanedTypes ==
  ASSUME ServerSide, NEW q
  PROVE  /\ Orphaned(conn.tasks, q) \in SUBSET Task
         /\ \A t \in Orphaned(conn.tasks, q) :
              t.state # None /\ (t.orphan \/ (t.query \in Connected /\ t.query # q))
  <1> SUFFICES ASSUME NEW t \in conn.tasks
               PROVE  LET o == [t EXCEPT !.orphan = @ \/ t.query = q]
                      IN  o \in Task /\ o.state # None
                          /\ (o.orphan \/ (o.query \in Connected /\ o.query # q))
    BY DEF Orphaned
  <1>1. t \in Task /\ t.state # None /\ (t.orphan \/ t.query \in Connected)
    BY ServerFields DEF ServerSide
  <1>2. (t.orphan \/ t.query = q) \in BOOLEAN
    BY <1>1 DEF Task
  <1>3. PICK b \in BOOLEAN : b = (t.orphan \/ t.query = q)
    BY <1>2
  <1>4. [t EXCEPT !.orphan = @ \/ t.query = q] = [t EXCEPT !.orphan = b]
    BY <1>3
  <1>5. /\ [t EXCEPT !.orphan = b] \in Task /\ [t EXCEPT !.orphan = b].state = t.state
        /\ [t EXCEPT !.orphan = b].query = t.query /\ [t EXCEPT !.orphan = b].orphan = b
    BY <1>1 DEF Task
  <1> QED BY <1>1, <1>3, <1>4, <1>5

LEMMA HandleConnectQueryTypes ==
  ASSUME Typed, HandleConnectQuery
  PROVE  Typed'
  <1> DEFINE m == Head(toServer)
             entities == WithEntities(m.query, Empty)
             sub == [first |-> TRUE, fresh |-> TRUE, state |-> m.state]
             tasks == Orphaned(conn.tasks, m.query)
  <1>1. /\ toServer # <<>> /\ m.type = "CONNECT_QUERY" /\ conn.calling = {}
        /\ conn' = IF ~conn.canSync THEN conn
                   ELSE [conn EXCEPT !.entities = entities,
                                     !.queries = [conn.queries EXCEPT ![m.query] = sub],
                                     !.tasks = tasks]
        /\ lag' = (lag \/ conn.canSync) /\ toServer' = Tail(toServer)
        /\ UNCHANGED <<store, at, now, link, toClient, stored, memory>>
    BY DEF HandleConnectQuery, Received, ServerFree
  <1>2. m \in ToServer /\ Tail(toServer) \in Seq(ToServer)
    BY <1>1, SendsTo DEF Typed
  <1>3. m.query \in Queries /\ m.state \in State
    BY <1>1, <1>2 DEF ToServer
  <1>4. Wires' /\ ClientSide' /\ link' = link
    BY <1>1, <1>2, ClientStays DEF Typed, Wires
  <1>5. lag' \in BOOLEAN
    BY <1>1, ServerFields DEF Typed, ServerSide
  <1>6. CASE ~conn.canSync
    BY <1>1, <1>4, <1>5, <1>6 DEF Typed, ServerSide, Connected
  <1>7. CASE conn.canSync
    <2>1. /\ entities \in Seq([query : Queries, of : Result]) /\ OneEach(entities)
          /\ HasEntry(entities, m.query)
          /\ \A p \in Queries : HasEntry(conn.entities, p) => HasEntry(entities, p)
      BY <1>3, EmptyType, WithEntry, ServerFields DEF Typed, ServerSide
    <2>2. sub \in Subs /\ sub # None
      <3>1. sub \in Subs
        BY <1>3 DEF Subs
      <3> QED BY <3>1, NotNone
    <2>3. /\ tasks \in SUBSET Task
          /\ \A t \in tasks : t.state # None /\ (t.orphan \/ (t.query \in Connected /\ t.query # m.query))
      BY OrphanedTypes DEF Typed
    <2> HIDE DEF entities, sub, tasks, m
    <2>4. /\ conn' \in Conns /\ conn'.queries = [conn.queries EXCEPT ![m.query] = sub]
          /\ conn'.entities = entities /\ conn'.calling = {} /\ conn'.tasks = tasks
      BY <1>1, <1>3, <1>7, <2>1, <2>2, <2>3, ServerFields DEF Typed, ServerSide, Conns, Task
    <2>5. Connected' = Connected \union {m.query}
      BY <1>3, <2>2, <2>4, ServerFields DEF Typed, Connected
    <2>6. \A q \in Connected' : HasEntry(entities, q)
      BY <2>1, <2>5 DEF Typed, ServerSide, Connected
    <2>7. ServerSide'
      BY <1>1, <1>5, <2>1, <2>3, <2>4, <2>5, <2>6 DEF Typed, ServerSide
    <2> QED BY <1>4, <2>7 DEF Typed
  <1> QED BY <1>6, <1>7, <1>1

LEMMA RefuseConnectQueryTypes ==
  ASSUME Typed, RefuseConnectQuery
  PROVE  Typed'
  <1> DEFINE q == Head(toServer).query
             m == [type |-> "ERROR", query |-> q]
             entities == WithEntities(q, Empty)
  <1>1. /\ toServer # <<>> /\ Head(toServer).type = "CONNECT_QUERY"
        /\ conn' = [conn EXCEPT !.entities = entities]
        /\ toClient' = Append(toClient, m) /\ toServer' = Tail(toServer)
        /\ UNCHANGED <<store, at, now, lag, link, stored, memory>>
    BY DEF RefuseConnectQuery, Received
  <1>2. Head(toServer) \in ToServer /\ Tail(toServer) \in Seq(ToServer)
    BY <1>1, SendsTo DEF Typed
  <1>3. q \in Queries
    BY <1>1, <1>2 DEF ToServer
  <1>4. m \in ToClient
    BY <1>3 DEF ToClient
  <1>5. /\ entities \in Seq([query : Queries, of : Result]) /\ OneEach(entities)
        /\ \A p \in Queries : HasEntry(conn.entities, p) => HasEntry(entities, p)
    BY <1>3, EmptyType, WithEntry, ServerFields DEF Typed, ServerSide
  <1> HIDE DEF m, entities, q
  <1>6. Wires' /\ ClientSide' /\ link' = link
    BY <1>1, <1>2, <1>4, SendsTo, ClientStays DEF Typed, Wires
  <1>7. /\ conn' \in Conns /\ conn'.queries = conn.queries /\ conn'.entities = entities
        /\ conn'.calling = conn.calling /\ conn'.tasks = conn.tasks
    BY <1>1, <1>5 DEF Typed, ServerSide, Conns
  <1>8. Connected' = Connected /\ Connected \subseteq Queries
    BY <1>7 DEF Connected
  <1>9. ServerSide'
    BY <1>1, <1>5, <1>7, <1>8 DEF Typed, ServerSide
  <1> QED BY <1>6, <1>9 DEF Typed

LEMMA HandleDisconnectQueryTypes ==
  ASSUME Typed, HandleDisconnectQuery
  PROVE  Typed'
  <1> DEFINE q == Head(toServer).query
             entities == WithoutEntities(q)
             tasks == Orphaned(conn.tasks, q)
  <1>1. /\ toServer # <<>> /\ conn.calling = {}
        /\ conn' = IF ~conn.canSync \/ q \notin Connected THEN conn
                   ELSE [conn EXCEPT !.queries = [conn.queries EXCEPT ![q] = None],
                                     !.entities = entities, !.tasks = tasks]
        /\ toServer' = Tail(toServer)
        /\ UNCHANGED <<store, at, now, lag, link, toClient, stored, memory>>
    BY DEF HandleDisconnectQuery, Received, ServerFree
  <1>2. Wires' /\ ClientSide' /\ link' = link
    BY <1>1, SendsTo, ClientStays DEF Typed, Wires
  <1>3. CASE ~conn.canSync \/ q \notin Connected
    BY <1>1, <1>2, <1>3 DEF Typed, ServerSide, Connected
  <1>4. CASE ~(~conn.canSync \/ q \notin Connected)
    <2>1. q \in Connected /\ q \in Queries
      BY <1>4 DEF Connected
    <2>2. /\ entities \in Seq([query : Queries, of : Result]) /\ OneEach(entities)
          /\ \A p : p # q /\ HasEntry(conn.entities, p) => HasEntry(entities, p)
      BY <2>1, WithoutEntry, ServerFields DEF Typed, ServerSide
    <2>3. /\ tasks \in SUBSET Task
          /\ \A t \in tasks : t.state # None /\ (t.orphan \/ (t.query \in Connected /\ t.query # q))
      BY OrphanedTypes DEF Typed
    <2> HIDE DEF entities, tasks, q
    <2>4. /\ conn' \in Conns /\ conn'.queries = [conn.queries EXCEPT ![q] = None]
          /\ conn'.entities = entities /\ conn'.calling = {} /\ conn'.tasks = tasks
      BY <1>1, <1>4, <2>1, <2>2, <2>3, ServerFields DEF Typed, ServerSide, Conns, Task
    <2>5. Connected' = Connected \ {q}
      BY <2>1, <2>4, ServerFields DEF Typed, Connected
    <2>6. \A p \in Connected' : HasEntry(entities, p)
      BY <2>2, <2>5 DEF Typed, ServerSide
    <2>7. ServerSide'
      BY <1>1, <2>2, <2>3, <2>4, <2>5, <2>6 DEF Typed, ServerSide
    <2> QED BY <1>2, <2>7 DEF Typed
  <1> QED BY <1>3, <1>4

(* The client's side, when queries are mounted or no longer mounted.       *)
LEMMA WaitMore ==
  ASSUME NEW ps, NEW qs, ps \subseteq qs, NEW cs \in Seq(WaitingFor(ps))
  PROVE  cs \in Seq(WaitingFor(qs))
  <1>1. WaitingFor(ps) \subseteq WaitingFor(qs)
    BY DEF WaitingFor
  <1> QED BY <1>1

LEMMA MountedFinite ==
  ASSUME IsFiniteSet(Mounted), NEW q, Mounted' \subseteq Mounted \union {q}
  PROVE  IsFiniteSet(Mounted')
  <1>1. IsFiniteSet(Mounted \union {q})
    BY FS_AddElement
  <1> QED BY <1>1, FS_Subset

LEMMA ClientFields ==
  ASSUME ClientSide
  PROVE  /\ mounted \in [Queries -> Mounts \union {None}]
         /\ \A q \in Mounted : /\ q \in Queries /\ mounted[q] \in Mounts
                               /\ mounted[q].subCount \in Nat \ {0}
                               /\ mounted[q].hasSent \in BOOLEAN
         /\ \A q \in Queries : q \notin Mounted => mounted[q] = None
         /\ calls \in Seq(WaitingFor(Mounted)) /\ handlers \in Seq(ToClient)
  <1>1. \A q \in Mounted : q \in Queries /\ mounted[q] \in Mounts /\ mounted[q].subCount # 0
    BY DEF ClientSide, Mounted
  <1>2. \A q \in Mounted : mounted[q].subCount \in Nat /\ mounted[q].hasSent \in BOOLEAN
    BY <1>1 DEF Mounts
  <1> QED BY <1>1, <1>2 DEF ClientSide, Mounted

(* One entry of this.queries is set.                                       *)
LEMMA MountOne ==
  ASSUME ClientSide, NEW q \in Queries, NEW r \in Mounts, r.subCount # 0,
         mounted' = [mounted EXCEPT ![q] = r]
  PROVE  /\ mounted' \in [Queries -> Mounts \union {None}]
         /\ Mounted' = Mounted \union {q}
         /\ \A p \in Mounted' : mounted'[p].subCount # 0
         /\ IsFiniteSet(Mounted')
  <1>1. r # None
    BY NotNone
  <1>2. Mounted' = Mounted \union {q}
    BY <1>1, ClientFields DEF Mounted
  <1>3. \A p \in Mounted' : mounted'[p].subCount # 0
    BY <1>2, ClientFields
  <1>4. IsFiniteSet(Mounted')
    BY <1>2, MountedFinite DEF ClientSide
  <1> QED BY <1>2, <1>3, <1>4, ClientFields

LEMMA CallType ==
  ASSUME ClientSide, NEW q \in Queries, NEW l \in Listeners \union {None}
  PROVE  Call(q, l) \in Waiting /\ Call(q, l).query = q
  BY DEF ClientSide, Call, Waiting

LEMMA SubscribeTypes ==
  ASSUME Typed, NEW l \in Listeners, NEW q \in Queries, Subscribe(l, q)
  PROVE  Typed'
  <1>1. /\ listener' = [listener EXCEPT ![l] = q]
        /\ UNCHANGED <<server, link, toServer, toClient, stored, serverReady, handlers, failed, used>>
    BY DEF Subscribe
  <1>2. ServerSide' /\ Wires' /\ link' = link
    BY <1>1, ServerStays, WiresStay DEF Typed
  <1>3. /\ cache' = cache /\ checkpoint' = checkpoint
        /\ listener' \in [Listeners -> Queries \union {"new", "gone"}]
    BY <1>1 DEF stored, Typed, ClientSide
  <1>4. CASE mounted[q] = None
    <2> DEFINE r == [syncState |-> "NOT_STARTED", hasSent |-> FALSE, subCount |-> 1]
    <2>1. /\ mounted' = [mounted EXCEPT ![q] = r]
          /\ calls' = IF serverReady THEN Append(calls, Call(q, l)) ELSE calls
      BY <1>4 DEF Subscribe
    <2>2. r \in Mounts /\ r.subCount # 0
      BY DEF Mounts
    <2> HIDE DEF r
    <2>3. /\ mounted' \in [Queries -> Mounts \union {None}] /\ Mounted' = Mounted \union {q}
          /\ \A p \in Mounted' : mounted'[p].subCount # 0
          /\ IsFiniteSet(Mounted')
      BY <2>1, <2>2, MountOne DEF Typed
    <2>4. calls \in Seq(WaitingFor(Mounted')) /\ Call(q, l) \in WaitingFor(Mounted')
      <3>1. calls \in Seq(WaitingFor(Mounted'))
        BY <2>3, ClientFields, WaitMore DEF Typed
      <3>2. Call(q, l) \in WaitingFor(Mounted')
        BY <2>3, CallType DEF Typed, WaitingFor
      <3> QED BY <3>1, <3>2
    <2>5. calls' \in Seq(WaitingFor(Mounted'))
      BY <2>1, <2>4
    <2>6. ClientSide'
      BY <1>1, <1>3, <2>3, <2>5 DEF Typed, ClientSide
    <2> QED BY <1>2, <2>6 DEF Typed
  <1>5. CASE mounted[q] # None
    <2>1. mounted' = [mounted EXCEPT ![q].subCount = @ + 1] /\ calls' = calls
      BY <1>5 DEF Subscribe
    <2>2. q \in Mounted /\ mounted[q] \in Mounts /\ mounted[q].subCount \in Nat
      BY <1>5, ClientFields DEF Typed, Mounted
    <2>3. PICK r : r = [mounted[q] EXCEPT !.subCount = @ + 1]
      OBVIOUS
    <2>4. r \in Mounts /\ r.subCount # 0
      BY <2>2, <2>3 DEF Mounts
    <2>5. mounted' = [mounted EXCEPT ![q] = r]
      BY <2>1, <2>3
    <2>6. /\ mounted' \in [Queries -> Mounts \union {None}] /\ Mounted' = Mounted \union {q}
          /\ \A p \in Mounted' : mounted'[p].subCount # 0
          /\ IsFiniteSet(Mounted')
      BY <2>4, <2>5, MountOne DEF Typed
    <2>7. Mounted' = Mounted
      BY <2>2, <2>6
    <2>8. ClientSide'
      BY <1>1, <1>3, <2>1, <2>6, <2>7 DEF Typed, ClientSide
    <2> QED BY <1>2, <2>8 DEF Typed
  <1> QED BY <1>4, <1>5

LEMMA ConnectQueryTypes ==
  ASSUME Typed, NEW k \in DOMAIN calls, ConnectQuery(k)
  PROVE  Typed'
  <1> DEFINE c == calls[k]
             m == [type |-> "CONNECT_QUERY", query |-> c.query, state |-> QueryState(c)]
  <1>1. /\ calls' = RemoveAt(calls, k)
        /\ UNCHANGED <<server, link, toClient, stored, serverReady, handlers, listener, failed, used>>
    BY DEF ConnectQuery
  <1>2. c \in Waiting /\ (c.orphan \/ c.query \in Mounted)
    BY Elements, ClientFields DEF Typed, WaitingFor
  <1>3. c.query \in Queries /\ c.timestamp \in Nat
    BY <1>2 DEF Waiting
  <1>4. calls' \in Seq(WaitingFor(Mounted))
    BY <1>1, RemoveAtType, ClientFields DEF Typed
  <1>5. m \in ToServer
    BY <1>3 DEF QueryState, State, States, ToServer
  <1>6. ServerSide' /\ link' = link /\ cache' = cache /\ checkpoint' = checkpoint
    BY <1>1, ServerStays DEF Typed, stored
  <1>7. toServer' \in {toServer, Append(toServer, m)}
    BY DEF ConnectQuery
  <1> HIDE DEF m
  <1>8. Wires'
    BY <1>1, <1>5, <1>7, SendsTo DEF Typed, Wires
  <1>9. CASE mounted' = mounted
    <2>1. Mounted' = Mounted
      BY <1>9 DEF Mounted
    <2>2. ClientSide'
      BY <1>1, <1>4, <1>6, <1>9, <2>1 DEF Typed, ClientSide
    <2> QED BY <1>6, <1>8, <2>2 DEF Typed
  <1>10. CASE mounted' # mounted
    <2>1. ~c.orphan
      BY <1>10 DEF ConnectQuery
    <2>2. mounted' = [mounted EXCEPT ![c.query] = [@ EXCEPT !.syncState = "IN_FLIGHT", !.hasSent = TRUE]]
      BY <1>10, <2>1 DEF ConnectQuery
    <2>3. c.query \in Mounted /\ mounted[c.query] \in Mounts /\ mounted[c.query].subCount # 0
      BY <1>2, <2>1, ClientFields DEF Typed
    <2>4. PICK r : r = [mounted[c.query] EXCEPT !.syncState = "IN_FLIGHT", !.hasSent = TRUE]
      OBVIOUS
    <2>5. r \in Mounts /\ r.subCount # 0
      BY <2>3, <2>4 DEF Mounts
    <2>6. mounted' = [mounted EXCEPT ![c.query] = r]
      BY <2>2, <2>4
    <2> HIDE DEF c
    <2>7. /\ mounted' \in [Queries -> Mounts \union {None}] /\ Mounted' = Mounted \union {c.query}
          /\ \A p \in Mounted' : mounted'[p].subCount # 0
          /\ IsFiniteSet(Mounted')
      BY <1>3, <2>5, <2>6, MountOne DEF Typed
    <2>8. Mounted' = Mounted
      BY <2>3, <2>7
    <2>9. ClientSide'
      BY <1>1, <1>4, <1>6, <2>7, <2>8 DEF Typed, ClientSide
    <2> QED BY <1>6, <1>8, <2>9 DEF Typed
  <1> QED BY <1>9, <1>10

LEMMA DisconnectTypes ==
  ASSUME Typed, NEW q \in Mounted, Disconnect(q)
  PROVE  /\ toServer' \in Seq(ToServer)
         /\ mounted' \in [Queries -> Mounts \union {None}]
         /\ Mounted' = Mounted \ {q}
         /\ \A p \in Mounted' : mounted'[p].subCount # 0
         /\ IsFiniteSet(Mounted')
         /\ calls' \in Seq(WaitingFor(Mounted'))
  <1>1. q \in Queries
    BY DEF Mounted
  <1>2. /\ mounted' = [mounted EXCEPT ![q] = None]
        /\ toServer' \in {toServer, Append(toServer, [type |-> "DISCONNECT_QUERY", query |-> q])}
        /\ calls' = [k \in DOMAIN calls |-> [calls[k] EXCEPT !.orphan = @ \/ calls[k].query = q]]
    BY DEF Disconnect
  <1>3. [type |-> "DISCONNECT_QUERY", query |-> q] \in ToServer
    BY <1>1 DEF ToServer
  <1>4. toServer' \in Seq(ToServer)
    BY <1>2, <1>3, SendsTo DEF Typed, Wires
  <1>5. Mounted' = Mounted \ {q}
    BY <1>1, <1>2, ClientFields DEF Typed, Mounted
  <1>6. \A p \in Mounted' : mounted'[p].subCount # 0
    BY <1>2, <1>5, ClientFields DEF Typed
  <1>7. IsFiniteSet(Mounted')
    BY <1>5, MountedFinite DEF Typed, ClientSide
  <1>8. calls' \in Seq(WaitingFor(Mounted'))
    <2> SUFFICES ASSUME NEW k \in DOMAIN calls
                 PROVE  [calls[k] EXCEPT !.orphan = @ \/ calls[k].query = q] \in WaitingFor(Mounted')
      BY <1>2, ClientFields, Elements DEF Typed
    <2>1. PICK c : c = calls[k]
      OBVIOUS
    <2>2. c \in Waiting /\ (c.orphan \/ c.query \in Mounted)
      BY <2>1, Elements, ClientFields DEF Typed, WaitingFor
    <2>3. (c.orphan \/ c.query = q) \in BOOLEAN
      BY <2>2 DEF Waiting
    <2>4. PICK b \in BOOLEAN : b = (c.orphan \/ c.query = q)
      BY <2>3
    <2>5. /\ [c EXCEPT !.orphan = b] \in Waiting /\ [c EXCEPT !.orphan = b].query = c.query
          /\ [c EXCEPT !.orphan = b].orphan = b
      BY <2>2 DEF Waiting
    <2>6. [c EXCEPT !.orphan = b] \in WaitingFor(Mounted')
      <3>1. c.query \in Mounted' \/ b
        BY <1>5, <2>2, <2>4
      <3> QED BY <2>5, <3>1 DEF WaitingFor
    <2>7. [calls[k] EXCEPT !.orphan = @ \/ calls[k].query = q] = [c EXCEPT !.orphan = b]
      BY <2>1, <2>4
    <2> QED BY <2>6, <2>7
  <1> QED BY <1>2, <1>4, <1>5, <1>6, <1>7, <1>8, ClientFields DEF Typed

LEMMA UnsubscribeTypes ==
  ASSUME Typed, NEW l \in Listeners, Unsubscribe(l)
  PROVE  Typed'
  <1> DEFINE q == listener[l]
  <1>1. /\ q \in Queries /\ listener' = [listener EXCEPT ![l] = "gone"]
        /\ UNCHANGED <<server, link, toClient, stored, serverReady, handlers, failed, used>>
    BY DEF Unsubscribe
  <1>2. /\ ServerSide' /\ link' = link /\ cache' = cache /\ checkpoint' = checkpoint
        /\ listener' \in [Listeners -> Queries \union {"new", "gone"}]
    BY <1>1, ServerStays DEF Typed, stored, ClientSide
  <1>3. CASE mounted[q] = None
    <2>1. UNCHANGED <<toServer, mounted, calls>>
      BY <1>3 DEF Unsubscribe
    <2>2. Mounted' = Mounted /\ Wires'
      BY <1>1, <2>1, WiresStay DEF Typed, Mounted
    <2>3. ClientSide'
      BY <1>1, <1>2, <2>1, <2>2 DEF Typed, ClientSide
    <2> QED BY <1>2, <2>2, <2>3 DEF Typed
  <1>4. CASE mounted[q] # None /\ mounted[q].subCount = 1
    <2>1. q \in Mounted
      BY <1>1, <1>4 DEF Mounted
    <2>2. Disconnect(q)
      BY <1>4 DEF Unsubscribe
    <2>3. /\ toServer' \in Seq(ToServer) /\ mounted' \in [Queries -> Mounts \union {None}]
          /\ (\A p \in Mounted' : mounted'[p].subCount # 0)
          /\ IsFiniteSet(Mounted') /\ calls' \in Seq(WaitingFor(Mounted'))
      BY <2>1, <2>2, DisconnectTypes
    <2>4. ClientSide' /\ Wires'
      BY <1>1, <1>2, <2>3 DEF Typed, ClientSide, Wires
    <2> QED BY <1>2, <2>4 DEF Typed
  <1>5. CASE mounted[q] # None /\ mounted[q].subCount # 1
    <2>1. mounted' = [mounted EXCEPT ![q].subCount = @ - 1] /\ UNCHANGED <<toServer, calls>>
      BY <1>5 DEF Unsubscribe
    <2>2. q \in Mounted /\ mounted[q] \in Mounts /\ mounted[q].subCount \in Nat \ {0, 1}
      BY <1>1, <1>5, ClientFields DEF Typed, Mounted
    <2>3. PICK r : r = [mounted[q] EXCEPT !.subCount = @ - 1]
      OBVIOUS
    <2>4. r \in Mounts /\ r.subCount # 0
      <3>1. mounted[q].subCount - 1 \in Nat \ {0}
        BY <2>2
      <3> QED BY <2>2, <2>3, <3>1 DEF Mounts
    <2>5. mounted' = [mounted EXCEPT ![q] = r]
      BY <2>1, <2>3
    <2> HIDE DEF q
    <2>6. /\ mounted' \in [Queries -> Mounts \union {None}] /\ Mounted' = Mounted \union {q}
          /\ \A p \in Mounted' : mounted'[p].subCount # 0
          /\ IsFiniteSet(Mounted')
      BY <1>1, <2>4, <2>5, MountOne DEF Typed
    <2>7. Mounted' = Mounted /\ Wires'
      BY <1>1, <2>1, <2>2, <2>6, WiresStay DEF Typed
    <2>8. ClientSide'
      BY <1>1, <1>2, <2>1, <2>6, <2>7 DEF Typed, ClientSide
    <2> QED BY <1>2, <2>7, <2>8 DEF Typed
  <1> QED BY <1>3, <1>4, <1>5

LEMMA HandleReadyTypes ==
  ASSUME Typed, HandleReady
  PROVE  Typed'
  <1>1. /\ toClient # <<>> /\ toClient' = Tail(toClient) /\ serverReady' = TRUE
        /\ handlers' \in {handlers, Append(handlers, Head(toClient))}
        /\ UNCHANGED <<server, link, toServer, stored, mounted, calls, listener, failed, used>>
    BY DEF HandleReady, Arrived
  <1>2. Head(toClient) \in ToClient /\ Tail(toClient) \in Seq(ToClient)
    BY <1>1, SendsTo DEF Typed
  <1>3. handlers' \in Seq(ToClient)
    <2>1. handlers \in Seq(ToClient)
      BY ClientFields DEF Typed
    <2>2. Append(handlers, Head(toClient)) \in Seq(ToClient)
      BY <1>2, <2>1
    <2> QED BY <1>1, <2>1, <2>2
  <1>4. Mounted' = Mounted
    BY <1>1 DEF Mounted
  <1>5. ClientSide' /\ Wires'
    BY <1>1, <1>2, <1>3, <1>4 DEF Typed, ClientSide, Wires, stored
  <1> QED BY <1>1, <1>5, ServerStays DEF Typed

LEMMA InitializeSyncTypes ==
  ASSUME Typed, NEW k \in DOMAIN handlers, InitializeSync(k)
  PROVE  Typed'
  <1> DEFINE new == {Call(q, None) : q \in Unsent}
  <1>1. /\ handlers' = RemoveAt(handlers, k)
        /\ calls' = IF serverReady THEN calls \o SetToSeq(new) ELSE calls
        /\ UNCHANGED <<server, link, toServer, toClient, stored, mounted, serverReady, listener,
                       failed, used>>
    BY DEF InitializeSync
  <1>2. handlers' \in Seq(ToClient)
    BY <1>1, RemoveAtType, ClientFields DEF Typed
  <1>3. Unsent \subseteq Mounted /\ IsFiniteSet(Unsent)
    <2>1. Unsent \subseteq Mounted
      BY DEF Unsent, Mounted
    <2> QED BY <2>1, FS_Subset DEF Typed, ClientSide
  <1>4. new \subseteq WaitingFor(Mounted)
    <2> SUFFICES ASSUME NEW q \in Unsent PROVE Call(q, None) \in WaitingFor(Mounted)
      OBVIOUS
    <2>1. q \in Mounted /\ q \in Queries
      BY <1>3 DEF Mounted
    <2> QED BY <2>1, CallType DEF Typed, WaitingFor
  <1>5. IsFiniteSet(new)
    <2> DEFINE f == [q \in Unsent |-> Call(q, None)]
    <2>1. f \in Surjection(Unsent, new)
      BY DEF Surjection
    <2> HIDE DEF f, new
    <2> QED BY <1>3, <2>1, FS_Surjection
  <1> HIDE DEF new
  <1>6. SetToSeq(new) \in Seq(WaitingFor(Mounted))
    <2>1. SetToSeq(new) \in Seq(new)
      BY <1>5, SetToSeqType
    <2> QED BY <1>4, <2>1
  <1>7. calls' \in Seq(WaitingFor(Mounted))
    BY <1>1, <1>6, ClientFields DEF Typed
  <1>8. Mounted' = Mounted
    BY <1>1 DEF Mounted
  <1>9. ClientSide'
    BY <1>1, <1>2, <1>7, <1>8 DEF Typed, ClientSide, stored
  <1> QED BY <1>1, <1>9, ServerStays, WiresStay DEF Typed

LEMMA HandleEntityDataTypes ==
  ASSUME Typed, HandleEntityData
  PROVE  Typed'
  <1> DEFINE m == Head(toClient)
  <1>1. /\ toClient # <<>> /\ m.type = "ENTITY_DATA" /\ toClient' = Tail(toClient)
        /\ cache' = Apply(cache, m.changes) /\ handlers' = Append(handlers, m)
        /\ UNCHANGED <<server, link, toServer, checkpoint, mounted, serverReady, calls, listener,
                       failed, used>>
    BY DEF HandleEntityData, Arrived
  <1>2. m \in ToClient /\ Tail(toClient) \in Seq(ToClient)
    BY <1>1, SendsTo DEF Typed
  <1>3. m.changes \in Changes
    BY <1>1, <1>2 DEF ToClient
  <1> HIDE DEF m
  <1>4. cache' \in Result
    BY <1>1, <1>3, ChangeTypes DEF Typed, ClientSide
  <1>5. handlers' \in Seq(ToClient)
    BY <1>1, <1>2, ClientFields DEF Typed
  <1>6. Mounted' = Mounted
    BY <1>1 DEF Mounted
  <1>7. ClientSide' /\ Wires'
    BY <1>1, <1>2, <1>4, <1>5, <1>6 DEF Typed, ClientSide, Wires
  <1> QED BY <1>1, <1>7, ServerStays DEF Typed

LEMMA EntityDataStoredTypes ==
  ASSUME Typed, NEW k \in DOMAIN handlers, EntityDataStored(k)
  PROVE  Typed'
  <1> DEFINE m == handlers[k]
  <1>1. /\ m.type = "ENTITY_DATA" /\ handlers' = RemoveAt(handlers, k)
        /\ checkpoint' = m.timestamp
        /\ mounted' = [q \in Queries |->
             IF q \in m.for /\ mounted[q] # None
             THEN [mounted[q] EXCEPT !.syncState = "FULFILLED"] ELSE mounted[q]]
        /\ UNCHANGED <<server, link, toServer, toClient, cache, serverReady, calls, listener,
                       failed, used>>
    BY DEF EntityDataStored
  <1>2. handlers' \in Seq(ToClient) /\ m \in ToClient
    BY <1>1, RemoveAtType, Elements, ClientFields DEF Typed
  <1>3. m.timestamp \in Nat
    BY <1>1, <1>2 DEF ToClient
  <1> HIDE DEF m
  <1>4. ASSUME NEW q \in Queries
        PROVE  IF q \in Mounted THEN /\ mounted'[q] \in Mounts /\ mounted'[q] # None
                                     /\ mounted'[q].subCount # 0
                                ELSE mounted'[q] = None
    <2>1. CASE q \in Mounted
      <3>1. mounted[q] \in Mounts /\ mounted[q].subCount # 0 /\ mounted[q] # None
        BY <2>1, ClientFields, NotNone DEF Typed
      <3>2. PICK r : r = [mounted[q] EXCEPT !.syncState = "FULFILLED"]
        OBVIOUS
      <3>3. r \in Mounts /\ r.subCount # 0
        BY <3>1, <3>2 DEF Mounts
      <3>4. mounted'[q] \in {r, mounted[q]}
        BY <1>1, <3>2
      <3> QED BY <2>1, <3>1, <3>3, <3>4, NotNone
    <2>2. CASE q \notin Mounted
      BY <1>1, <2>2 DEF Mounted
    <2> QED BY <2>1, <2>2
  <1>5. mounted' \in [Queries -> Mounts \union {None}]
    <2>1. \A q \in Queries : mounted'[q] \in Mounts \union {None}
      BY <1>4
    <2> QED BY <1>1, <2>1
  <1>6. Mounted' = Mounted
    BY <1>4 DEF Mounted
  <1>7. \A q \in Mounted : mounted'[q].subCount # 0
    BY <1>4 DEF Mounted
  <1>8. ClientSide'
    BY <1>1, <1>2, <1>3, <1>5, <1>6, <1>7 DEF Typed, ClientSide
  <1> QED BY <1>1, <1>8, ServerStays, WiresStay DEF Typed

LEMMA HandleErrorTypes ==
  ASSUME Typed, HandleError
  PROVE  Typed'
  <1> DEFINE q == Head(toClient).query
  <1>1. /\ toClient # <<>> /\ Head(toClient).type = "ERROR" /\ toClient' = Tail(toClient)
        /\ UNCHANGED <<server, link, stored, serverReady, handlers, listener, used>>
    BY DEF HandleError, Arrived
  <1>2. Head(toClient) \in ToClient /\ Tail(toClient) \in Seq(ToClient)
    BY <1>1, SendsTo DEF Typed
  <1>3. q \in Queries
    BY <1>1, <1>2 DEF ToClient
  <1>4. CASE mounted[q] = None
    <2>1. UNCHANGED <<toServer, mounted, calls, failed>>
      BY <1>4 DEF HandleError
    <2>2. ClientSide' /\ Wires'
      BY <1>1, <1>2, <2>1, ClientStays DEF Typed, Wires, memory
    <2> QED BY <1>1, <2>2, ServerStays DEF Typed
  <1>5. CASE mounted[q] # None
    <2>1. Disconnect(q) /\ failed' = failed \union {l \in Listeners : listener[l] = q}
      BY <1>5 DEF HandleError
    <2>2. q \in Mounted
      BY <1>3, <1>5 DEF Mounted
    <2> HIDE DEF q
    <2>3. /\ toServer' \in Seq(ToServer) /\ mounted' \in [Queries -> Mounts \union {None}]
          /\ (\A p \in Mounted' : mounted'[p].subCount # 0)
          /\ IsFiniteSet(Mounted') /\ calls' \in Seq(WaitingFor(Mounted'))
      BY <2>1, <2>2, DisconnectTypes
    <2>4. ClientSide' /\ Wires'
      BY <1>1, <1>2, <2>1, <2>3 DEF Typed, ClientSide, Wires, stored
    <2> QED BY <1>1, <2>4, ServerStays DEF Typed
  <1> QED BY <1>4, <1>5

(* A connection that is lost is a new one on the server.                   *)
LEMMA NewServerSide ==
  ASSUME ServerSide, conn' = NewConn, UNCHANGED <<store, at, now, lag>>
  PROVE  ServerSide'
  <1>1. Connected' = {}
    BY NewConnType DEF Connected
  <1>2. OneEach(conn'.entities)
    BY NewConnType DEF OneEach
  <1> QED BY <1>1, <1>2, NewConnType DEF ServerSide

LEMMA DropTypes ==
  ASSUME Typed, Drop
  PROVE  Typed'
  <1>1. /\ link' = "down" /\ conn' = NewConn /\ toServer' = <<>> /\ toClient' = <<>>
        /\ serverReady' = FALSE /\ mounted' = Reset(mounted)
        /\ UNCHANGED <<store, at, now, lag, stored, calls, handlers, listener, failed>>
    BY DEF Drop
  <1>2. ASSUME NEW q \in Queries
        PROVE  IF q \in Mounted THEN /\ mounted'[q] \in Mounts /\ mounted'[q] # None
                                     /\ mounted'[q].subCount # 0
                                ELSE mounted'[q] = None
    <2>1. CASE q \in Mounted
      <3>1. mounted[q] \in Mounts /\ mounted[q].subCount # 0 /\ mounted[q] # None
        BY <2>1, ClientFields, NotNone DEF Typed
      <3>2. PICK r : r = [mounted[q] EXCEPT !.hasSent = FALSE, !.syncState = "NOT_STARTED"]
        OBVIOUS
      <3>3. r \in Mounts /\ r.subCount # 0
        BY <3>1, <3>2 DEF Mounts
      <3>4. mounted'[q] = r
        BY <1>1, <3>1, <3>2 DEF Reset
      <3> QED BY <2>1, <3>3, <3>4, NotNone
    <2>2. CASE q \notin Mounted
      BY <1>1, <2>2 DEF Mounted, Reset
    <2> QED BY <2>1, <2>2
  <1>3. mounted' \in [Queries -> Mounts \union {None}]
    <2>1. \A q \in Queries : mounted'[q] \in Mounts \union {None}
      BY <1>2
    <2> QED BY <1>1, <2>1 DEF Reset
  <1>4. Mounted' = Mounted /\ \A q \in Mounted : mounted'[q].subCount # 0
    BY <1>2 DEF Mounted
  <1>5. ClientSide'
    BY <1>1, <1>3, <1>4 DEF Typed, ClientSide, stored
  <1>6. Wires'
    BY <1>1 DEF Wires
  <1> QED BY <1>1, <1>5, <1>6, NewServerSide DEF Typed

LEMMA CrashTypes ==
  ASSUME Typed, Crash
  PROVE  Typed'
  <1>1. /\ link' = "down" /\ conn' = NewConn /\ toServer' = <<>> /\ toClient' = <<>>
        /\ serverReady' = FALSE /\ mounted' = [q \in Queries |-> None]
        /\ calls' = <<>> /\ handlers' = <<>>
        /\ listener' = [l \in Listeners |-> IF listener[l] = "new" THEN "new" ELSE "gone"]
        /\ UNCHANGED <<store, at, now, lag, stored, failed>>
    BY DEF Crash
  <1>2. Mounted' = {} /\ IsFiniteSet({})
    BY <1>1, FS_EmptySet DEF Mounted
  <1>3. mounted' \in [Queries -> Mounts \union {None}]
    BY <1>1
  <1>4. listener' \in [Listeners -> Queries \union {"new", "gone"}]
    BY <1>1
  <1>5. calls' \in Seq(WaitingFor(Mounted')) /\ handlers' \in Seq(ToClient)
    BY <1>1
  <1>6. Wires'
    BY <1>1 DEF Wires
  <1>7. ClientSide'
    BY <1>1, <1>2, <1>3, <1>4, <1>5 DEF Typed, ClientSide, stored
  <1> QED BY <1>1, <1>6, <1>7, NewServerSide DEF Typed

LEMMA OpenTypes ==
  ASSUME Typed, Open
  PROVE  Typed'
  BY ServerStays, ClientStays, WiresStay DEF Typed, Open

LEMMA TypeInit ==
  ASSUME Init
  PROVE  Typed
  <1>1. Connected = {} /\ Mounted = {} /\ IsFiniteSet({})
    BY NewConnType, FS_EmptySet DEF Init, Connected, Mounted
  <1>2. /\ store \in Result /\ at \in [Ids -> Nat] /\ now \in Nat /\ lag \in BOOLEAN
        /\ conn = NewConn
    BY DEF Init, Result
  <1>3. ServerSide
    BY <1>1, <1>2, NewConnType DEF ServerSide, OneEach
  <1>4. /\ cache \in Result /\ checkpoint \in Nat /\ serverReady \in BOOLEAN
        /\ mounted \in [Queries -> Mounts \union {None}]
        /\ listener \in [Listeners -> Queries \union {"new", "gone"}] /\ failed \in SUBSET Listeners
    BY EmptyType DEF Init
  <1>5. calls \in Seq(WaitingFor(Mounted)) /\ handlers \in Seq(ToClient)
    BY DEF Init
  <1>6. ClientSide
    BY <1>1, <1>4, <1>5 DEF ClientSide
  <1>7. Wires /\ link \in {"up", "down"}
    BY DEF Init, Wires
  <1> QED BY <1>3, <1>6, <1>7 DEF Typed

LEMMA TypeStep ==
  ASSUME Typed, [Next]_vars
  PROVE  Typed'
  <1>1. CASE UNCHANGED vars
    BY <1>1, ServerStays, ClientStays, WiresStay DEF Typed, vars
  <1>2. CASE ServerStep
    BY <1>2, UpdateViewsTypes, BufferEntityDataTypes, BufferedTypes, FlushEntityDataTypes,
       ServerStartTypes, HandleConnectQueryTypes, HandleDisconnectQueryTypes DEF ServerStep
  <1>3. CASE RefuseConnectQuery
    BY <1>3, RefuseConnectQueryTypes
  <1>4. CASE ClientStep
    BY <1>4, ConnectQueryTypes, HandleReadyTypes, HandleEntityDataTypes, HandleErrorTypes,
       InitializeSyncTypes, EntityDataStoredTypes, OpenTypes DEF ClientStep
  <1>5. CASE \E l \in Listeners : Unsubscribe(l) \/ \E q \in Queries : Subscribe(l, q)
    BY <1>5, UnsubscribeTypes, SubscribeTypes
  <1>6. CASE \E i \in Ids, v \in Values \union {None} : Write(i, v)
    BY <1>6, WriteTypes
  <1>7. CASE Drop \/ Crash
    BY <1>7, DropTypes, CrashTypes
  <1> QED BY <1>1, <1>2, <1>3, <1>4, <1>5, <1>6, <1>7 DEF Next

(* Whatever the queries, the subscribers and the faults, and whichever     *)
(* storages yield: the state of the client, the messages and the server's  *)
(* connection are what they are taken for, and so is what an activation    *)
(* finds when it goes on after an await: the entry of the query it is for, *)
(* unless disconnectQuery or the server's handler took that away.          *)
THEOREM TypeCorrect == Spec => []TypeOK
  <1>1. Typed => TypeOK
    BY DEF Typed, ServerSide, ClientSide, TypeOK
  <1>2. Init => Typed
    BY TypeInit
  <1>3. Typed /\ [Next]_vars => Typed'
    BY TypeStep
  <1> QED BY <1>1, <1>2, <1>3, PTL DEF Spec

(* However queries come and go on it, and whether or not they are refused, *)
(* each query of a connection has an entry in queryEntities, where what it *)
(* was sent is kept to be compared with its next results, and only one.    *)
EntriesKept ==
  \A q \in Connected : \E k \in DOMAIN conn.entities :
    \A j \in DOMAIN conn.entities : conn.entities[j].query = q <=> j = k

THEOREM EntriesAreKept == Spec => []EntriesKept
  <1>1. Typed => EntriesKept
    <2> SUFFICES ASSUME Typed, NEW q \in Connected
                 PROVE  \E k \in DOMAIN conn.entities :
                          \A j \in DOMAIN conn.entities : conn.entities[j].query = q <=> j = k
      BY DEF EntriesKept
    <2>1. PICK k \in DOMAIN conn.entities : conn.entities[k].query = q
      BY DEF Typed, ServerSide, HasEntry
    <2>2. \A j \in DOMAIN conn.entities : conn.entities[j].query = q => j = k
      BY <2>1 DEF Typed, ServerSide, OneEach
    <2> QED BY <2>1, <2>2
  <1>2. Init => Typed
    BY TypeInit
  <1>3. Typed /\ [Next]_vars => Typed'
    BY TypeStep
  <1> QED BY <1>1, <1>2, <1>3, PTL DEF Spec
=============================================================================
