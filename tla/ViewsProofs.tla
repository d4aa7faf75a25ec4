---------------------------- MODULE ViewsProofs ------------------------------
(***************************************************************************)
(* Theorems about Views, for every set of queries, listeners, ids and      *)
(* values, every limit and every bound: types, and that updateViews and    *)
(* the flush forget no listener while none leaves before its first result, *)
(* and that then no change is missed by a view, if an id is inserted once. *)
(***************************************************************************)
EXTENDS Views, TLAPS, Integers, FiniteSetTheorems, WellFoundedInduction

-----------------------------------------------------------------------------
(* What the functions of Changes return.                                   *)

Stored == Entity \union {None}

(* deepObjectAssign of two changes is a change, whole if one of them is.    *)
LEMMA MergeType ==
  ASSUME NEW c \in Change, NEW d \in Change
  PROVE  Merge(c, d) \in Change /\ (Merge(c, d).whole <=> c.whole \/ d.whole)
<1> DEFINE D == DOMAIN c.fields \union DOMAIN d.fields
           f == [x \in D |-> IF x \in DOMAIN d.fields THEN d.fields[x] ELSE c.fields[x]]
<1>1. PICK C \in SUBSET Attrs : c.fields \in [C -> Values]
  BY DEF Change, Fields
<1>2. PICK E \in SUBSET Attrs : d.fields \in [E -> Values]
  BY DEF Change, Fields
<1>3. D \in SUBSET Attrs /\ f \in [D -> Values]
  BY <1>1, <1>2
<1>4. f \in Fields
  BY <1>3 DEF Fields
<1>5. c.whole \in BOOLEAN /\ d.whole \in BOOLEAN
  BY DEF Change
<1> QED BY <1>4, <1>5 DEF Merge, Change

LEMMA OverType ==
  ASSUME NEW c \in Change \union {None}, NEW d \in Change \union {None}
  PROVE  Over(c, d) \in Change \union {None}
BY MergeType DEF Over

LEMMA AppliedType ==
  ASSUME NEW e \in Stored, NEW ch \in Entry
  PROVE  Applied(e, ch) \in Stored
<1>1. ch.set \in Change \union {None}
  BY DEF Entry
<1>2. CASE ch.set = None
  BY <1>2 DEF Applied, Stored
<1>3. CASE ch.set # None
  <2>1. ASSUME NEW c \in Entity PROVE Merge(c, ch.set) \in Entity
    BY <1>1, <1>3, MergeType DEF Entity
  <2>2. IsInsert(ch.set) => ch.set \in Entity
    BY <1>1, <1>3 DEF IsInsert, Entity
  <2> QED BY <1>3, <2>1, <2>2, NoneAssumption DEF Applied, Over, Stored, Entity
<1> QED BY <1>2, <1>3

LEMMA NoEntriesType == NoEntry \in Entry /\ Deletes \in Entry /\ NoEntries \in [Ids -> Entry]
BY DEF NoEntry, Deletes, NoEntries, Entry

LEMMA MergedType ==
  ASSUME NEW l \in Entry, NEW u \in Entry
  PROVE  Merged(l, u) \in Entry
<1>1. /\ l.set \in Change \union {None} /\ u.set \in Change \union {None}
      /\ l.del \in BOOLEAN /\ u.del \in BOOLEAN
  BY DEF Entry
<1>2. Over(l.set, u.set) \in Change \union {None}
  BY <1>1, OverType
<1>3. (l.del \/ u.del) \in BOOLEAN
  OBVIOUS
<1> QED BY <1>1, <1>2, <1>3 DEF Merged, Entry

-----------------------------------------------------------------------------
(* Types.                                                                  *)

Runs == [pc : {"idle", "fetch", "update"}, of : Queries \union {None},
         read : Result \union {None}, orphan : BOOLEAN,
         fetched : SUBSET Queries, todo : SUBSET Queries]

(* A fetch is of a query.                                                  *)
RunOf == run.pc = "fetch" => run.of \in Queries

Typed == TypeOK /\ RunOf

(* What a fetch and an update of one row return are results and rows.      *)
LEMMA CutType ==
  ASSUME NEW q, NEW s \in Result
  PROVE  Cut(q, s) \in Result
BY DEF Cut, Result

(* What a fetch answers is a result.                                       *)
LEMMA AnswerType ==
  ASSUME NEW q, NEW s \in Result
  PROVE  Answer(q, s) \in Result
<1>1. [i \in Ids |-> IF Matches(q, s[i]) THEN s[i] ELSE None] \in Result
  BY DEF Result
<1> QED BY <1>1, CutType DEF Answer

(* An update in place of one row gives a row.                              *)
LEMMA InPlaceType ==
  ASSUME NEW q, NEW old \in Stored, NEW ch \in Entry, NEW now \in Stored
  PROVE  InPlace(q, old, ch, now) \in Stored
<1>1. ch.set \in Change \union {None}
  BY DEF Entry
<1>2. CASE old # None /\ ch.set # None
  <2>1. old \in Change /\ old.whole /\ ch.set \in Change
    BY <1>1, <1>2 DEF Stored, Entity
  <2>2. Merge(old, ch.set) \in Entity
    BY <2>1, MergeType DEF Entity
  <2> QED BY <1>2, <2>2 DEF InPlace, Stored
<1>3. CASE old # None /\ ch.set = None
  BY <1>3 DEF InPlace, Stored
<1>4. CASE old = None
  <2>1. IsInsert(ch.set) => ch.set \in Entity
    BY <1>1 DEF IsInsert, Entity
  <2> QED BY <1>4, <2>1 DEF InPlace, Stored
<1> QED BY <1>2, <1>3, <1>4

(* What the storage reports of a change is a change.                       *)
LEMMA EffectiveType ==
  ASSUME NEW e \in Stored, NEW ch \in Entry
  PROVE  Effective(e, ch) \in Entry
<1> DEFINE current == IF ch.del THEN None ELSE e
           news == {x \in DOMAIN ch.set.fields :
                      ~(x \in DOMAIN current.fields /\ current.fields[x] = ch.set.fields[x])}
           part == [whole |-> FALSE, fields |-> [x \in news |-> ch.set.fields[x]]]
           set == IF ch.set = None \/ (current = None /\ ~IsInsert(ch.set)) THEN None
                  ELSE IF current = None THEN ch.set
                  ELSE IF news = {} THEN None ELSE part
<1>1. ch.set \in Change \union {None} /\ ch = [set |-> ch.set, del |-> ch.del]
      /\ ch.del \in BOOLEAN
  BY DEF Entry
<1>2. ASSUME ch.set # None PROVE part \in Change
  <2>1. PICK D \in SUBSET Attrs : ch.set.fields \in [D -> Values]
    BY <1>1, <1>2 DEF Change, Fields
  <2>2. news \in SUBSET Attrs /\ [x \in news |-> ch.set.fields[x]] \in [news -> Values]
    BY <2>1
  <2> QED BY <2>2 DEF Change, Fields
<1>3. set \in Change \union {None}
  BY <1>1, <1>2
<1>4. Effective(e, ch) = [ch EXCEPT !.set = set]
  BY DEF Effective
<1> QED BY <1>1, <1>3, <1>4 DEF Entry

(* No call of updateViews at work is a value of run.                       *)
LEMMA IdleType == Idle \in Runs
BY DEF Idle, Runs

(* The next await of a call: a fetch of a query, or the affected views.    *)
LEMMA NewRunType ==
  ASSUME NEW rest \in SUBSET Queries, NEW fetched \in SUBSET Queries, NEW changes,
         store \in Result, Proceed(rest, fetched, changes)
  PROVE  run' \in Runs /\ RunOf' /\ unfetched' \in SUBSET Queries
<1> DEFINE open == {q \in rest \intersect Subscribed : results'[q] = None}
<1>1. open \in SUBSET Queries /\ unfetched' = open
  BY DEF Proceed
<1>2. CASE open = {}
  <2> DEFINE todo == IF changes = NoEntries THEN {} ELSE Subscribed \ fetched
  <2>1. run' = [Idle EXCEPT !.pc = "update", !.todo = todo]
    BY <1>2 DEF Proceed
  <2>2. todo \in SUBSET Queries
    BY DEF Subscribed
  <2> HIDE DEF todo
  <2> QED BY <1>1, <2>1, <2>2, IdleType DEF Runs, RunOf
<1>3. CASE open # {}
  <2>1. PICK q \in open :
          run' = [Idle EXCEPT !.pc = "fetch", !.of = q, !.read = Answer(q, store),
                              !.fetched = fetched]
    BY <1>3 DEF Proceed
  <2>2. q \in Queries /\ Answer(q, store) \in Result
    BY AnswerType
  <2> QED BY <1>1, <2>1, <2>2, IdleType DEF Runs, RunOf
<1> QED BY <1>2, <1>3

(* A commit keeps the types.                                               *)
LEMMA WriteType ==
  ASSUME TypeOK, NEW i \in Ids, NEW ch \in Entry, Write(i, ch)
  PROVE  TypeOK'
<1>1. store[i] \in Stored /\ Applied(store[i], ch) \in Stored
  BY AppliedType DEF TypeOK, Result, Stored
<1>2. store' \in Result
  BY <1>1 DEF Write, TypeOK, Result, Stored
<1>3. committed' \in Seq([Ids -> Entry])
  <2>1. PICK reported \in {ch, Effective(store[i], ch)} :
          committed' = Append(committed, [NoEntries EXCEPT ![i] = reported])
    BY DEF Write
  <2>2. reported \in Entry
    BY <1>1, EffectiveType
  <2>3. [NoEntries EXCEPT ![i] = reported] \in [Ids -> Entry]
    BY <2>2, NoEntriesType
  <2> QED BY <2>1, <2>3 DEF TypeOK
<1>4. used' \in [ids : SUBSET Ids, writes : Nat]
  BY DEF Write, TypeOK
<1> QED BY <1>2, <1>3, <1>4 DEF Write, TypeOK

(* The update of one view keeps the types.                                 *)
LEMMA UpdateViewType ==
  ASSUME TypeOK, NEW q \in Queries, UpdateView(q)
  PROVE  results' \in [Queries -> Result \union {None}] /\ changed' \in SUBSET Queries
         /\ run' \in Runs /\ RunOf'
<1>0. run \in Runs /\ run.pc = "update"
  BY DEF TypeOK, Runs, UpdateView
<1>1. CASE q \notin Refetched /\ results[q] = None
  <2>1. run' = Idle /\ results' = results /\ changed' = changed
    BY <1>1 DEF UpdateView
  <2> QED BY <2>1, IdleType DEF TypeOK, RunOf, Idle
<1>2. CASE q \in Refetched \/ results[q] # None
  <2> DEFINE rows == [i \in Ids |-> InPlace(q, results[q][i], Handling[i], store[i])]
             fetch == q \in Refetched \/ Backfill(q, results[q], Handling, rows)
             new == IF fetch THEN Answer(q, store) ELSE Cut(q, rows)
  <2>1. Answer(q, store) \in Result
    BY AnswerType DEF TypeOK
  <2>2. ASSUME ~fetch PROVE Cut(q, rows) \in Result
    <3>1. results[q] \in Result
      BY <1>2, <2>2 DEF TypeOK
    <3>2. ASSUME NEW i \in Ids PROVE rows[i] \in Stored
      <4>1. results[q][i] \in Stored /\ Handling[i] \in Entry /\ store[i] \in Stored
        BY <3>1 DEF TypeOK, Result, Stored, Handling
      <4> QED BY <4>1, InPlaceType
    <3>3. rows \in Result
      BY <3>2 DEF Result, Stored
    <3> QED BY <3>3, CutType
  <2>3. new \in Result
    BY <2>1, <2>2
  <2>4. results' = [results EXCEPT ![q] = new] /\ run' = [run EXCEPT !.todo = @ \ {q}]
    BY <1>2 DEF UpdateView
  <2>5. changed' = changed \union {q} \/ changed' = changed \ {q}
    BY <1>2 DEF UpdateView
  <2>6. run' \in Runs /\ run'.pc = "update"
    BY <1>0, <2>4 DEF Runs
  <2>7. results' \in [Queries -> Result \union {None}] /\ changed' \in SUBSET Queries
    BY <2>3, <2>4, <2>5 DEF TypeOK
  <2> QED BY <2>6, <2>7 DEF RunOf
<1> QED BY <1>1, <1>2

(* The initial states are typed.                                           *)
LEMMA TypeInit == Init => Typed
<1> SUFFICES ASSUME Init PROVE Typed
  OBVIOUS
<1>1. store \in Result
  BY ViewsAssumption DEF Init, Result
<1>2. run \in Runs /\ RunOf
  BY IdleType DEF Init, Idle, RunOf
<1>3. used \in [ids : SUBSET Ids, writes : Nat]
  BY DEF Init
<1>4. buffer \in [0..1 -> [Ids -> Entry]] /\ committed \in Seq([Ids -> Entry])
  BY NoEntriesType DEF Init
<1>5. results \in [Queries -> Result \union {None}]
  BY DEF Init
<1>6. told \in [Listeners -> Result \union {None}]
  BY DEF Init
<1>7. query \in [Listeners -> Queries \union {"new", "gone"}]
  BY DEF Init
<1>8. /\ changed \in SUBSET Queries /\ fresh \in SUBSET Listeners
      /\ unfetched \in SUBSET Queries
  BY Zenon DEF Init
<1>9. due \in BOOLEAN
  BY DEF Init
<1>10. active \in 0..1
  BY DEF Init
<1> QED BY <1>1, <1>2, <1>3, <1>4, <1>5, <1>6, <1>7, <1>8, <1>9, <1>10
      DEF TypeOK, Typed, Runs

(* Every step keeps the types.                                             *)
LEMMA TypeStep == Typed /\ [Next]_vars => Typed'
<1> SUFFICES ASSUME TypeOK, RunOf, [Next]_vars PROVE TypeOK' /\ RunOf'
  BY DEF Typed
<1> USE DEF RunOf
<1>0. run \in Runs /\ store \in Result /\ unfetched \in SUBSET Queries
  BY DEF TypeOK, Runs
<1>1. ASSUME NEW i \in Ids, NEW c \in Inserted, Insert(i, c) PROVE TypeOK' /\ RunOf'
  <2>1. [set |-> c, del |-> FALSE] \in Entry
    BY ViewsAssumption DEF Entry, Entity
  <2> QED BY <1>1, <2>1, WriteType DEF Insert, Write
<1>2. ASSUME NEW i \in Ids, NEW c \in Updated, Update(i, c) PROVE TypeOK' /\ RunOf'
  <2>1. [set |-> c, del |-> FALSE] \in Entry
    BY ViewsAssumption DEF Entry, Patch
  <2> QED BY <1>2, <2>1, WriteType DEF Update, Write
<1>3. ASSUME NEW i \in Ids, Delete(i) PROVE TypeOK' /\ RunOf'
  BY <1>3, NoEntriesType, WriteType DEF Delete, Write
<1>4. CASE BufferChanges
  <2>1. Head(committed) \in [Ids -> Entry] /\ Tail(committed) \in Seq([Ids -> Entry])
    BY <1>4 DEF BufferChanges, TypeOK
  <2>2. [i \in Ids |-> Merged(buffer[active][i], Head(committed)[i])] \in [Ids -> Entry]
    BY <2>1, MergedType DEF TypeOK
  <2>3. buffer' \in [0..1 -> [Ids -> Entry]]
    BY <1>4, <2>2 DEF BufferChanges, TypeOK
  <2> QED BY <1>4, <2>1, <2>3 DEF BufferChanges, TypeOK
<1>5. ASSUME NEW l \in Listeners, NEW q \in Queries, Subscribe(l, q) PROVE TypeOK' /\ RunOf'
  BY <1>5 DEF Subscribe, TypeOK
<1>6. ASSUME NEW l \in Listeners, Unsubscribe(l) PROVE TypeOK' /\ RunOf'
  <2>1. run' \in Runs /\ (run'.pc = run.pc /\ run'.of = run.of)
    <3> DEFINE q == query[l]
               kept == [run EXCEPT !.orphan = @ \/ run.of = q, !.fetched = @ \ {q},
                                   !.todo = @ \ {q}]
    <3>1. run' = kept \/ run' = run
      BY <1>6 DEF Unsubscribe
    <3>2. kept \in Runs /\ kept.pc = run.pc /\ kept.of = run.of
      BY <1>0 DEF Runs
    <3> QED BY <1>0, <3>1, <3>2
  <2>2. results' \in [Queries -> Result \union {None}] /\ changed' \in SUBSET Queries
    BY <1>6 DEF Unsubscribe, TypeOK
  <2> QED BY <1>6, <2>1, <2>2 DEF Unsubscribe, TypeOK, Runs
<1>7. CASE Start
  <2>1. Proceed(unfetched, {}, buffer[active])
    BY <1>7 DEF Start
  <2>2. run' \in Runs /\ RunOf' /\ unfetched' \in SUBSET Queries
    BY <1>0, <2>1, NewRunType
  <2>3. active' \in 0..1
    BY <1>7 DEF Start, TypeOK, Switched
  <2> QED BY <1>7, <2>2, <2>3 DEF Start, TypeOK, Runs
<1>8. CASE Fetched
  <2> DEFINE fetched == IF run.orphan THEN run.fetched ELSE run.fetched \union {run.of}
  <2>1. Proceed(unfetched \ {run.of}, fetched, Handling)
    BY <1>8 DEF Fetched
  <2>2. results' \in [Queries -> Result \union {None}]
    BY <1>0, <1>8 DEF Fetched, TypeOK, Runs
  <2>3. fetched \in SUBSET Queries
    <3>1. run.of \in Queries
      BY <1>8 DEF Fetched
    <3> QED BY <1>0, <3>1 DEF Runs
  <2>4. run' \in Runs /\ RunOf' /\ unfetched' \in SUBSET Queries
    BY <1>0, <2>1, <2>3, NewRunType
  <2> QED BY <1>8, <2>2, <2>4 DEF Fetched, TypeOK, Runs
<1>9. ASSUME NEW q \in Queries, UpdateView(q) PROVE TypeOK' /\ RunOf'
  BY <1>9, UpdateViewType DEF UpdateView, TypeOK, Runs
<1>10. CASE Finish
  <2>1. buffer' \in [0..1 -> [Ids -> Entry]]
    BY <1>10, NoEntriesType DEF Finish, Cleared, TypeOK
  <2>2. told' \in [Listeners -> Result \union {None}]
    BY <1>10 DEF Finish, TypeOK, Calls, Subscribed
  <2>3. run' \in Runs
    BY <1>10, IdleType DEF Finish
  <2> QED BY <1>10, <2>1, <2>2, <2>3 DEF Finish, Idle, TypeOK, Runs
<1>11. CASE UNCHANGED vars
  BY <1>11 DEF vars, TypeOK
<1> QED BY <1>1, <1>2, <1>3, <1>4, <1>5, <1>6, <1>7, <1>8, <1>9, <1>10, <1>11 DEF Next

(* Every variable keeps its type, whatever the application does.           *)
THEOREM TypeCorrect == Spec => []TypeOK
<1>1. Typed => TypeOK
  BY DEF Typed
<1> QED BY <1>1, TypeInit, TypeStep, PTL DEF Spec

-----------------------------------------------------------------------------
(* Pages: the cut of a result that has a limit.                            *)

(* A nonempty set of rows has one that comes first in a measure.           *)
LEMMA LeastOne ==
  ASSUME NEW T \in SUBSET Ids, T # {}, NEW f \in [Ids -> Nat]
  PROVE  \E x \in T : \A y \in T : f[x] <= f[y]
<1> DEFINE N == {f[x] : x \in T}
<1>1. N \subseteq Nat /\ N # {}
  OBVIOUS
<1>2. \E n \in N : \A m \in N : ~(<<m, n>> \in OpToRel(<, Nat))
  <2> HIDE DEF N
  <2> QED BY <1>1, NatLessThanWellFounded, WFMin
<1>3. PICK x \in T : \A m \in N : ~(<<m, f[x]>> \in OpToRel(<, Nat))
  BY <1>2
<1>4. ASSUME NEW y \in T PROVE f[x] <= f[y]
  <2>1. ~(<<f[y], f[x]>> \in OpToRel(<, Nat))
    BY <1>3
  <2>2. f[x] \in Nat /\ f[y] \in Nat
    OBVIOUS
  <2> QED BY <2>1, <2>2 DEF OpToRel
<1> QED BY <1>4

(* The order of the rows is strict and total, and an earlier row has fewer *)
(* rows before it.                                                         *)
LEMMA BeforeOrders ==
  ASSUME NEW s \in Result
  PROVE  /\ \A i \in Rows(s) : /\ Before(s, i) \in SUBSET Rows(s) /\ i \notin Before(s, i)
                               /\ IsFiniteSet(Before(s, i))
                               /\ Cardinality(Before(s, i)) \in Nat
         /\ \A i, j \in Rows(s) : j \in Before(s, i) =>
              /\ Before(s, j) \subseteq Before(s, i)
              /\ Cardinality(Before(s, j)) < Cardinality(Before(s, i))
         /\ \A i, j \in Rows(s) : i # j => i \in Before(s, j) \/ j \in Before(s, i)
<1>1. \A i \in Rows(s) : i \in Nat /\ Rank(s[i]) \in Nat
  <2>1. ASSUME NEW i \in Rows(s) PROVE i \in Nat /\ Rank(s[i]) \in Nat
    <3>1. i \in Ids /\ s[i] \in Change
      BY DEF Rows, Result, Entity
    <3>2. s[i].fields \in Fields
      BY <3>1 DEF Change
    <3>3. PICK D \in SUBSET Attrs : s[i].fields \in [D -> Values]
      BY <3>2 DEF Fields
    <3> QED BY <3>1, <3>3, ViewsAssumption DEF Rank
  <2> QED BY <2>1
<1>2. IsFiniteSet(Rows(s))
  BY FS_Subset, ViewsAssumption DEF Rows
<1>3. ASSUME NEW i \in Rows(s)
      PROVE  /\ Before(s, i) \in SUBSET Rows(s) /\ i \notin Before(s, i)
             /\ IsFiniteSet(Before(s, i)) /\ Cardinality(Before(s, i)) \in Nat
  <2>1. Before(s, i) \in SUBSET Rows(s) /\ i \notin Before(s, i)
    BY <1>1 DEF Before
  <2> QED BY <1>2, <2>1, FS_Subset, FS_CardinalityType
<1>4. ASSUME NEW i \in Rows(s), NEW j \in Rows(s), j \in Before(s, i)
      PROVE  /\ Before(s, j) \subseteq Before(s, i)
             /\ Cardinality(Before(s, j)) < Cardinality(Before(s, i))
  <2>1. Before(s, j) \subseteq Before(s, i)
    BY <1>1, <1>4 DEF Before
  <2>2. Before(s, j) # Before(s, i)
    BY <1>3, <1>4
  <2>3. Cardinality(Before(s, j)) <= Cardinality(Before(s, i))
        /\ Cardinality(Before(s, j)) # Cardinality(Before(s, i))
    BY <1>3, <2>1, <2>2, FS_Subset
  <2> QED BY <1>3, <2>1, <2>3
<1>5. ASSUME NEW i \in Rows(s), NEW j \in Rows(s), i # j
      PROVE  i \in Before(s, j) \/ j \in Before(s, i)
  BY <1>1, <1>5 DEF Before
<1> QED BY <1>3, <1>4, <1>5

(* A page has at most Limit rows.                                          *)
LEMMA CutSize ==
  ASSUME NEW q \in Limited, NEW s \in Result
  PROVE  Cardinality(Rows(Cut(q, s))) <= Limit
<1> DEFINE R == Rows(Cut(q, s))
           f == [i \in Ids |-> IF i \in R THEN Limit - Cardinality(Before(s, i)) ELSE 0]
<1>1. R = {i \in Rows(s) : Cardinality(Before(s, i)) < Limit}
  BY DEF Cut, Rows
<1>2. f \in [Ids -> Nat]
  BY <1>1, BeforeOrders, ViewsAssumption
<1>3. CASE R = {}
  BY <1>3, FS_EmptySet, ViewsAssumption
<1>4. CASE R # {}
  <2>1. R \in SUBSET Ids
    BY <1>1 DEF Rows
  <2>2. PICK m \in R : \A k \in R : f[m] <= f[k]
    <3> HIDE DEF R, f
    <3> QED BY <1>2, <1>4, <2>1, LeastOne
  <2>3. m \in Rows(s) /\ Cardinality(Before(s, m)) < Limit
        /\ IsFiniteSet(Before(s, m)) /\ m \notin Before(s, m)
        /\ Cardinality(Before(s, m)) \in Nat
    BY <1>1, BeforeOrders
  <2>4. ASSUME NEW k \in R, k # m PROVE k \in Before(s, m)
    <3>1. k \in Rows(s) /\ Cardinality(Before(s, k)) \in Nat
      BY <1>1, BeforeOrders
    <3>2. f[m] = Limit - Cardinality(Before(s, m)) /\ f[k] = Limit - Cardinality(Before(s, k))
      BY <2>1
    <3>3. Limit - Cardinality(Before(s, m)) <= Limit - Cardinality(Before(s, k))
      <4>1. f[m] <= f[k]
        <5> HIDE DEF f, R
        <5> QED BY <2>2
      <4> HIDE DEF f, R
      <4> QED BY <3>2, <4>1
    <3>4. ~(Cardinality(Before(s, m)) < Cardinality(Before(s, k)))
      <4> HIDE DEF f, R
      <4> QED BY <2>3, <3>1, <3>3, ViewsAssumption
    <3> QED BY <2>3, <2>4, <3>1, <3>4, BeforeOrders
  <2>5. R \in SUBSET (Before(s, m) \union {m})
    BY <2>4
  <2>6. IsFiniteSet(Before(s, m) \union {m})
        /\ Cardinality(Before(s, m) \union {m}) = Cardinality(Before(s, m)) + 1
    BY <2>3, FS_AddElement
  <2>7. Cardinality(R) <= Cardinality(Before(s, m) \union {m}) /\ IsFiniteSet(R)
    BY <2>5, <2>6, FS_Subset
  <2>8. Cardinality(R) \in Nat
    BY <2>7, FS_CardinalityType
  <2> QED BY <2>3, <2>6, <2>7, <2>8, ViewsAssumption
<1> QED BY <1>3, <1>4

(* If all the rows that would join a page are cut, none leaves it.         *)
LEMMA CutKeeps ==
  ASSUME NEW q \in Queries, NEW s \in Result, NEW old \in Result,
         q \in Limited => Cardinality(Rows(old)) <= Limit,
         \A i \in Ids : old[i] # None => s[i] = old[i],
         \A i \in Ids : old[i] = None => Cut(q, s)[i] = None
  PROVE  Cut(q, s) = old
<1>1. CASE q \notin Limited
  <2>1. Cut(q, s) = s
    BY <1>1 DEF Cut
  <2>2. \A i \in Ids : s[i] = old[i]
    BY <2>1
  <2> QED BY <2>1, <2>2 DEF Result
<1>2. CASE q \in Limited
  <2> DEFINE Joins == {i \in Rows(s) : old[i] = None}
  <2>1. /\ Rows(old) \subseteq Rows(s) /\ Rows(s) \subseteq Ids
        /\ Rows(s) = Rows(old) \union Joins /\ IsFiniteSet(Rows(old))
        /\ Cardinality(Rows(old)) \in Nat
    BY FS_Subset, FS_CardinalityType, ViewsAssumption DEF Rows
  <2>2. \A j \in Joins : ~(Cardinality(Before(s, j)) < Limit)
    BY <1>2 DEF Cut, Rows
  <2>3. ASSUME NEW i \in Rows(old) PROVE Cardinality(Before(s, i)) < Limit
    <3> DEFINE others == Rows(old) \ {i}
    <3>1. IsFiniteSet(others) /\ Cardinality(others) = Cardinality(Rows(old)) - 1
      BY <2>1, FS_RemoveElement
    <3>2. ASSUME NEW j \in Rows(s), Before(s, j) \subseteq others
          PROVE  Cardinality(Before(s, j)) < Limit
      <4>1. Cardinality(Before(s, j)) <= Cardinality(others)
        BY <3>1, <3>2, FS_Subset
      <4> QED BY <1>2, <2>1, <3>1, <4>1, BeforeOrders, ViewsAssumption
    <3> DEFINE T == Before(s, i) \intersect Joins
    <3>3. CASE T = {}
      <4>1. Before(s, i) \subseteq others
        BY <2>1, <3>3, BeforeOrders
      <4> QED BY <2>1, <3>2, <4>1
    <3>4. CASE T # {}
      <4> DEFINE f == [j \in Ids |-> IF j \in Rows(s) THEN Cardinality(Before(s, j)) ELSE 0]
      <4>1. f \in [Ids -> Nat] /\ T \in SUBSET Ids
        BY <2>1, BeforeOrders
      <4>2. PICK j \in T : \A k \in T : f[j] <= f[k]
        <5> HIDE DEF T, f
        <5> QED BY <3>4, <4>1, LeastOne
      <4>3. j \in Rows(s) /\ i \in Rows(s) /\ j \in Before(s, i)
        BY <2>1
      <4>4. Before(s, j) \subseteq Before(s, i)
        BY <4>3, BeforeOrders
      <4>5. i \notin Before(s, j)
        BY <4>3, <4>4, BeforeOrders
      <4>6. ASSUME NEW k \in Before(s, j), k \in Joins PROVE FALSE
        <5>1. k \in Rows(s) /\ k \in T
          BY <4>4, <4>6
        <5>2. Cardinality(Before(s, k)) < Cardinality(Before(s, j))
              /\ Cardinality(Before(s, k)) \in Nat /\ Cardinality(Before(s, j)) \in Nat
          BY <4>3, <4>6, <5>1, BeforeOrders
        <5>3. f[k] = Cardinality(Before(s, k)) /\ f[j] = Cardinality(Before(s, j))
          BY <2>1, <4>3, <5>1
        <5>4. f[j] <= f[k]
          <6> HIDE DEF T, f
          <6> QED BY <4>2, <5>1
        <5> HIDE DEF T, f
        <5> QED BY <5>2, <5>3, <5>4
      <4>7. Before(s, j) \subseteq others
        BY <2>1, <4>3, <4>5, <4>6, BeforeOrders
      <4> QED BY <2>2, <3>2, <4>3, <4>7
    <3> QED BY <3>3, <3>4
  <2>4. ASSUME NEW i \in Ids PROVE Cut(q, s)[i] = old[i]
    BY <1>2, <2>1, <2>3 DEF Cut, Rows
  <2> QED BY <2>4, CutType DEF Result
<1> QED BY <1>1, <1>2

-----------------------------------------------------------------------------
(* Listeners are called.  The cases of an update that touches nothing:     *)

(* An update that does not mark a view leaves it as it was.                *)
LEMMA UntouchedStays ==
  ASSUME NEW q \in Queries, NEW old \in Result, NEW chs \in [Ids -> Entry],
         store \in Result,
         q \in Limited => Cardinality(Rows(old)) <= Limit,
         NEW rows, rows = [i \in Ids |-> InPlace(q, old[i], chs[i], store[i])],
         \A i \in Ids : ~Touches(old[i], chs[i], Cut(q, rows)[i])
  PROVE  Cut(q, rows) = old
<1>1. rows \in Result
  <2>1. ASSUME NEW i \in Ids PROVE rows[i] \in Stored
    <3>1. old[i] \in Stored /\ chs[i] \in Entry /\ store[i] \in Stored
      BY DEF Result, Stored
    <3> QED BY <3>1, InPlaceType
  <2> QED BY <2>1 DEF Result, Stored
<1>2. ASSUME NEW i \in Ids, old[i] # None PROVE rows[i] = old[i]
  <2>1. chs[i] = NoEntry
    BY <1>2 DEF Touches
  <2>2. NoEntry.set = None /\ NoEntry.del = FALSE
    BY DEF NoEntry
  <2>3. chs[i].set = None /\ chs[i].del = FALSE
    BY Zenon, <2>1, <2>2
  <2> QED BY <1>2, <2>3 DEF InPlace
<1>3. \A i \in Ids : old[i] = None => Cut(q, rows)[i] = None
  BY DEF Touches
<1> QED BY <1>1, <1>2, <1>3, CutKeeps

(* A listener of a view without results is new, the view is on the list,   *)
(* and a call is due that has not made the list yet.                       *)
NewPart ==
  \A l \in Listeners : query[l] \in Queries /\ results[query[l]] = None => l \in fresh
ListPart == \A q \in Subscribed : results[q] = None => q \in unfetched
DuePart == run.pc # "fetch" => \A q \in Subscribed : results[q] = None => due

(* What is fetched is wanted, and what is to be updated has results and    *)
(* no mark: a mark lasts from its update to the flush of the same call.    *)
FetchPart ==
  run.pc = "fetch" => /\ run.of \in Subscribed /\ results[run.of] = None /\ ~run.orphan
                      /\ run.read \in Result
                      /\ run.of \in Limited => Cardinality(Rows(run.read)) <= Limit
TodoPart ==
  run.pc = "update" => \A q \in run.todo : results[q] # None /\ q \notin changed
MarkPart == run.pc # "update" => changed = {}

SizePart ==
  \A q \in Limited : results[q] # None => Cardinality(Rows(results[q])) <= Limit

FInv == /\ Typed /\ NewPart /\ ListPart /\ DuePart /\ FetchPart /\ TodoPart /\ MarkPart
        /\ SizePart /\ ListenersFollow

(* The answer to a query with a limit is a page.                           *)
LEMMA AnswerSize ==
  ASSUME NEW q \in Limited, store \in Result
  PROVE  Cardinality(Rows(Answer(q, store))) <= Limit
<1>1. [i \in Ids |-> IF Matches(q, store[i]) THEN store[i] ELSE None] \in Result
  BY DEF Result
<1> QED BY <1>1, CutSize DEF Answer

(* No results and an empty result are told apart.                          *)
LEMMA NoneNoResult == None \notin Result
BY ViewsAssumption DEF Result

(* The inductive invariant holds at the start.                             *)
LEMMA FInit == Init => FInv
<1> SUFFICES ASSUME Init PROVE FInv
  OBVIOUS
<1>1. Typed
  BY TypeInit
<1>2. \A l \in Listeners : query[l] = "new"
  BY DEF Init
<1>3. Subscribed = {} /\ \A l \in Listeners : query[l] \notin Queries
  BY <1>2, ViewsAssumption DEF Subscribed
<1>4. run.pc = "idle" /\ changed = {}
  BY DEF Init, Idle
<1>5. \A q \in Queries : results[q] = None
  BY DEF Init
<1> QED BY <1>1, <1>3, <1>4, <1>5, ViewsAssumption
    DEF FInv, NewPart, ListPart, DuePart, FetchPart, TodoPart, MarkPart, SizePart,
        ListenersFollow

(* What a call of updateViews goes on with is what the invariant says: a   *)
(* fetch of a query without results, or views that all have results.       *)
LEMMA FProceed ==
  ASSUME TypeOK, NewPart', ListPart, NEW rest \in SUBSET Queries,
         NEW fetched \in SUBSET Queries, NEW changes, Proceed(rest, fetched, changes),
         query' = query, store' = store,
         \A q \in Subscribed : results'[q] = None => q \in rest
  PROVE  /\ ListPart' /\ DuePart' /\ FetchPart' /\ run'.pc # "idle"
         /\ run'.pc = "update" => \A q \in run'.todo : results'[q] # None
<1> DEFINE open == {q \in rest \intersect Subscribed : results'[q] = None}
<1>1. Subscribed' = Subscribed /\ Subscribed \subseteq Queries
  BY DEF Subscribed
<1>2. unfetched' = open
  BY DEF Proceed
<1>3. ListPart'
  BY <1>1, <1>2 DEF ListPart
<1>4. CASE open = {}
  <2> DEFINE todo == IF changes = NoEntries THEN {} ELSE Subscribed \ fetched
  <2>1. run' = [Idle EXCEPT !.pc = "update", !.todo = todo]
    BY <1>4 DEF Proceed
  <2>2. run'.pc = "update" /\ run'.todo = todo
    <3> HIDE DEF todo
    <3> QED BY <2>1 DEF Idle
  <2>3. \A q \in Subscribed : results'[q] # None
    BY <1>4
  <2> QED BY <1>1, <1>3, <2>2, <2>3 DEF DuePart, FetchPart
<1>5. CASE open # {}
  <2>1. PICK q \in open :
          run' = [Idle EXCEPT !.pc = "fetch", !.of = q, !.read = Answer(q, store),
                              !.fetched = fetched]
    BY <1>5 DEF Proceed
  <2>2. /\ run'.pc = "fetch" /\ run'.of = q /\ run'.read = Answer(q, store)
        /\ run'.orphan = FALSE
    BY <2>1 DEF Idle
  <2>3. /\ q \in Subscribed /\ results'[q] = None /\ Answer(q, store) \in Result
        /\ q \in Limited => Cardinality(Rows(Answer(q, store))) <= Limit
    BY <2>1, AnswerType, AnswerSize DEF TypeOK
  <2>4. FetchPart'
    BY <1>1, <2>2, <2>3 DEF FetchPart
  <2> QED BY <1>3, <2>2, <2>4 DEF DuePart
<1> QED BY <1>4, <1>5

(* Writes and buffered changes touch nothing of the invariant.             *)
LEMMA FWrite ==
  ASSUME FInv, Typed',
         UNCHANGED <<results, changed, unfetched, query, fresh, told, run>>, due => due'
  PROVE  FInv'
<1>1. Subscribed' = Subscribed
  BY DEF Subscribed
<1> QED BY <1>1 DEF FInv, NewPart, ListPart, DuePart, FetchPart, TodoPart, MarkPart,
        SizePart, ListenersFollow

(* A new listener is fresh, its query is on the list, and a call is due.   *)
LEMMA FSubscribe ==
  ASSUME FInv, Typed', NEW l \in Listeners, NEW q \in Queries, Subscribe(l, q)
  PROVE  FInv'
<1>1. /\ query' = [query EXCEPT ![l] = q] /\ fresh' = fresh \union {l} /\ due'
      /\ unfetched' = (IF q \in Subscribed THEN unfetched ELSE unfetched \union {q})
      /\ UNCHANGED <<store, results, changed, told, run>>
  BY DEF Subscribe
<1>2. query[l] = "new" /\ query \in [Listeners -> Queries \union {"new", "gone"}]
  BY DEF Subscribe, FInv, Typed, TypeOK
<1>3. Subscribed' = Subscribed \union {q}
  BY <1>1, <1>2, ViewsAssumption DEF Subscribed
<1>4. NewPart'
  BY <1>1, <1>2 DEF FInv, NewPart
<1>5. ListPart' /\ DuePart' /\ FetchPart'
  BY <1>1, <1>3 DEF FInv, ListPart, DuePart, FetchPart
<1>6. ListenersFollow'
  BY <1>1, <1>2 DEF FInv, ListenersFollow
<1>7. TodoPart' /\ MarkPart' /\ SizePart'
  BY <1>1 DEF FInv, TodoPart, MarkPart, SizePart
<1> QED BY <1>4, <1>5, <1>6, <1>7 DEF FInv

(* A listener that leaves after its first result, and the node with the    *)
(* last of them, take nothing from the others.                             *)
LEMMA FUnsubscribe ==
  ASSUME ~EarlyUnsubscribe, FInv, Typed', NEW l \in Listeners, Unsubscribe(l)
  PROVE  FInv'
<1> DEFINE q == query[l]
           last == \A k \in Listeners \ {l} : query[k] # q
           kept == [run EXCEPT !.orphan = @ \/ run.of = q, !.fetched = @ \ {q},
                               !.todo = @ \ {q}]
<1>1. /\ q \in Queries /\ l \notin fresh /\ query' = [query EXCEPT ![l] = "gone"]
      /\ fresh' = fresh \ {l} /\ UNCHANGED <<store, unfetched, told, due>>
  BY DEF Unsubscribe
<1>2. /\ query \in [Listeners -> Queries \union {"new", "gone"}] /\ run \in Runs
      /\ results \in [Queries -> Result \union {None}]
  BY DEF FInv, Typed, TypeOK, Runs
<1>3. results[q] # None
  BY <1>1 DEF FInv, NewPart
<1>4. CASE ~last
  <2>1. UNCHANGED <<results, changed, run>>
    BY <1>4 DEF Unsubscribe
  <2>2. Subscribed' = Subscribed
    BY <1>1, <1>2, <1>4, ViewsAssumption DEF Subscribed
  <2>3. NewPart' /\ ListenersFollow'
    BY <1>1, <1>2, <2>1, ViewsAssumption DEF FInv, NewPart, ListenersFollow
  <2> QED BY <1>1, <2>1, <2>2, <2>3
      DEF FInv, ListPart, DuePart, FetchPart, TodoPart, MarkPart, SizePart
<1>5. CASE last
  <2>1. /\ results' = [results EXCEPT ![q] = None] /\ changed' = changed \ {q}
        /\ run' = kept
    BY <1>5 DEF Unsubscribe
  <2>2. Subscribed' = Subscribed \ {q}
    BY <1>1, <1>2, <1>5, ViewsAssumption DEF Subscribed
  <2>3. /\ run'.pc = run.pc /\ run'.of = run.of /\ run'.read = run.read
        /\ run'.todo = run.todo \ {q} /\ run.todo \in SUBSET Queries
        /\ run.of # q => run'.orphan = run.orphan
    <3>1. kept.orphan = (run.orphan \/ run.of = q)
      BY <1>2 DEF Runs
    <3> QED BY <1>2, <2>1, <3>1 DEF Runs
  <2>4. run.pc = "fetch" => run.of # q
    BY <1>3 DEF FInv, FetchPart
  <2>5. \A k \in Listeners : query'[k] \in Queries => query'[k] = query[k] /\ query[k] # q
    BY <1>1, <1>2, <1>5, ViewsAssumption
  <2>6. \A p \in Queries \ {q} : results'[p] = results[p]
    BY <1>2, <2>1
  <2>7. results'[q] = None
    BY <1>1, <1>2, <2>1
  <2>8. NewPart' /\ ListenersFollow'
    BY <1>1, <2>1, <2>3, <2>5, <2>6 DEF FInv, NewPart, ListenersFollow
  <2>9. ListPart' /\ DuePart'
    BY <1>1, <2>2, <2>3, <2>6 DEF FInv, ListPart, DuePart, Subscribed
  <2>10. FetchPart'
    <3>1. run.pc = "fetch" => run.of \in Queries /\ results'[run.of] = results[run.of]
      BY <2>4, <2>6 DEF FInv, FetchPart, Subscribed
    <3> QED BY <2>2, <2>3, <2>4, <3>1 DEF FInv, FetchPart
  <2>11. TodoPart' /\ MarkPart'
    BY <2>1, <2>3, <2>6 DEF FInv, TodoPart, MarkPart
  <2>12. SizePart'
    BY <2>6, <2>7, ViewsAssumption DEF FInv, SizePart
  <2> QED BY <2>8, <2>9, <2>10, <2>11, <2>12 DEF FInv
<1> QED BY <1>4, <1>5

(* A call that gets the lock keeps the invariant.                          *)
LEMMA FStart ==
  ASSUME FInv, Typed', Start
  PROVE  FInv'
<1>1. /\ Proceed(unfetched, {}, buffer[active]) /\ run.pc = "idle"
      /\ UNCHANGED <<store, results, changed, query, fresh, told>>
  BY DEF Start
<1>2. NewPart' /\ SizePart'
  BY <1>1 DEF FInv, NewPart, SizePart
<1>3. \A q \in Subscribed : results'[q] = None => q \in unfetched
  BY <1>1 DEF FInv, ListPart
<1>4. /\ ListPart' /\ DuePart' /\ FetchPart' /\ run'.pc # "idle"
      /\ run'.pc = "update" => \A q \in run'.todo : results'[q] # None
  BY <1>1, <1>2, <1>3, FProceed DEF FInv, Typed, TypeOK
<1>5. changed' = {}
  BY <1>1 DEF FInv, MarkPart
<1>6. ListenersFollow'
  BY <1>1, <1>4 DEF FInv, ListenersFollow
<1> QED BY <1>2, <1>4, <1>5, <1>6 DEF FInv, TodoPart, MarkPart

(* So does a first result that is stored,                                  *)
LEMMA FFetched ==
  ASSUME FInv, Typed', Fetched
  PROVE  FInv'
<1> DEFINE q == run.of
           fetched == IF run.orphan THEN run.fetched ELSE run.fetched \union {q}
<1>1. /\ q \in Subscribed /\ results[q] = None /\ ~run.orphan /\ run.read \in Result
      /\ q \in Limited => Cardinality(Rows(run.read)) <= Limit
      /\ run.pc = "fetch"
  BY DEF FInv, FetchPart, Fetched
<1>2. /\ results' = [results EXCEPT ![q] = run.read]
      /\ Proceed(unfetched \ {q}, fetched, Handling)
      /\ UNCHANGED <<store, changed, query, fresh, told>>
  BY <1>1 DEF Fetched
<1>3. q \in Queries /\ results \in [Queries -> Result \union {None}] /\ run \in Runs
      /\ unfetched \in SUBSET Queries
  BY <1>1 DEF Subscribed, FInv, Typed, TypeOK, Runs
<1>4. /\ results'[q] # None /\ results'[q] = run.read
      /\ \A p \in Queries \ {q} : results'[p] = results[p]
  BY <1>1, <1>2, <1>3, NoneNoResult
<1>5. NewPart'
  BY <1>2, <1>4 DEF FInv, NewPart
<1>6. SizePart'
  BY <1>1, <1>4, ViewsAssumption DEF FInv, SizePart
<1>7. \A p \in Subscribed : results'[p] = None => p \in unfetched \ {q}
  BY <1>3, <1>4 DEF FInv, ListPart, Subscribed
<1>8. fetched \in SUBSET Queries /\ unfetched \ {q} \in SUBSET Queries
  BY <1>3 DEF Runs
<1>9. /\ ListPart' /\ DuePart' /\ FetchPart' /\ run'.pc # "idle"
      /\ run'.pc = "update" => \A p \in run'.todo : results'[p] # None
  <2> HIDE DEF fetched
  <2> QED BY <1>2, <1>5, <1>7, <1>8, FProceed DEF FInv, Typed
<1>10. changed' = {}
  BY <1>1, <1>2 DEF FInv, MarkPart
<1>11. ListenersFollow'
  <2>1. ASSUME NEW l \in Listeners, query'[l] \in Queries, told'[l] # results'[query'[l]]
        PROVE  l \in fresh' \/ query'[l] \in changed'
    <3>1. CASE query[l] = q
      BY <1>1, <1>2, <1>3, <3>1 DEF FInv, NewPart
    <3>2. CASE query[l] # q
      BY <1>2, <1>4, <2>1, <3>2 DEF FInv, ListenersFollow
    <3> QED BY <3>1, <3>2
  <2> QED BY <1>9, <2>1 DEF ListenersFollow
<1> QED BY <1>5, <1>6, <1>9, <1>10, <1>11 DEF FInv, TodoPart, MarkPart

(* a view that is updated: if it is not marked, its results are as before, *)
LEMMA FUpdateView ==
  ASSUME FInv, Typed', NEW q \in Queries, UpdateView(q)
  PROVE  FInv'
<1> DEFINE rows == [i \in Ids |-> InPlace(q, results[q][i], Handling[i], store[i])]
           fetch == q \in Refetched \/ Backfill(q, results[q], Handling, rows)
           new == IF fetch THEN Answer(q, store) ELSE Cut(q, rows)
           touched == fetch \/ \E i \in Ids : Touches(results[q][i], Handling[i], new[i])
<1>1. /\ run.pc = "update" /\ q \in run.todo /\ results[q] # None /\ q \notin changed
      /\ UNCHANGED <<store, unfetched, query, fresh, told, due>>
  BY DEF FInv, TodoPart, UpdateView
<1>2. /\ results' = [results EXCEPT ![q] = new]
      /\ changed' = (IF touched THEN changed \union {q} ELSE changed \ {q})
      /\ run' = [run EXCEPT !.todo = @ \ {q}]
  BY <1>1 DEF UpdateView
<1>3. /\ results \in [Queries -> Result \union {None}] /\ run \in Runs /\ store \in Result
      /\ Handling \in [Ids -> Entry]
  BY DEF FInv, Typed, TypeOK, Runs, Handling
<1>4. results[q] \in Result
  BY <1>1, <1>3
<1>5. rows \in Result
  <2>1. ASSUME NEW i \in Ids PROVE rows[i] \in Stored
    <3>1. results[q][i] \in Stored /\ Handling[i] \in Entry /\ store[i] \in Stored
      BY <1>3, <1>4 DEF Result, Stored
    <3> QED BY <3>1, InPlaceType
  <2> QED BY <2>1 DEF Result, Stored
<1>6. new \in Result /\ (q \in Limited => Cardinality(Rows(new)) <= Limit)
  <2> HIDE DEF rows
  <2> QED BY <1>3, <1>5, AnswerType, AnswerSize, CutType, CutSize
<1>7. ASSUME ~touched PROVE new = results[q]
  <2>1. new = Cut(q, rows) /\ \A i \in Ids : ~Touches(results[q][i], Handling[i], Cut(q, rows)[i])
    BY <1>7
  <2>2. q \in Limited => Cardinality(Rows(results[q])) <= Limit
    BY <1>1 DEF FInv, SizePart
  <2>3. Cut(q, rows) = results[q]
    BY <1>3, <1>4, <2>1, <2>2, UntouchedStays
  <2> QED BY <2>1, <2>3
<1> HIDE DEF new, touched
<1>8. /\ run'.pc = "update" /\ run'.todo = run.todo \ {q} /\ run.todo \in SUBSET Queries
  BY <1>1, <1>2, <1>3 DEF Runs
<1>9. /\ results'[q] = new /\ new # None
      /\ \A p \in Queries \ {q} : results'[p] = results[p] /\ (p \in changed' <=> p \in changed)
  BY <1>2, <1>3, <1>6, NoneNoResult
<1>10. Subscribed' = Subscribed /\ Subscribed \subseteq Queries
  BY <1>1 DEF Subscribed
<1>11. NewPart' /\ ListPart' /\ DuePart' /\ FetchPart'
  BY <1>1, <1>8, <1>9, <1>10 DEF FInv, NewPart, ListPart, DuePart, FetchPart
<1>12. TodoPart' /\ MarkPart'
  BY <1>1, <1>8, <1>9 DEF FInv, TodoPart, MarkPart
<1>13. SizePart'
  BY <1>6, <1>9, ViewsAssumption DEF FInv, SizePart
<1>14. ListenersFollow'
  <2>1. ASSUME NEW l \in Listeners, query'[l] \in Queries, told'[l] # results'[query'[l]]
        PROVE  l \in fresh' \/ query'[l] \in changed'
    <3>1. CASE query[l] = q /\ touched
      BY <1>1, <1>2, <3>1
    <3>2. CASE query[l] = q /\ ~touched
      BY <1>1, <1>7, <1>9, <2>1, <3>2 DEF FInv, ListenersFollow
    <3>3. CASE query[l] # q
      BY <1>1, <1>9, <2>1, <3>3 DEF FInv, ListenersFollow
    <3> QED BY <3>1, <3>2, <3>3
  <2> QED BY <1>8, <2>1 DEF ListenersFollow
<1> QED BY <1>11, <1>12, <1>13, <1>14 DEF FInv

(* and a flush, after which only listeners without results are due a call. *)
LEMMA FFinish ==
  ASSUME FInv, Typed', Finish
  PROVE  FInv'
<1>1. /\ told' = [l \in Listeners |-> IF Calls(l) THEN results[query[l]] ELSE told[l]]
      /\ fresh' = {l \in fresh : ~Calls(l)} /\ changed' = {} /\ run.pc = "update"
      /\ run' = Idle /\ UNCHANGED <<store, results, unfetched, query, due>>
  BY DEF Finish
<1>2. run'.pc = "idle" /\ Subscribed' = Subscribed
  BY <1>1 DEF Idle, Subscribed
<1>3. \A l \in Listeners : query[l] \in Queries => query[l] \in Subscribed
  BY DEF Subscribed
<1>4. NewPart'
  BY <1>1 DEF FInv, NewPart, Calls
<1>5. ListPart' /\ DuePart' /\ FetchPart' /\ TodoPart' /\ MarkPart' /\ SizePart'
  BY <1>1, <1>2
     DEF FInv, ListPart, DuePart, FetchPart, TodoPart, MarkPart, SizePart
<1>6. ListenersFollow'
  <2>1. ASSUME NEW l \in Listeners, query'[l] \in Queries, told'[l] # results'[query'[l]]
        PROVE  l \in fresh' /\ due'
    <3>1. ~Calls(l) /\ told[l] # results[query[l]] /\ query[l] \in Subscribed
      BY <1>1, <1>3, <2>1
    <3>2. results[query[l]] = None
      BY <1>1, <3>1, <2>1 DEF Calls, FInv, ListenersFollow
    <3> QED BY <1>1, <2>1, <3>1, <3>2 DEF FInv, NewPart, DuePart
  <2> QED BY <2>1 DEF ListenersFollow
<1> QED BY <1>4, <1>5, <1>6 DEF FInv

(* Every step keeps the invariant.                                         *)
LEMMA FStep ==
  ASSUME ~EarlyUnsubscribe
  PROVE  FInv /\ [Next]_vars => FInv'
<1> SUFFICES ASSUME FInv, [Next]_vars PROVE FInv'
  OBVIOUS
<1>0. Typed'
  BY TypeStep DEF FInv
<1>1. ASSUME NEW i \in Ids, NEW ch, Write(i, ch) PROVE FInv'
  BY <1>0, <1>1, FWrite DEF Write
<1>2. CASE BufferChanges
  BY <1>0, <1>2, FWrite DEF BufferChanges
<1>3. ASSUME NEW l \in Listeners, NEW q \in Queries, Subscribe(l, q) PROVE FInv'
  BY <1>0, <1>3, FSubscribe
<1>4. ASSUME NEW l \in Listeners, Unsubscribe(l) PROVE FInv'
  BY <1>0, <1>4, FUnsubscribe
<1>5. CASE Start
  BY <1>0, <1>5, FStart
<1>6. CASE Fetched
  BY <1>0, <1>6, FFetched
<1>7. ASSUME NEW q \in Queries, UpdateView(q) PROVE FInv'
  BY <1>0, <1>7, FUpdateView
<1>8. CASE Finish
  BY <1>0, <1>8, FFinish
<1>9. CASE UNCHANGED vars
  BY <1>0, <1>9, FWrite DEF vars
<1> QED BY <1>1, <1>2, <1>3, <1>4, <1>5, <1>6, <1>7, <1>8, <1>9
    DEF Next, Insert, Update, Delete

(* No listener is forgotten: whoever was told something else than its view *)
(* holds is going to be called, if none leaves before its first result.    *)
THEOREM ListenersAreCalled ==
  ASSUME ~EarlyUnsubscribe
  PROVE  Spec => []ListenersFollow
<1>1. FInv /\ [Next]_vars => FInv'
  BY FStep
<1>2. FInv => ListenersFollow
  BY DEF FInv
<1> QED BY FInit, <1>1, <1>2, PTL DEF Spec

(* A call of updateViews finds every view it works on with its results: it *)
(* does not throw.                                                         *)
NeverThrows == run.pc = "update" => \A q \in run.todo : results[q] # None

(* No call of updateViews ends with an error, if no listener leaves before *)
(* its first result.                                                       *)
THEOREM UpdatesEnd ==
  ASSUME ~EarlyUnsubscribe
  PROVE  Spec => []NeverThrows
<1>1. FInv /\ [Next]_vars => FInv'
  BY FStep
<1>2. FInv => NeverThrows
  BY DEF FInv, TodoPart, NeverThrows
<1> QED BY FInit, <1>1, <1>2, PTL DEF Spec
-----------------------------------------------------------------------------
(* No change is missed.  The changes that a view has not taken yet are at  *)
(* stages, in the order in which it will take them: -1 is the buffer that  *)
(* updateViews handles, 0 the other one, and from 1 on those not buffered. *)

At(k, i) == IF k = -1 THEN Handling[i] ELSE IF k = 0 THEN buffer[active][i]
            ELSE committed[k][i]

(* A view counts the buffer that is handled until it has been updated.     *)
Pending(q) == \/ run.pc = "fetch" /\ q \notin run.fetched
              \/ run.pc = "update" /\ q \in run.todo
First(q) == IF Pending(q) THEN -1 ELSE 0

Stages(i, lo) == [k \in lo..Len(committed) |-> At(k, i)]

Sets(e, x) == e.set # None /\ x \in DOMAIN e.set.fields
Holds(s, d, x) == x \in DOMAIN s.fields /\ s.fields[x] = d.fields[x]
Equal(x, r, s) == /\ x \in DOMAIN r.fields <=> x \in DOMAIN s.fields
                  /\ x \in DOMAIN r.fields => r.fields[x] = s.fields[x]

(* What the store has of an entity is where its changes lead: to nothing,  *)
(* if one of them is a deletion, after which there are none; or else to    *)
(* what sets each attribute last, and that is all if there is an insertion.*)
Deleted(s, P) == \A k \in DOMAIN P : P[k].del => P[k] = Deletes /\ s = None

Nothing(s, P) ==
  s = None => \A k \in DOMAIN P : P[k] # NoEntry =>
    /\ \E m \in DOMAIN P : m >= k /\ P[m] = Deletes
    /\ P[k].del => \A m \in DOMAIN P : m > k => P[m] = NoEntry

LastSet(s, P) ==
  s # None => \A k \in DOMAIN P, x \in Attrs : Sets(P[k], x) =>
    \/ \E m \in DOMAIN P : m > k /\ Sets(P[m], x)
    \/ Holds(s, P[k].set, x)

AllSet(s, P) ==
  s # None => \A k \in DOMAIN P, x \in Attrs :
    IsInsert(P[k].set) /\ x \in DOMAIN s.fields => \E m \in DOMAIN P : m >= k /\ Sets(P[m], x)

Leads(s, P) == Deleted(s, P) /\ Nothing(s, P) /\ LastSet(s, P) /\ AllSet(s, P)

(* A row differs from the store only by changes at these stages: it is     *)
(* deleted, its attributes are set, or it is added.                        *)
Gone(P) == \E k \in DOMAIN P : P[k] = Deletes
SetIn(P, x) == \E k \in DOMAIN P : Sets(P[k], x)
Adds(q, P) == \E k \in DOMAIN P : /\ P[k].set # None
                                  /\ IsInsert(P[k].set) \/ (q \in Filtered => Sets(P[k], Key))

Fits(q, r, s, P) ==
  /\ r # None => Matches(q, r)
  /\ r # None /\ s = None => Gone(P)
  /\ r # None /\ s # None => \A x \in Attrs : Equal(x, r, s) \/ SetIn(P, x)
  /\ r = None /\ Matches(q, s) => Adds(q, P)

(* A result is the page of rows that fit.                                  *)
Right(q, R, lo) ==
  /\ \A i \in Ids : Leads(store[i], Stages(i, lo))
  /\ \E F \in Result : R = Cut(q, F) /\ \A i \in Ids : Fits(q, F[i], store[i], Stages(i, lo))

CommitPart == \A i \in Ids : Leads(store[i], Stages(i, 1))
IdsPart == \A i \in Ids \ used.ids :
             store[i] = None /\ \A k \in -1..Len(committed) : At(k, i) = NoEntry
IdlePart == run.pc = "idle" => Handling = NoEntries
ResultsPart == \A q \in Queries : results[q] # None =>
                 q \in Subscribed /\ Right(q, results[q], First(q))
ReadPart == run.pc = "fetch" => Right(run.of, run.read, 0)

VParts == CommitPart /\ IdsPart /\ IdlePart /\ ResultsPart /\ ReadPart
VInv == FInv /\ VParts

(* What an empty stage is not.                                             *)
LEMMA EmptyStage ==
  ASSUME NEW D, NEW P \in [D -> Entry], NEW k \in D
  PROVE  /\ P[k] = NoEntry <=> P[k].set = None /\ ~P[k].del
         /\ P[k] = Deletes <=> P[k].set = None /\ P[k].del
         /\ NoEntry.set = None /\ ~NoEntry.del /\ Deletes.set = None /\ Deletes.del
         /\ \A x : Sets(P[k], x) => P[k].set # None /\ P[k] # NoEntry
         /\ IsInsert(P[k].set) => P[k].set # None /\ P[k] # NoEntry
BY DEF Entry, NoEntry, Deletes, Sets, IsInsert

(* What the store has is where the later changes lead, however they are    *)
(* numbered.                                                               *)
LEMMA LeadsTail ==
  ASSUME NEW D \in SUBSET Int, NEW E \in SUBSET Int,
         NEW P \in [D -> Entry], NEW Q \in [E -> Entry], NEW s \in Stored, NEW f,
         \A k \in E : Q[k] # NoEntry => f[k] \in D /\ Q[k] = P[f[k]],
         \A k, m \in E : Q[k] # NoEntry /\ Q[m] # NoEntry => (k < m <=> f[k] < f[m]),
         \A k \in E : \A d \in D : Q[k] # NoEntry /\ P[d] # NoEntry /\ d >= f[k] =>
           \E m \in E : Q[m] # NoEntry /\ f[m] = d,
         Leads(s, P)
  PROVE  Leads(s, Q)
<1>0. DOMAIN P = D /\ DOMAIN Q = E
  OBVIOUS
<1>e. \A d \in D : /\ P[d] = Deletes <=> P[d].set = None /\ P[d].del
                   /\ P[d].del => P[d] # NoEntry
                   /\ \A x : Sets(P[d], x) => P[d] # NoEntry
  BY EmptyStage
<1>g. \A k \in E : /\ IsInsert(Q[k].set) => Q[k] # NoEntry
                   /\ Q[k].del => Q[k] # NoEntry
                   /\ \A x : Sets(Q[k], x) => Q[k] # NoEntry
  BY EmptyStage
<1>a. \A k \in D : P[k].del => P[k] = Deletes /\ s = None
  BY <1>0 DEF Leads, Deleted
<1>b. s = None => \A k \in D : P[k] # NoEntry =>
        /\ \E m \in D : m >= k /\ P[m] = Deletes
        /\ P[k].del => \A m \in D : m > k => P[m] = NoEntry
  BY <1>0 DEF Leads, Nothing
<1>c. s # None => \A k \in D, x \in Attrs : Sets(P[k], x) =>
        \/ \E m \in D : m > k /\ Sets(P[m], x)
        \/ Holds(s, P[k].set, x)
  BY <1>0 DEF Leads, LastSet
<1>d. s # None => \A k \in D, x \in Attrs :
        IsInsert(P[k].set) /\ x \in DOMAIN s.fields => \E m \in D : m >= k /\ Sets(P[m], x)
  BY <1>0 DEF Leads, AllSet
<1>1. \A k \in E, x \in Attrs :
        Sets(Q[k], x) => Q[k] # NoEntry /\ f[k] \in D /\ Sets(P[f[k]], x)
  BY <1>g DEF Sets
<1>2. ASSUME NEW k \in E, NEW d \in D, Q[k] # NoEntry, P[d] # NoEntry, d >= f[k]
      PROVE  \E m \in E : /\ m >= k /\ (d > f[k] => m > k)
                          /\ Q[m] = P[d] /\ \A x \in Attrs : Sets(P[d], x) => Sets(Q[m], x)
  <2>1. PICK m \in E : Q[m] # NoEntry /\ f[m] = d
    BY <1>2
  <2>2. Q[m] = P[d]
    BY <2>1
  <2>3. f[k] \in Int /\ d \in Int /\ m \in Int /\ k \in Int
    BY <1>2
  <2>4. m >= k
    BY <1>2, <2>1, <2>3
  <2>5. d > f[k] => m > k
    BY <1>2, <2>1, <2>3
  <2> QED BY <2>2, <2>4, <2>5 DEF Sets
<1>3. ASSUME NEW k \in E, Q[k].del PROVE Q[k] = Deletes /\ s = None
  BY <1>3, <1>a, <1>g
<1>4. ASSUME s = None, NEW k \in E, Q[k] # NoEntry
      PROVE  /\ \E m \in E : m >= k /\ Q[m] = Deletes
             /\ Q[k].del => \A m \in E : m > k => Q[m] = NoEntry
  <2>1. /\ f[k] \in D /\ P[f[k]] # NoEntry /\ P[f[k]] = Q[k]
    BY <1>4
  <2>2. PICK d \in D : d >= f[k] /\ P[d] = Deletes
    BY <1>4, <2>1, <1>b
  <2>3. P[d] # NoEntry
    BY <2>2, <1>e
  <2>4. \E m \in E : m >= k /\ Q[m] = Deletes
    BY <1>2, <1>4, <2>2, <2>3
  <2>5. ASSUME Q[k].del, NEW m \in E, m > k, Q[m] # NoEntry PROVE FALSE
    <3>1. f[m] \in D /\ P[f[m]] # NoEntry /\ f[m] > f[k]
      BY <1>4, <2>1, <2>5
    <3> QED BY <1>4, <2>1, <2>5, <3>1, <1>b
  <2> QED BY <2>4, <2>5
<1>5. ASSUME s # None, NEW k \in E, NEW x \in Attrs, Sets(Q[k], x)
      PROVE  \/ \E m \in E : m > k /\ Sets(Q[m], x)
             \/ Holds(s, Q[k].set, x)
  <2>1. Q[k] # NoEntry /\ f[k] \in D /\ Sets(P[f[k]], x) /\ Q[k] = P[f[k]]
    BY <1>1, <1>5
  <2>2. CASE Holds(s, P[f[k]].set, x)
    BY <2>1, <2>2
  <2>3. ASSUME NEW d \in D, d > f[k], Sets(P[d], x) PROVE \E m \in E : m > k /\ Sets(Q[m], x)
    <3>0. f[k] \in Int /\ d \in Int
      BY <2>1
    <3>1. P[d] # NoEntry /\ d >= f[k]
      BY <2>3, <3>0, <1>e
    <3>2. PICK m \in E : m > k /\ \A y \in Attrs : Sets(P[d], y) => Sets(Q[m], y)
      BY <1>2, <2>1, <2>3, <3>1
    <3> QED BY <2>3, <3>2
  <2>4. \/ \E d \in D : d > f[k] /\ Sets(P[d], x)
        \/ Holds(s, P[f[k]].set, x)
    BY <1>5, <2>1, <1>c
  <2> QED BY <2>2, <2>3, <2>4
<1>6. ASSUME s # None, NEW k \in E, NEW x \in Attrs, IsInsert(Q[k].set), x \in DOMAIN s.fields
      PROVE  \E m \in E : m >= k /\ Sets(Q[m], x)
  <2>1. Q[k] # NoEntry /\ f[k] \in D /\ Q[k] = P[f[k]]
    BY <1>6, <1>g
  <2>2. PICK d \in D : d >= f[k] /\ Sets(P[d], x)
    BY <1>6, <2>1, <1>d
  <2> QED BY <1>2, <2>1, <2>2, <1>e
<1>7. Deleted(s, Q) /\ Nothing(s, Q)
  BY <1>0, <1>3, <1>4 DEF Deleted, Nothing
<1>8. LastSet(s, Q) /\ AllSet(s, Q)
  BY <1>0, <1>5, <1>6 DEF LastSet, AllSet
<1> QED BY <1>7, <1>8 DEF Leads

(* A row that fits does so when its changes are found elsewhere.           *)
LEMMA FitsMore ==
  ASSUME NEW q, NEW r, NEW s, NEW P, NEW Q, Fits(q, r, s, P),
         s = None => (Gone(P) => Gone(Q)),
         s # None => \A x \in Attrs : SetIn(P, x) => SetIn(Q, x),
         s # None => (Adds(q, P) => Adds(q, Q))
  PROVE  Fits(q, r, s, Q)
<1>1. Matches(q, s) => s # None
  BY DEF Matches
<1> QED BY <1>1 DEF Fits

(* Nor do stages that have all the changes of these.                       *)
LEMMA FitsAll ==
  ASSUME NEW D, NEW E, NEW P \in [D -> Entry], NEW Q \in [E -> Entry],
         NEW q, NEW r, NEW s, Fits(q, r, s, P),
         \A d \in D : P[d] # NoEntry => \E k \in E : Q[k] = P[d]
  PROVE  Fits(q, r, s, Q)
<1>0. DOMAIN P = D /\ DOMAIN Q = E
  OBVIOUS
<1>1. ASSUME NEW d \in D
      PROVE  /\ P[d] = Deletes => P[d] # NoEntry
             /\ P[d].set # None => P[d] # NoEntry
             /\ \A x : Sets(P[d], x) => P[d] # NoEntry
  BY EmptyStage
<1>2. Gone(P) => Gone(Q)
  BY <1>0, <1>1 DEF Gone
<1>3. ASSUME NEW x, SetIn(P, x) PROVE SetIn(Q, x)
  BY <1>0, <1>1, <1>3 DEF SetIn
<1>4. Adds(q, P) => Adds(q, Q)
  BY <1>0, <1>1 DEF Adds
<1> QED BY <1>2, <1>3, <1>4, FitsMore

(* What a merged change is about.                                          *)
Joins(e, l, u) ==
  /\ e.del <=> l.del \/ u.del
  /\ e.del => e = Deletes
  /\ e = NoEntry <=> l = NoEntry /\ u = NoEntry
  /\ ~e.del => /\ \A x : Sets(e, x) <=> Sets(l, x) \/ Sets(u, x)
               /\ IsInsert(e.set) <=> IsInsert(l.set) \/ IsInsert(u.set)
               /\ e.set # None <=> l.set # None \/ u.set # None
               /\ \A x, s : Sets(u, x) /\ Holds(s, u.set, x) => Holds(s, e.set, x)
               /\ \A x, s : Sets(l, x) /\ ~Sets(u, x) /\ Holds(s, l.set, x)
                              => Holds(s, e.set, x)

(* Two changes that a buffer merges: neither is about an entity that the   *)
(* first has deleted.                                                      *)
LEMMA MergedFacts ==
  ASSUME NEW l \in Entry, NEW u \in Entry, NEW e, e = Merged(l, u),
         l.del => l = Deletes /\ u = NoEntry, u.del => u = Deletes
  PROVE  Joins(e, l, u)
<1>1. /\ l.set \in Change \union {None} /\ u.set \in Change \union {None}
      /\ l.del \in BOOLEAN /\ u.del \in BOOLEAN
  BY DEF Entry
<1>2. /\ NoEntry = [set |-> None, del |-> FALSE] /\ Deletes = [set |-> None, del |-> TRUE]
      /\ NoEntry.set = None /\ ~NoEntry.del /\ Deletes.set = None /\ Deletes.del
  BY DEF NoEntry, Deletes
<1>3. e \in Entry /\ e.del = (l.del \/ u.del)
      /\ e.set = IF u.del THEN u.set ELSE Over(l.set, u.set)
  BY MergedType DEF Merged
<1>4. l = [set |-> l.set, del |-> l.del] /\ u = [set |-> u.set, del |-> u.del]
      /\ e = [set |-> e.set, del |-> e.del]
  BY <1>3 DEF Entry
<1>5. e.del => e = Deletes
  BY <1>1, <1>2, <1>3, <1>4 DEF Over
<1>6. CASE u.set = None \/ l.set = None
  <2>1. ~e.del => e.set = IF u.set = None THEN l.set ELSE u.set
    BY <1>1, <1>3, <1>6 DEF Over
  <2>2. e = NoEntry <=> l = NoEntry /\ u = NoEntry
    BY <1>1, <1>2, <1>3, <1>4, <2>1
  <2> QED BY <1>1, <1>3, <1>5, <1>6, <2>1, <2>2 DEF Joins, Sets, Holds, IsInsert
<1>7. CASE u.set # None /\ l.set # None
  <2>1. ~l.del /\ ~u.del
    BY <1>2, <1>7
  <2>2. e.set = Merge(l.set, u.set) /\ l.set \in Change /\ u.set \in Change
    BY <1>1, <1>3, <1>7, <2>1 DEF Over
  <2>3. e.set \in Change /\ (e.set.whole <=> l.set.whole \/ u.set.whole)
    BY <2>2, MergeType
  <2>4. e.set # None
    BY <2>3, NoneAssumption
  <2>5. e.set.fields = [x \in DOMAIN l.set.fields \union DOMAIN u.set.fields |->
                          IF x \in DOMAIN u.set.fields THEN u.set.fields[x] ELSE l.set.fields[x]]
    BY <2>2 DEF Merge
  <2>6. \A x : Sets(e, x) <=> Sets(l, x) \/ Sets(u, x)
    BY <1>7, <2>4, <2>5 DEF Sets
  <2>7. \A x, s : Sets(u, x) /\ Holds(s, u.set, x) => Holds(s, e.set, x)
    BY <2>5 DEF Sets, Holds
  <2>8. \A x, s : Sets(l, x) /\ ~Sets(u, x) /\ Holds(s, l.set, x) => Holds(s, e.set, x)
    BY <1>7, <2>5 DEF Sets, Holds
  <2>9. IsInsert(e.set) <=> IsInsert(l.set) \/ IsInsert(u.set)
    BY <1>7, <2>3, <2>4 DEF IsInsert
  <2>10. e # NoEntry /\ l # NoEntry
    BY <1>2, <1>7, <2>4
  <2> QED BY <1>3, <1>5, <1>7, <2>4, <2>6, <2>7, <2>8, <2>9, <2>10 DEF Joins
<1> QED BY <1>6, <1>7

(* The oldest change that is not buffered joins those of the buffer.       *)
LEMMA StagesMerged ==
  ASSUME NEW lo \in Int, lo <= 0, NEW n \in Nat, n >= 1,
         NEW P \in [lo..n -> Entry], NEW Q \in [lo..(n - 1) -> Entry],
         Q[0] = Merged(P[0], P[1]),
         \A k \in lo..(n - 1) : (k < 0 => Q[k] = P[k]) /\ (k > 0 => Q[k] = P[k + 1]),
         NEW s \in Stored, Leads(s, P)
  PROVE  Leads(s, Q) /\ \A q, r : Fits(q, r, s, P) => Fits(q, r, s, Q)
<1> DEFINE D == lo..n
           E == lo..(n - 1)
           g == [k \in D |-> IF k <= 0 THEN k ELSE k - 1]
<1>0. DOMAIN P = D /\ DOMAIN Q = E /\ 0 \in D /\ 1 \in D /\ 0 \in E
  OBVIOUS
<1>1. \A k \in D : g[k] \in E /\ k \in Int /\ g[k] \in Int
  OBVIOUS
<1>2. \A k, m \in D : k <= m => g[k] <= g[m]
  OBVIOUS
<1>3. \A k, m \in D : k < m => g[k] < g[m] \/ (k = 0 /\ m = 1)
  OBVIOUS
<1>4. \A h \in E : h # 0 => \E k \in D : g[k] = h /\ Q[h] = P[k] /\ k # 0 /\ k # 1
  <2>1. ASSUME NEW h \in E, h < 0 PROVE h \in D /\ g[h] = h /\ Q[h] = P[h] /\ h # 0 /\ h # 1
    BY <2>1
  <2>2. ASSUME NEW h \in E, h > 0
        PROVE  h + 1 \in D /\ g[h + 1] = h /\ Q[h] = P[h + 1] /\ h + 1 # 0 /\ h + 1 # 1
    BY <2>2
  <2> HIDE DEF D, E, g
  <2>3. \A h \in E : h # 0 => h < 0 \/ h > 0
    BY DEF E
  <2> QED BY <2>1, <2>2, <2>3
<1>5. \A k \in D : k # 0 /\ k # 1 => Q[g[k]] = P[k]
  OBVIOUS
<1>6. g[0] = 0 /\ g[1] = 0
  BY <1>0
<1> HIDE DEF g, D, E
<1>7. /\ \A k \in D : P[k].del => P[k] = Deletes /\ s = None
      /\ s = None => \A k \in D : P[k] # NoEntry =>
           /\ \E m \in D : m >= k /\ P[m] = Deletes
           /\ P[k].del => \A m \in D : m > k => P[m] = NoEntry
  BY <1>0 DEF Leads, Deleted, Nothing
<1>8. \A k \in D : P[k] \in Entry
  BY DEF D
<1>9. /\ P[0].del => P[0] = Deletes /\ P[1] = NoEntry
      /\ P[1].del => P[1] = Deletes
  <2>1. P[0].del => P[0] = Deletes /\ s = None /\ P[0] # NoEntry
    BY <1>0, <1>7, EmptyStage DEF D
  <2> QED BY <1>0, <1>7, <2>1
<1> DEFINE e == Q[0]
           l == P[0]
           u == P[1]
<1>10. /\ e.del <=> l.del \/ u.del
       /\ e.del => e = Deletes
       /\ e = NoEntry <=> l = NoEntry /\ u = NoEntry
       /\ ~e.del => /\ \A x : Sets(e, x) <=> Sets(l, x) \/ Sets(u, x)
                    /\ IsInsert(e.set) <=> IsInsert(l.set) \/ IsInsert(u.set)
                    /\ e.set # None <=> l.set # None \/ u.set # None
                    /\ \A x, t : Sets(u, x) /\ Holds(t, u.set, x) => Holds(t, e.set, x)
                    /\ \A x, t : Sets(l, x) /\ ~Sets(u, x) /\ Holds(t, l.set, x)
                                   => Holds(t, e.set, x)
  <2>1. P[0] \in Entry /\ P[1] \in Entry /\ Q[0] = Merged(P[0], P[1])
    BY <1>0, <1>8
  <2>2. Joins(Q[0], P[0], P[1])
    BY <1>9, <2>1, MergedFacts
  <2> QED BY <2>2, ZenonT(30) DEF Joins
<1>11. \A k \in D : P[k] = Deletes => Q[g[k]] = Deletes
  <2>1. Deletes.del
    BY DEF Deletes
  <2>2. \A k \in D : k = 0 \/ k = 1 => (P[k] = Deletes => e = Deletes)
    BY <1>10, <2>1
  <2> QED BY <1>5, <1>6, <2>2
<1>12. \A h \in E : Q[h].del => Q[h] = Deletes /\ s = None
  <2>1. e.del => e = Deletes /\ s = None
    BY <1>0, <1>7, <1>10
  <2> QED BY <1>4, <1>7, <2>1
<1>13. Deleted(s, Q)
  BY <1>0, <1>12 DEF Deleted
<1>14. CASE s = None
  <2>1. ASSUME NEW h \in E, Q[h] # NoEntry
        PROVE  \E k \in D : g[k] = h /\ P[k] # NoEntry /\ (Q[h].del => P[k].del)
    <3>1. CASE h # 0
      BY <1>4, <2>1, <3>1
    <3>2. CASE h = 0
      <4>1. Deletes.del /\ ~NoEntry.del
        BY DEF Deletes, NoEntry
      <4>2. \/ l # NoEntry /\ (e.del => l.del)
            \/ u # NoEntry /\ (e.del => u.del)
        BY <1>10, <2>1, <3>2, <4>1
      <4> QED BY <1>0, <1>6, <3>2, <4>2
    <3> QED BY <3>1, <3>2
  <2>2. ASSUME NEW h \in E, Q[h] # NoEntry
        PROVE  \E m \in E : m >= h /\ Q[m] = Deletes
    <3>1. PICK k \in D : g[k] = h /\ P[k] # NoEntry
      BY <2>1, <2>2
    <3>2. PICK m \in D : m >= k /\ P[m] = Deletes
      BY <1>7, <1>14, <3>1
    <3>3. g[m] \in E /\ g[m] >= h /\ Q[g[m]] = Deletes
      BY <1>1, <1>2, <1>11, <3>1, <3>2
    <3> QED BY <3>3
  <2>3. ASSUME NEW h \in E, Q[h].del, NEW m \in E, m > h, Q[m] # NoEntry
        PROVE  FALSE
    <3>1. Q[h] # NoEntry
      BY <2>3 DEF NoEntry
    <3>2. PICK k \in D : g[k] = h /\ P[k] # NoEntry /\ P[k].del
      BY <2>1, <2>3, <3>1
    <3>3. PICK j \in D : g[j] = m /\ P[j] # NoEntry
      BY <2>1, <2>3
    <3>4. ~(j <= k)
      BY <1>1, <1>2, <2>3, <3>2, <3>3
    <3>5. j > k
      BY <1>1, <3>4
    <3> QED BY <1>7, <1>14, <3>2, <3>3, <3>5
  <2>4. Nothing(s, Q)
    BY <1>0, <2>2, <2>3 DEF Nothing
  <2>5. LastSet(s, Q) /\ AllSet(s, Q)
    BY <1>14 DEF LastSet, AllSet
  <2>6. Gone(P) => Gone(Q)
    BY <1>0, <1>1, <1>11 DEF Gone
  <2> QED BY <1>13, <1>14, <2>4, <2>5, <2>6, FitsMore DEF Leads
<1>15. CASE s # None
  <2>1. ~l.del /\ ~u.del /\ ~e.del
    BY <1>0, <1>7, <1>10, <1>15
  <2>2. \A k \in D, x \in Attrs : Sets(P[k], x) => Sets(Q[g[k]], x)
    BY <1>5, <1>6, <1>10, <2>1
  <2>3. /\ \A k \in D, x \in Attrs : Sets(P[k], x) =>
             \/ \E m \in D : m > k /\ Sets(P[m], x)
             \/ Holds(s, P[k].set, x)
        /\ \A k \in D, x \in Attrs : IsInsert(P[k].set) /\ x \in DOMAIN s.fields =>
             \E m \in D : m >= k /\ Sets(P[m], x)
    BY <1>0, <1>15 DEF Leads, LastSet, AllSet
  <2>4. ASSUME NEW h \in E, NEW x \in Attrs, Sets(Q[h], x)
        PROVE  \/ \E m \in E : m > h /\ Sets(Q[m], x)
               \/ Holds(s, Q[h].set, x)
    <3>1. PICK k \in D : /\ g[k] = h /\ Sets(P[k], x) /\ (k = 0 => ~Sets(u, x))
                         /\ Holds(s, P[k].set, x) => Holds(s, Q[h].set, x)
      <4>1. CASE h # 0
        BY <1>4, <2>4, <4>1
      <4>2. CASE h = 0 /\ Sets(u, x)
        BY <1>0, <1>6, <1>10, <2>1, <4>2
      <4>3. CASE h = 0 /\ ~Sets(u, x)
        BY <1>0, <1>6, <1>10, <2>1, <2>4, <4>3
      <4> QED BY <4>1, <4>2, <4>3
    <3>2. ASSUME NEW m \in D, m > k, Sets(P[m], x)
          PROVE  g[m] \in E /\ g[m] > h /\ Sets(Q[g[m]], x)
      <4>1. g[k] < g[m] \/ (k = 0 /\ m = 1)
        BY <1>1, <1>3, <3>2
      <4>2. ~(k = 0 /\ m = 1)
        BY <3>1, <3>2
      <4> QED BY <1>1, <2>2, <3>1, <3>2, <4>1, <4>2
    <3> QED BY <2>3, <3>1, <3>2
  <2>5. ASSUME NEW h \in E, NEW x \in Attrs, IsInsert(Q[h].set), x \in DOMAIN s.fields
        PROVE  \E m \in E : m >= h /\ Sets(Q[m], x)
    <3>1. PICK k \in D : g[k] = h /\ IsInsert(P[k].set)
      <4>1. CASE h # 0
        BY <1>4, <2>5, <4>1
      <4>2. CASE h = 0
        BY <1>0, <1>6, <1>10, <2>1, <2>5, <4>2
      <4> QED BY <4>1, <4>2
    <3>2. PICK m \in D : m >= k /\ Sets(P[m], x)
      BY <2>3, <2>5, <3>1
    <3>3. g[m] \in E /\ g[m] >= h /\ Sets(Q[g[m]], x)
      BY <1>1, <1>2, <2>2, <3>1, <3>2
    <3> QED BY <3>3
  <2>6. LastSet(s, Q) /\ AllSet(s, Q)
    BY <1>0, <2>4, <2>5 DEF LastSet, AllSet
  <2>7. Nothing(s, Q)
    BY <1>15 DEF Nothing
  <2>8. \A x \in Attrs : SetIn(P, x) => SetIn(Q, x)
    BY <1>0, <1>1, <2>2 DEF SetIn
  <2>9. ASSUME NEW q, Adds(q, P) PROVE Adds(q, Q)
    <3>1. PICK k \in D : /\ P[k].set # None
                         /\ IsInsert(P[k].set) \/ (q \in Filtered => Sets(P[k], Key))
      BY <1>0, <2>9 DEF Adds
    <3>2. /\ Q[g[k]].set # None
          /\ IsInsert(Q[g[k]].set) \/ (q \in Filtered => Sets(Q[g[k]], Key))
      <4>1. CASE k # 0 /\ k # 1
        BY <1>5, <3>1, <4>1
      <4>2. CASE k = 0 \/ k = 1
        BY <1>6, <1>10, <2>1, <3>1, <4>2
      <4> QED BY <4>1, <4>2
    <3> QED BY <1>0, <1>1, <3>2 DEF Adds
  <2> QED BY <1>13, <1>15, <2>6, <2>7, <2>8, <2>9, FitsMore DEF Leads
<1> QED BY <1>14, <1>15

(* A change is added, at a stage after all the others.                     *)
Grows(lo, n, P, Q) ==
  /\ lo \in Int /\ n \in Int /\ lo <= n + 1
  /\ P \in [lo..n -> Entry] /\ Q \in [lo..(n + 1) -> Entry]
  /\ \A k \in lo..n : Q[k] = P[k]

(* What stages are that have one more,                                     *)
LEMMA GrowsFacts ==
  ASSUME NEW lo, NEW n, NEW P, NEW Q, Grows(lo, n, P, Q)
  PROVE  /\ DOMAIN P = lo..n /\ DOMAIN Q = lo..(n + 1) /\ n + 1 \in DOMAIN Q
         /\ \A k \in DOMAIN P : k \in DOMAIN Q /\ Q[k] = P[k] /\ k < n + 1 /\ ~(k >= n + 1)
                                /\ P[k] \in Entry
         /\ \A k \in DOMAIN Q : k = n + 1 \/ k \in DOMAIN P
         /\ \A k \in DOMAIN Q : n + 1 >= k /\ ~(k > n + 1)
         /\ SetIn(Q, Key) <=> SetIn(P, Key) \/ Sets(Q[n + 1], Key)
         /\ \A x : SetIn(Q, x) <=> SetIn(P, x) \/ Sets(Q[n + 1], x)
         /\ Gone(Q) <=> Gone(P) \/ Q[n + 1] = Deletes
<1>1. /\ DOMAIN P = lo..n /\ DOMAIN Q = lo..(n + 1) /\ n + 1 \in DOMAIN Q
      /\ \A k \in DOMAIN P : k \in DOMAIN Q /\ Q[k] = P[k] /\ k < n + 1 /\ ~(k >= n + 1)
                             /\ P[k] \in Entry
      /\ \A k \in DOMAIN Q : k = n + 1 \/ k \in DOMAIN P
      /\ \A k \in DOMAIN Q : n + 1 >= k /\ ~(k > n + 1)
  BY DEF Grows
<1> QED BY <1>1 DEF SetIn, Gone

(* and what is added at them.                                              *)
LEMMA AddsFacts ==
  ASSUME NEW lo, NEW n, NEW P, NEW Q, Grows(lo, n, P, Q), NEW q
  PROVE  /\ Adds(q, P) => Adds(q, Q)
         /\ Q[n + 1].set # None /\ (IsInsert(Q[n + 1].set) \/ Sets(Q[n + 1], Key)) => Adds(q, Q)
BY GrowsFacts DEF Adds

(* A change of another entity,                                             *)
LEMMA NothingAdded ==
  ASSUME NEW lo, NEW n, NEW P, NEW Q, Grows(lo, n, P, Q), Q[n + 1] = NoEntry,
         NEW s \in Stored, Leads(s, P)
  PROVE  Leads(s, Q) /\ \A q, r : Fits(q, r, s, P) => Fits(q, r, s, Q)
<1> DEFINE D == lo..n
           E == lo..(n + 1)
           f == [k \in E |-> k]
<1>1. /\ DOMAIN P = D /\ DOMAIN Q = E /\ D \in SUBSET Int /\ E \in SUBSET Int
      /\ P \in [D -> Entry] /\ Q \in [E -> Entry]
  BY DEF Grows
<1> HIDE DEF D, E
<1>2. /\ \A k \in E : k = n + 1 \/ k \in D
      /\ \A k \in D : k \in E /\ Q[k] = P[k]
  BY <1>1, GrowsFacts
<1>3. /\ \A k \in E : f[k] = k
      /\ \A k \in E : Q[k] # NoEntry => f[k] \in D /\ Q[k] = P[f[k]]
  BY <1>2
<1> HIDE DEF f
<1>4. Leads(s, Q)
  <2>1. \A k, m \in E : Q[k] # NoEntry /\ Q[m] # NoEntry => (k < m <=> f[k] < f[m])
    BY <1>3
  <2>2. \A k \in E : \A d \in D : Q[k] # NoEntry /\ P[d] # NoEntry /\ d >= f[k] =>
           \E m \in E : Q[m] # NoEntry /\ f[m] = d
    BY <1>2, <1>3
  <2>3. \A k \in E : Q[k] # NoEntry => f[k] \in D /\ Q[k] = P[f[k]]
    BY <1>3
  <2>4. D \in SUBSET Int /\ E \in SUBSET Int /\ P \in [D -> Entry] /\ Q \in [E -> Entry]
    BY <1>1
  <2> HIDE <1>1, <1>2, <1>3
  <2> QED BY <2>1, <2>2, <2>3, <2>4, LeadsTail
<1>5. ASSUME NEW q, NEW r, Fits(q, r, s, P) PROVE Fits(q, r, s, Q)
  BY <1>5, GrowsFacts, AddsFacts, FitsMore
<1> QED BY <1>4, <1>5

(* an insertion,                                                           *)
LEMMA InsertAdded ==
  ASSUME NEW lo, NEW n, NEW P, NEW Q, Grows(lo, n, P, Q),
         NEW c \in Entity, Q[n + 1] = [set |-> c, del |-> FALSE],
         \A k \in DOMAIN P : P[k] = NoEntry
  PROVE  Leads(c, Q) /\ \A q, r : Fits(q, r, None, P) => Fits(q, r, c, Q)
<1>1. c # None /\ c.whole /\ c \in Change
  BY NoneAssumption DEF Entity
<1>2. /\ Q[n + 1].set = c /\ ~Q[n + 1].del
      /\ \A k \in DOMAIN P : P[k].set = None /\ ~P[k].del /\ P[k] # Deletes
  BY DEF NoEntry, Deletes
<1>3. \A k \in DOMAIN Q : Q[k].set # None \/ Q[k].del => k = n + 1
  BY <1>2, GrowsFacts
<1>4. \A x \in DOMAIN c.fields : Sets(Q[n + 1], x)
  BY <1>1, <1>2 DEF Sets
<1>5. Deleted(c, Q) /\ Nothing(c, Q)
  BY <1>1, <1>2, <1>3 DEF Deleted, Nothing
<1>6. LastSet(c, Q)
  BY <1>2, <1>3 DEF LastSet, Sets, Holds
<1>7. AllSet(c, Q)
  <2>1. ASSUME NEW k \in DOMAIN Q, NEW x \in Attrs, IsInsert(Q[k].set), x \in DOMAIN c.fields
        PROVE  \E m \in DOMAIN Q : m >= k /\ Sets(Q[m], x)
    BY <1>4, <2>1, GrowsFacts
  <2> QED BY <2>1 DEF AllSet
<1>8. ASSUME NEW q, NEW r, Fits(q, r, None, P) PROVE Fits(q, r, c, Q)
  <2>1. ~Gone(P)
    BY <1>2 DEF Gone
  <2>2. r = None
    BY <1>8, <2>1 DEF Fits
  <2>3. Adds(q, Q)
    BY <1>1, <1>2, AddsFacts DEF IsInsert
  <2> QED BY <2>2, <2>3 DEF Fits
<1> QED BY <1>5, <1>6, <1>7, <1>8 DEF Leads

(* an update,                                                              *)
LEMMA UpdateAdded ==
  ASSUME NEW lo, NEW n, NEW P, NEW Q, Grows(lo, n, P, Q),
         NEW c \in Patch, Q[n + 1] = [set |-> c, del |-> FALSE],
         NEW s \in Entity, Leads(s, P)
  PROVE  Leads(Merge(s, c), Q) /\ \A q, r : Fits(q, r, s, P) => Fits(q, r, Merge(s, c), Q)
<1> DEFINE t == Merge(s, c)
<1>1. /\ c \in Change /\ c # None /\ ~c.whole /\ s \in Change /\ s # None
      /\ t \in Change /\ t # None
  BY NoneAssumption, MergeType DEF Patch, Entity
<1>2. /\ DOMAIN t.fields = DOMAIN s.fields \union DOMAIN c.fields
      /\ \A x \in DOMAIN c.fields : t.fields[x] = c.fields[x]
      /\ \A x \in DOMAIN s.fields \ DOMAIN c.fields : t.fields[x] = s.fields[x]
  BY DEF Merge
<1> HIDE DEF t
<1>3. Q[n + 1].set = c /\ ~Q[n + 1].del /\ ~IsInsert(Q[n + 1].set)
  BY <1>1 DEF IsInsert
<1>4. \A x : Sets(Q[n + 1], x) <=> x \in DOMAIN c.fields
  BY <1>1, <1>3 DEF Sets
<1>5. Deleted(t, Q) /\ Nothing(t, Q)
  BY <1>1, <1>3, GrowsFacts DEF Leads, Deleted, Nothing
<1>6. LastSet(t, Q)
  <2>1. ASSUME NEW k \in DOMAIN Q, NEW x \in Attrs, Sets(Q[k], x)
        PROVE  \/ \E m \in DOMAIN Q : m > k /\ Sets(Q[m], x)
               \/ Holds(t, Q[k].set, x)
    <3>1. CASE k = n + 1
      BY <1>2, <1>3, <1>4, <2>1, <3>1 DEF Holds
    <3>2. CASE k # n + 1 /\ Sets(Q[n + 1], x)
      <4>1. n + 1 \in DOMAIN Q /\ n + 1 > k
        <5>1. k \in DOMAIN P /\ k < n + 1
          BY <3>2, GrowsFacts
        <5>2. k \in Int /\ n \in Int
          BY <5>1 DEF Grows
        <5> QED BY <5>1, <5>2, GrowsFacts
      <4> QED BY <3>2, <4>1
    <3>3. CASE k # n + 1 /\ ~Sets(Q[n + 1], x)
      <4>1. k \in DOMAIN P /\ Sets(P[k], x) /\ Q[k] = P[k]
        BY <2>1, <3>3, GrowsFacts
      <4>2. \/ \E m \in DOMAIN P : m > k /\ Sets(P[m], x)
            \/ Holds(s, P[k].set, x)
        BY <1>1, <4>1 DEF Leads, LastSet
      <4>3. Holds(s, P[k].set, x) => Holds(t, Q[k].set, x)
        BY <1>2, <1>4, <3>3, <4>1 DEF Holds
      <4>4. ASSUME NEW m \in DOMAIN P, m > k, Sets(P[m], x)
            PROVE  m \in DOMAIN Q /\ Sets(Q[m], x)
        BY <4>4, GrowsFacts
      <4> QED BY <4>2, <4>3, <4>4
    <3> QED BY <3>1, <3>2, <3>3
  <2> QED BY <2>1 DEF LastSet
<1>7. AllSet(t, Q)
  <2>1. ASSUME NEW k \in DOMAIN Q, NEW x \in Attrs, IsInsert(Q[k].set), x \in DOMAIN t.fields
        PROVE  \E m \in DOMAIN Q : m >= k /\ Sets(Q[m], x)
    <3>1. k \in DOMAIN P /\ P[k] = Q[k]
      BY <1>3, <2>1, GrowsFacts
    <3>2. CASE x \in DOMAIN c.fields
      BY <1>4, <3>2, GrowsFacts
    <3>3. CASE x \in DOMAIN s.fields
      <4>1. PICK m \in DOMAIN P : m >= k /\ Sets(P[m], x)
        BY <1>1, <2>1, <3>1, <3>3 DEF Leads, AllSet
      <4> QED BY <4>1, GrowsFacts
    <3> QED BY <1>2, <2>1, <3>2, <3>3
  <2> QED BY <2>1 DEF AllSet
<1>8. ASSUME NEW q, NEW r, Fits(q, r, s, P) PROVE Fits(q, r, t, Q)
  <2>1. r # None => Matches(q, r)
    BY <1>8 DEF Fits
  <2>2. ASSUME r # None, NEW x \in Attrs, ~SetIn(Q, x) PROVE Equal(x, r, t)
    <3>1. x \notin DOMAIN c.fields /\ ~SetIn(P, x)
      BY <1>4, <2>2, GrowsFacts
    <3>2. Equal(x, r, s)
      BY <1>1, <1>8, <2>2, <3>1 DEF Fits
    <3> QED BY <1>2, <3>1, <3>2 DEF Equal
  <2>3. ASSUME r = None, Matches(q, t) PROVE Adds(q, Q)
    <3>1. CASE Matches(q, s)
      BY <1>8, <2>3, <3>1, AddsFacts DEF Fits
    <3>2. CASE ~Matches(q, s)
      <4>1. Key \in DOMAIN c.fields
        BY <1>1, <1>2, <2>3, <3>2 DEF Matches
      <4> QED BY <1>1, <1>3, <1>4, <4>1, AddsFacts
    <3> QED BY <3>1, <3>2
  <2> QED BY <1>1, <2>1, <2>2, <2>3 DEF Fits
<1> QED BY <1>5, <1>6, <1>7, <1>8 DEF Leads, t

(* or a deletion.                                                          *)
LEMMA DeleteAdded ==
  ASSUME NEW lo, NEW n, NEW P, NEW Q, Grows(lo, n, P, Q), Q[n + 1] = Deletes,
         NEW s \in Entity, Leads(s, P)
  PROVE  Leads(None, Q) /\ \A q, r : Fits(q, r, s, P) => Fits(q, r, None, Q)
<1>1. s # None
  BY NoneAssumption DEF Entity
<1>2. \A k \in DOMAIN P : ~P[k].del
  BY <1>1 DEF Leads, Deleted
<1>3. Deleted(None, Q)
  BY <1>2, GrowsFacts DEF Deleted
<1>4. Nothing(None, Q)
  <2>1. ASSUME NEW k \in DOMAIN Q, Q[k] # NoEntry
        PROVE  /\ \E m \in DOMAIN Q : m >= k /\ Q[m] = Deletes
               /\ Q[k].del => \A m \in DOMAIN Q : m > k => Q[m] = NoEntry
    <3>1. n + 1 \in DOMAIN Q /\ n + 1 >= k
      BY GrowsFacts
    <3>2. Q[k].del => k = n + 1
      BY <1>2, GrowsFacts
    <3>3. \A m \in DOMAIN Q : ~(m > n + 1)
      BY GrowsFacts
    <3> QED BY <3>1, <3>2, <3>3
  <2> QED BY <2>1 DEF Nothing
<1>5. LastSet(None, Q) /\ AllSet(None, Q)
  BY DEF LastSet, AllSet
<1>6. Gone(Q)
  BY GrowsFacts
<1>7. ASSUME NEW q, NEW r, Fits(q, r, s, P) PROVE Fits(q, r, None, Q)
  BY <1>6, <1>7 DEF Fits, Matches
<1> QED BY <1>3, <1>4, <1>5, <1>7 DEF Leads

(* A view takes the first of its changes.                                  *)
Takes(n, P, Q) == /\ n \in Nat /\ P \in [-1..n -> Entry] /\ Q \in [0..n -> Entry]
                  /\ \A k \in 0..n : Q[k] = P[k]

(* What is left of the changes when the first is taken,                    *)
LEMMA TakesFacts ==
  ASSUME NEW n, NEW P, NEW Q, Takes(n, P, Q)
  PROVE  /\ -1 \in DOMAIN P /\ P[-1] \in Entry
         /\ \A k \in DOMAIN P : k >= -1 /\ (k > -1 => k # -1)
         /\ \A k \in DOMAIN P : k # -1 => k \in DOMAIN Q /\ Q[k] = P[k]
         /\ Gone(P) => Gone(Q) \/ P[-1] = Deletes
         /\ \A x : SetIn(P, x) => SetIn(Q, x) \/ Sets(P[-1], x)
         /\ \A q : SetIn(Q, Key) => Adds(q, Q)
         /\ \A q : Adds(q, P) => \/ Adds(q, Q)
                                 \/ /\ P[-1].set # None
                                    /\ IsInsert(P[-1].set) \/ (q \in Filtered => Sets(P[-1], Key))
<1>1. /\ -1 \in DOMAIN P /\ P[-1] \in Entry
      /\ \A k \in DOMAIN P : k >= -1 /\ (k > -1 => k # -1)
      /\ \A k \in DOMAIN P : k # -1 => k \in DOMAIN Q /\ Q[k] = P[k]
  BY DEF Takes
<1>2. \A q : SetIn(Q, Key) => Adds(q, Q)
  BY DEF SetIn, Adds, Sets
<1>3. \A q : Adds(q, P) => \/ Adds(q, Q)
                           \/ /\ P[-1].set # None
                              /\ IsInsert(P[-1].set) \/ (q \in Filtered => Sets(P[-1], Key))
  BY <1>1 DEF Adds
<1> QED BY <1>1, <1>2, <1>3 DEF Gone, SetIn

(* which leads to the same.                                                *)
LEMMA TakesLeads ==
  ASSUME NEW n, NEW P, NEW Q, Takes(n, P, Q), NEW s \in Stored, Leads(s, P)
  PROVE  Leads(s, Q)
<1> DEFINE D == -1..n
           E == 0..n
           f == [k \in E |-> k]
<1>1. /\ D \in SUBSET Int /\ E \in SUBSET Int /\ P \in [D -> Entry] /\ Q \in [E -> Entry]
      /\ \A k \in E : f[k] = k /\ k \in D /\ Q[k] = P[k]
  BY DEF Takes
<1>2. \A k \in E, d \in D : d >= k => d \in E
  BY DEF Takes
<1> HIDE DEF D, E, f
<1>3. \A k \in E : Q[k] # NoEntry => f[k] \in D /\ Q[k] = P[f[k]]
  BY <1>1
<1>4. \A k, m \in E : Q[k] # NoEntry /\ Q[m] # NoEntry => (k < m <=> f[k] < f[m])
  BY <1>1
<1>5. \A k \in E : \A d \in D : Q[k] # NoEntry /\ P[d] # NoEntry /\ d >= f[k] =>
        \E m \in E : Q[m] # NoEntry /\ f[m] = d
  BY <1>1, <1>2
<1> QED BY <1>1, <1>3, <1>4, <1>5, LeadsTail

(* What the first change says of an attribute that no other sets.          *)
LEMMA FirstSets ==
  ASSUME NEW n, NEW P, NEW Q, Takes(n, P, Q), NEW s \in Entity, Leads(s, P),
         NEW x \in Attrs, ~SetIn(Q, x)
  PROVE  /\ ~P[-1].del
         /\ Sets(P[-1], x) => Holds(s, P[-1].set, x)
         /\ IsInsert(P[-1].set) /\ x \in DOMAIN s.fields => Sets(P[-1], x)
<1>0. s # None
  BY NoneAssumption DEF Entity
<1>1. ASSUME NEW m \in DOMAIN P, Sets(P[m], x) PROVE ~(m > -1) /\ P[m] = P[-1]
  <2>1. m = -1
    BY <1>1, TakesFacts DEF SetIn
  <2> QED BY <2>1
<1>2. ~P[-1].del
  BY <1>0, TakesFacts DEF Leads, Deleted
<1>3. Sets(P[-1], x) => Holds(s, P[-1].set, x)
  BY <1>0, <1>1, TakesFacts DEF Leads, LastSet
<1>4. IsInsert(P[-1].set) /\ x \in DOMAIN s.fields => Sets(P[-1], x)
  <2>1. SUFFICES ASSUME IsInsert(P[-1].set), x \in DOMAIN s.fields PROVE Sets(P[-1], x)
    OBVIOUS
  <2>2. PICK m \in DOMAIN P : Sets(P[m], x)
    BY <1>0, <2>1, TakesFacts DEF Leads, AllSet
  <2> QED BY <1>1, <2>2
<1> QED BY <1>2, <1>3, <1>4

(* A row that is in the result takes it and fits.                          *)
LEMMA RowTakes ==
  ASSUME NEW n, NEW P, NEW Q, Takes(n, P, Q), NEW s \in Stored, Leads(s, P),
         NEW q, NEW r \in Entity, Fits(q, r, s, P)
  PROVE  Fits(q, InPlace(q, r, P[-1], s), s, Q)
<1> DEFINE h == P[-1]
           e == InPlace(q, r, h, s)
<1>0. r # None /\ r \in Change /\ h \in Entry
  BY NoneAssumption, TakesFacts DEF Entity
<1>1. /\ NoEntry.set = None /\ ~NoEntry.del /\ Deletes.set = None /\ Deletes.del
      /\ Matches(q, s) => s # None
  BY DEF NoEntry, Deletes, Matches
<1>2. CASE h.set = None /\ h.del
  <2>1. e = None
    BY <1>0, <1>2 DEF InPlace
  <2>2. s = None
    BY <1>2, TakesFacts DEF Leads, Deleted
  <2> QED BY <1>1, <2>1, <2>2 DEF Fits
<1>3. CASE h.set = None /\ ~h.del
  <2>1. e = r
    BY <1>0, <1>3 DEF InPlace
  <2>2. h # Deletes /\ \A x : ~Sets(h, x)
    BY <1>1, <1>3 DEF Sets
  <2>3. (Gone(P) => Gone(Q)) /\ \A x : SetIn(P, x) => SetIn(Q, x)
    BY <2>2, TakesFacts
  <2> QED BY <1>0, <2>1, <2>3 DEF Fits
<1>4. CASE h.set # None
  <2> DEFINE m == Merge(r, h.set)
  <2>1. h.set \in Change /\ m \in Change /\ m # None
    BY <1>0, <1>4, MergeType, NoneAssumption DEF Entry
  <2>2. e = IF Matches(q, m) THEN m ELSE None
    BY <1>0, <1>4 DEF InPlace
  <2>3. /\ DOMAIN m.fields = DOMAIN r.fields \union DOMAIN h.set.fields
        /\ \A x \in DOMAIN h.set.fields : m.fields[x] = h.set.fields[x]
        /\ \A x \in DOMAIN r.fields \ DOMAIN h.set.fields : m.fields[x] = r.fields[x]
    BY DEF Merge
  <2> HIDE DEF m, e, h
  <2>4. s = None => Gone(Q)
    <3>1. s = None => Gone(P)
      BY <1>0 DEF Fits
    <3>2. h # Deletes
      BY <1>1, <1>4
    <3> QED BY <3>1, <3>2, TakesFacts DEF h
  <2>5. ASSUME s # None, NEW x \in Attrs, ~SetIn(Q, x) PROVE Equal(x, m, s)
    <3>1. s \in Entity
      BY <2>5 DEF Stored
    <3>2. CASE x \in DOMAIN h.set.fields
      <4>1. Holds(s, h.set, x)
        BY <1>4, <2>5, <3>1, <3>2, FirstSets DEF Sets, h
      <4> QED BY <2>3, <3>2, <4>1 DEF Holds, Equal
    <3>3. CASE x \notin DOMAIN h.set.fields
      <4>1. ~SetIn(P, x)
        BY <2>5, <3>3, TakesFacts DEF Sets, h
      <4>2. Equal(x, r, s)
        BY <1>0, <2>5, <4>1 DEF Fits
      <4> QED BY <2>3, <3>3, <4>2 DEF Equal
    <3> QED BY <3>2, <3>3
  <2>6. ASSUME ~Matches(q, m), Matches(q, s) PROVE Adds(q, Q)
    <3>1. s # None /\ ~Equal(Key, m, s)
      BY <2>1, <2>6 DEF Matches, Equal
    <3>2. SetIn(Q, Key)
      BY <2>5, <3>1, ViewsAssumption
    <3> QED BY <3>2, TakesFacts
  <2>7. Fits(q, e, s, Q)
    BY <2>1, <2>2, <2>4, <2>5, <2>6 DEF Fits
  <2> QED BY <2>7 DEF e, h
<1> QED BY <1>2, <1>3, <1>4

(* One that joins it fits.                                                 *)
LEMMA RowJoins ==
  ASSUME NEW n, NEW P, NEW Q, Takes(n, P, Q), NEW s \in Stored, Leads(s, P), NEW q,
         InPlace(q, None, P[-1], s) # None
  PROVE  Fits(q, InPlace(q, None, P[-1], s), s, Q)
<1> DEFINE h == P[-1]
           e == InPlace(q, None, h, s)
<1>1. CASE IsInsert(h.set)
  <2>1. e = h.set /\ Matches(q, h.set) /\ h.set # None
    BY <1>1 DEF InPlace, IsInsert
  <2>2. s = None => Gone(Q)
    <3>1. SUFFICES ASSUME s = None PROVE Gone(Q)
      OBVIOUS
    <3>2. h \in Entry /\ h # NoEntry /\ h # Deletes
      BY <2>1, TakesFacts DEF NoEntry, Deletes
    <3>3. Gone(P)
      BY <3>1, <3>2, TakesFacts DEF Leads, Nothing, Gone
    <3> QED BY <3>2, <3>3, TakesFacts
  <2>3. ASSUME s # None, NEW x \in Attrs, ~SetIn(Q, x) PROVE Equal(x, h.set, s)
    <3>1. s \in Entity
      BY <2>3 DEF Stored
    <3>2. /\ Sets(h, x) => Holds(s, h.set, x)
          /\ x \in DOMAIN s.fields => Sets(h, x)
      BY <1>1, <2>3, <3>1, FirstSets
    <3> QED BY <2>1, <3>2 DEF Sets, Holds, Equal
  <2> QED BY <2>1, <2>2, <2>3 DEF Fits
<1>2. CASE ~IsInsert(h.set)
  <2>1. e = s /\ Matches(q, s) /\ s # None
    BY <1>2 DEF InPlace, Matches
  <2> QED BY <2>1 DEF Fits, Equal
<1> QED BY <1>1, <1>2

(* One that does not is no row, but if it has been cut off from the page,  *)
(* where a change that does not move it is not seen.                       *)
Unseen(q, h) ==
  ~h.del /\ (h.set = None \/ (~h.set.whole /\ q \in Filtered /\ Key \notin DOMAIN h.set.fields))

(* and one that stays out need not be in it.                               *)
LEMMA RowStaysOut ==
  ASSUME NEW n, NEW P, NEW Q, Takes(n, P, Q), NEW s \in Stored, Leads(s, P), NEW q,
         InPlace(q, None, P[-1], s) = None,
         Fits(q, None, s, P) \/ ~Unseen(q, P[-1])
  PROVE  Fits(q, None, s, Q)
<1> DEFINE h == P[-1]
<1>0. SUFFICES ASSUME Matches(q, s), ~Adds(q, Q) PROVE FALSE
  BY DEF Fits
<1>1. s # None /\ s \in Entity /\ ~SetIn(Q, Key) /\ h \in Entry
  BY <1>0, TakesFacts DEF Matches, Stored
<1>2. ~h.del
  BY <1>1, TakesFacts DEF Leads, Deleted
<1>3. ~Unseen(q, h)
  <2>1. Fits(q, None, s, P) => Adds(q, P)
    BY <1>0 DEF Fits
  <2>2. Adds(q, P) => h.set # None /\ (IsInsert(h.set) \/ (q \in Filtered => Sets(h, Key)))
    BY <1>0, TakesFacts
  <2> QED BY <2>1, <2>2 DEF Unseen, IsInsert, Sets
<1>4. h.set # None /\ (h.set.whole \/ (q \in Filtered => Key \in DOMAIN h.set.fields))
  BY <1>2, <1>3 DEF Unseen
<1>5. CASE h.set.whole
  <2>1. IsInsert(h.set) /\ ~Matches(q, h.set)
    BY <1>4, <1>5 DEF IsInsert, InPlace
  <2>2. q \in Filtered /\ Key \in DOMAIN s.fields /\ s.fields[Key] \in Wanted
    BY <1>0, <1>4, <2>1 DEF Matches
  <2>3. Sets(h, Key) /\ Holds(s, h.set, Key)
    BY <1>1, <2>1, <2>2, FirstSets, ViewsAssumption
  <2> QED BY <1>4, <2>1, <2>2, <2>3 DEF Sets, Holds, Matches
<1>6. CASE ~h.set.whole
  <2>1. InPlace(q, None, h, s) = s
    BY <1>0, <1>4, <1>6 DEF InPlace, IsInsert
  <2> QED BY <1>1, <2>1
<1> QED BY <1>5, <1>6

(* A page that is not full has all the rows.                               *)
LEMMA ShortPage ==
  ASSUME NEW q, NEW s \in Result, q \notin Limited \/ Cardinality(Rows(Cut(q, s))) # Limit
  PROVE  Cut(q, s) = s
<1>1. CASE q \notin Limited
  BY <1>1 DEF Cut
<1>2. CASE q \in Limited /\ Cardinality(Rows(Cut(q, s))) # Limit
  <2> DEFINE R == Rows(Cut(q, s))
             T == {i \in Rows(s) : ~(Cardinality(Before(s, i)) < Limit)}
             f == [i \in Ids |-> IF i \in Rows(s) THEN Cardinality(Before(s, i)) ELSE 0]
  <2>1. R = {i \in Rows(s) : Cardinality(Before(s, i)) < Limit} /\ R \subseteq Ids
    BY <1>2 DEF Cut, Rows
  <2>2. IsFiniteSet(R) /\ Cardinality(R) \in Nat /\ Cardinality(R) < Limit
    <3>1. IsFiniteSet(R) /\ Cardinality(R) \in Nat
      BY <2>1, FS_Subset, FS_CardinalityType, ViewsAssumption
    <3>2. Cardinality(R) <= Limit
      BY <1>2, CutSize
    <3> QED BY <1>2, <3>1, <3>2, ViewsAssumption
  <2>3. T = {}
    <3> SUFFICES ASSUME T # {} PROVE FALSE
      OBVIOUS
    <3>1. f \in [Ids -> Nat] /\ T \in SUBSET Ids
      BY BeforeOrders DEF Rows
    <3>2. PICK j \in T : \A k \in T : f[j] <= f[k]
      <4> HIDE DEF T, f
      <4> QED BY <3>1, LeastOne
    <3>3. ASSUME NEW k \in Before(s, j), k \in T PROVE FALSE
      <4>1. k \in Rows(s) /\ Cardinality(Before(s, k)) < Cardinality(Before(s, j))
            /\ Cardinality(Before(s, k)) \in Nat /\ Cardinality(Before(s, j)) \in Nat
        BY <3>3, BeforeOrders
      <4>2. f[k] = Cardinality(Before(s, k)) /\ f[j] = Cardinality(Before(s, j))
        BY <4>1 DEF Rows
      <4>3. f[j] <= f[k]
        <5> HIDE DEF T, f
        <5> QED BY <3>2, <3>3
      <4> HIDE DEF T, f
      <4> QED BY <4>1, <4>2, <4>3
    <3>4. Before(s, j) \subseteq R
      BY <2>1, <3>3, BeforeOrders
    <3>5. Cardinality(Before(s, j)) <= Cardinality(R) /\ Cardinality(Before(s, j)) \in Nat
      <4> HIDE DEF R
      <4> QED BY <2>2, <3>4, FS_Subset, BeforeOrders
    <3>6. ~(Cardinality(Before(s, j)) < Limit)
      OBVIOUS
    <3> HIDE DEF R, T, f
    <3> QED BY <2>2, <3>5, <3>6, ViewsAssumption
  <2>4. \A i \in Ids : Cut(q, s)[i] = s[i]
    BY <1>2, <2>3 DEF Cut, Rows
  <2> QED BY <2>4, CutType DEF Result
<1> QED BY <1>1, <1>2

(* A full page whose rows all stay where they are does not need the rows   *)
(* that have been cut off and have not moved.                              *)
Steady(old, F, rows, G) ==
  /\ \A i \in Rows(old) : rows[i] # None /\ Rank(rows[i]) = Rank(F[i])
  /\ \A i \in Ids : \/ G[i] = rows[i]
                    \/ rows[i] = None /\ F[i] # None /\ Rank(G[i]) = Rank(F[i])

(* A page that is steady is cut as the rows that fit are.                  *)
LEMMA FullPage ==
  ASSUME NEW q \in Limited, NEW F \in Result, NEW rows \in Result, NEW G \in Result,
         Cardinality(Rows(Cut(q, F))) = Limit, Steady(Cut(q, F), F, rows, G)
  PROVE  Cut(q, G) = Cut(q, rows)
<1> DEFINE O == Rows(Cut(q, F))
           D == {i \in Rows(G) : rows[i] = None}
<1>0. Steady(Cut(q, F), F, rows, G)
  OBVIOUS
<1>1. /\ O = {i \in Rows(F) : Cardinality(Before(F, i)) < Limit}
      /\ O \subseteq Ids /\ O \subseteq Rows(F) /\ O \subseteq Rows(rows) /\ O \subseteq Rows(G)
  BY <1>0 DEF Steady, Cut, Rows
<1>2. /\ Rows(G) = Rows(rows) \union D /\ D \subseteq Rows(F) /\ D \intersect O = {}
      /\ \A i \in Rows(rows) : G[i] = rows[i]
      /\ \A i \in D : Rank(G[i]) = Rank(F[i])
      /\ \A i \in O : Rank(G[i]) = Rank(F[i])
  BY <1>0 DEF Steady, Cut, Rows
<1>3. ASSUME NEW d \in D, NEW o \in O PROVE o \in Before(G, d)
  <2>1. d \in Rows(F) /\ o \in Rows(F) /\ o # d
    BY <1>1, <1>2
  <2>2. Cardinality(Before(F, o)) < Limit /\ ~(Cardinality(Before(F, d)) < Limit)
    BY <1>1, <1>2
  <2>3. /\ Cardinality(Before(F, o)) \in Nat /\ Cardinality(Before(F, d)) \in Nat
        /\ d \in Before(F, o) => Cardinality(Before(F, d)) < Cardinality(Before(F, o))
        /\ d \in Before(F, o) \/ o \in Before(F, d)
    BY <2>1, BeforeOrders
  <2>4. o \in Before(F, d)
    BY <2>2, <2>3, ViewsAssumption
  <2> QED BY <1>1, <1>2, <2>4 DEF Before
<1>4. ASSUME NEW S, IsFiniteSet(S), O \subseteq S PROVE ~(Cardinality(S) < Limit)
  <2>1. Cardinality(O) <= Cardinality(S) /\ Cardinality(O) = Limit /\ Cardinality(S) \in Nat
    BY <1>4, FS_Subset, FS_CardinalityType
  <2> QED BY <2>1, ViewsAssumption
<1>5. ASSUME NEW d \in D PROVE ~(Cardinality(Before(G, d)) < Limit)
  BY <1>3, <1>4, BeforeOrders
<1>6. ASSUME NEW j \in Rows(rows)
      PROVE  Cardinality(Before(G, j)) < Limit <=> Cardinality(Before(rows, j)) < Limit
  <2>1. \A k \in Rows(rows) : k \in Before(G, j) <=> k \in Before(rows, j)
    BY <1>2 DEF Before
  <2>2. CASE Before(G, j) \intersect D = {}
    <3>1. Before(G, j) \subseteq Rows(G) /\ Before(rows, j) \subseteq Rows(rows)
      BY DEF Before
    <3>2. Before(G, j) = Before(rows, j)
      BY <1>2, <2>1, <2>2, <3>1
    <3> QED BY <3>2
  <2>3. ASSUME NEW d \in D, d \in Before(G, j)
        PROVE  ~(Cardinality(Before(G, j)) < Limit) /\ ~(Cardinality(Before(rows, j)) < Limit)
    <3>1. j \in Rows(G) /\ d \in Rows(G)
      BY <1>2
    <3>2. O \subseteq Before(G, j)
      BY <1>3, <2>3, <3>1, BeforeOrders
    <3>3. O \subseteq Before(rows, j)
      BY <1>1, <2>1, <3>2
    <3>4. IsFiniteSet(Before(G, j)) /\ IsFiniteSet(Before(rows, j))
      BY <3>1, BeforeOrders
    <3> QED BY <1>4, <3>2, <3>3, <3>4
  <2> QED BY <2>2, <2>3
<1>7. ASSUME NEW i \in Ids PROVE Cut(q, G)[i] = Cut(q, rows)[i]
  <2>1. CASE i \in D
    BY <1>5, <2>1 DEF Cut
  <2>2. CASE i \in Rows(rows)
    BY <1>2, <1>6, <2>2 DEF Cut, Rows
  <2>3. CASE i \notin Rows(G)
    BY <1>2, <2>3 DEF Cut, Rows
  <2> QED BY <1>2, <2>1, <2>2, <2>3
<1> QED BY <1>7, CutType DEF Result

-----------------------------------------------------------------------------
(* Results.                                                                *)

(* The stages, and the one that a view takes.                              *)
LEMMA StagesType ==
  ASSUME TypeOK, NEW i \in Ids, NEW lo \in -1..1
  PROVE  /\ Len(committed) \in Nat
         /\ Stages(i, lo) \in [lo..Len(committed) -> Entry]
         /\ \A k \in lo..Len(committed) : Stages(i, lo)[k] = At(k, i)
<1>1. Len(committed) \in Nat
  BY DEF TypeOK
<1>2. ASSUME NEW k \in lo..Len(committed) PROVE At(k, i) \in Entry
  <2>1. CASE k = -1
    BY <2>1 DEF At, Handling, TypeOK
  <2>2. CASE k = 0
    BY <2>2 DEF At, TypeOK
  <2>3. CASE k # -1 /\ k # 0
    <3>1. k \in 1..Len(committed)
      BY <1>1, <2>3
    <3>2. committed[k] \in [Ids -> Entry]
      BY <3>1 DEF TypeOK
    <3> QED BY <2>3, <3>2 DEF At
  <2> QED BY <2>1, <2>2, <2>3
<1> QED BY <1>1, <1>2 DEF Stages

(* A view that is updated takes what is handled.                           *)
LEMMA StagesTake ==
  ASSUME TypeOK, NEW i \in Ids
  PROVE  Takes(Len(committed), Stages(i, -1), Stages(i, 0)) /\ Stages(i, -1)[-1] = Handling[i]
<1>1. -1 \in -1..1 /\ 0 \in -1..1
  OBVIOUS
<1>2. /\ Stages(i, -1) \in [-1..Len(committed) -> Entry] /\ Len(committed) \in Nat
      /\ \A k \in -1..Len(committed) : Stages(i, -1)[k] = At(k, i)
  BY <1>1, StagesType
<1>3. /\ Stages(i, 0) \in [0..Len(committed) -> Entry]
      /\ \A k \in 0..Len(committed) : Stages(i, 0)[k] = At(k, i)
  BY <1>1, StagesType
<1>4. \A k \in 0..Len(committed) : k \in -1..Len(committed)
  BY <1>2
<1>5. -1 \in -1..Len(committed) /\ At(-1, i) = Handling[i]
  BY <1>2 DEF At
<1> QED BY <1>2, <1>3, <1>4, <1>5 DEF Takes

(* What a query has just fetched is right.                                 *)
LEMMA AnswerRight ==
  ASSUME store \in Result, NEW q, NEW lo, \A i \in Ids : Leads(store[i], Stages(i, lo))
  PROVE  Right(q, Answer(q, store), lo)
<1> DEFINE F == [i \in Ids |-> IF Matches(q, store[i]) THEN store[i] ELSE None]
<1>1. F \in Result /\ Answer(q, store) = Cut(q, F)
  BY DEF Result, Answer
<1>2. ASSUME NEW i \in Ids PROVE Fits(q, F[i], store[i], Stages(i, lo))
  <2>1. Matches(q, store[i]) => store[i] # None
    BY DEF Matches
  <2> QED BY <2>1 DEF Fits, Equal
<1> QED BY <1>1, <1>2 DEF Right

(* If nothing is on its way, a row is what the store has, if it matches.   *)
LEMMA RowSettled ==
  ASSUME NEW D, NEW P \in [D -> Entry], \A k \in D : P[k] = NoEntry,
         NEW q, NEW r \in Stored, NEW s \in Stored, Fits(q, r, s, P)
  PROVE  r = IF Matches(q, s) THEN s ELSE None
<1>1. ~Gone(P) /\ ~Adds(q, P) /\ \A x : ~SetIn(P, x)
  BY DEF Gone, Adds, SetIn, Sets, NoEntry, Deletes
<1>2. CASE r = None
  BY <1>1, <1>2 DEF Fits
<1>3. CASE r # None
  <2>1. s # None /\ Matches(q, r) /\ \A x \in Attrs : Equal(x, r, s)
    BY <1>1, <1>3 DEF Fits
  <2>2. r \in Change /\ s \in Change /\ r.whole /\ s.whole
    BY <1>3, <2>1 DEF Stored, Entity
  <2>3. PICK A \in SUBSET Attrs : r.fields \in [A -> Values]
    BY <2>2 DEF Change, Fields
  <2>4. PICK B \in SUBSET Attrs : s.fields \in [B -> Values]
    BY <2>2 DEF Change, Fields
  <2>5. A = B /\ \A x \in A : r.fields[x] = s.fields[x]
    BY <2>1, <2>3, <2>4 DEF Equal
  <2>6. r.fields = s.fields
    BY <2>3, <2>4, <2>5
  <2>7. r = s
    BY <2>2, <2>6 DEF Change
  <2> QED BY <2>1, <2>7
<1> QED BY <1>2, <1>3

(* A row that is not reordered keeps its place.                            *)
LEMMA RankKept ==
  ASSUME NEW q, NEW r \in Entity, NEW h \in Entry, NEW s, InPlace(q, r, h, s) # None,
         ~(h.set # None /\ Key \in DOMAIN h.set.fields)
  PROVE  Rank(InPlace(q, r, h, s)) = Rank(r)
<1>1. r # None
  BY NoneAssumption DEF Entity
<1>2. CASE h.set = None
  BY <1>1, <1>2 DEF InPlace
<1>3. CASE h.set # None
  <2>1. InPlace(q, r, h, s) = Merge(r, h.set)
    BY <1>1, <1>3 DEF InPlace
  <2> QED BY <1>3, <2>1 DEF Merge, Rank
<1> QED BY <1>2, <1>3

(* The update of a page in place, when it needs no rows from outside.      *)
LEMMA PageTakes ==
  ASSUME TypeOK, NEW q \in Queries, NEW R \in Result, Right(q, R, -1),
         NEW rows, rows = [i \in Ids |-> InPlace(q, R[i], Handling[i], store[i])],
         ~Backfill(q, R, Handling, rows)
  PROVE  Right(q, Cut(q, rows), 0)
<1>1. PICK F \in Result :
        R = Cut(q, F) /\ \A i \in Ids : Fits(q, F[i], store[i], Stages(i, -1))
  BY DEF Right
<1>2. ASSUME NEW i \in Ids
      PROVE  /\ store[i] \in Stored /\ R[i] \in Stored /\ F[i] \in Stored /\ Handling[i] \in Entry
             /\ Leads(store[i], Stages(i, -1)) /\ Leads(store[i], Stages(i, 0))
             /\ Takes(Len(committed), Stages(i, -1), Stages(i, 0))
             /\ Stages(i, -1)[-1] = Handling[i]
  <2>1. store[i] \in Stored /\ R[i] \in Stored /\ F[i] \in Stored /\ Handling[i] \in Entry
    BY DEF TypeOK, Result, Stored, Handling
  <2>2. Leads(store[i], Stages(i, -1))
    BY DEF Right
  <2>3. Takes(Len(committed), Stages(i, -1), Stages(i, 0)) /\ Stages(i, -1)[-1] = Handling[i]
    BY StagesTake
  <2> QED BY <2>1, <2>2, <2>3, TakesLeads
<1>3. \A i \in Ids : /\ rows[i] \in Stored /\ InPlace(q, F[i], Handling[i], store[i]) \in Stored
                     /\ rows[i] = InPlace(q, R[i], Handling[i], store[i])
  BY <1>2, InPlaceType
<1>4. rows \in Result
  BY <1>3 DEF Result, Stored
<1>5. ASSUME NEW i \in Ids, F[i] # None
      PROVE  Fits(q, InPlace(q, F[i], Handling[i], store[i]), store[i], Stages(i, 0))
  <2>1. F[i] \in Entity
    BY <1>2, <1>5 DEF Stored
  <2> QED BY <1>1, <1>2, <2>1, RowTakes
<1>6. ASSUME NEW i \in Ids, InPlace(q, None, Handling[i], store[i]) # None
      PROVE  Fits(q, InPlace(q, None, Handling[i], store[i]), store[i], Stages(i, 0))
  BY <1>2, <1>6, RowJoins
<1>7. ASSUME NEW i \in Ids, InPlace(q, None, Handling[i], store[i]) = None,
             F[i] = None \/ ~Unseen(q, Handling[i])
      PROVE  Fits(q, None, store[i], Stages(i, 0))
  BY <1>1, <1>2, <1>7, RowStaysOut
<1>8. CASE R = F
  <2>1. \A i \in Ids : Fits(q, rows[i], store[i], Stages(i, 0))
    BY <1>3, <1>5, <1>6, <1>7, <1>8
  <2> QED BY <1>2, <1>4, <2>1 DEF Right
<1>9. CASE q \in Limited /\ Cardinality(Rows(R)) = Limit
  <2> DEFINE G == [i \in Ids |-> IF rows[i] = None /\ F[i] # None /\ Unseen(q, Handling[i])
                                 THEN InPlace(q, F[i], Handling[i], store[i]) ELSE rows[i]]
  <2>1. G \in Result
    BY <1>3 DEF Result, Stored
  <2>2. \A i \in Ids : R[i] = F[i] \/ R[i] = None
    BY <1>1 DEF Cut
  <2>3. ASSUME NEW i \in Ids PROVE Fits(q, G[i], store[i], Stages(i, 0))
    <3>1. CASE rows[i] = None /\ F[i] # None /\ Unseen(q, Handling[i])
      BY <1>5, <3>1
    <3>2. CASE R[i] # None
      <4>1. R[i] = F[i]
        BY <2>2, <3>2
      <4>2. Fits(q, rows[i], store[i], Stages(i, 0))
        BY <1>3, <1>5, <2>2, <3>2
      <4> QED BY <1>5, <4>1, <4>2
    <3>3. CASE R[i] = None /\ rows[i] # None
      BY <1>3, <1>6, <3>3
    <3>4. CASE R[i] = None /\ rows[i] = None /\ (F[i] = None \/ ~Unseen(q, Handling[i]))
      BY <1>3, <1>7, <3>4
    <3> QED BY <3>1, <3>2, <3>3, <3>4
  <2>4. \A i \in Rows(R) : rows[i] # None /\ ~(/\ Handling[i].set # None
                                               /\ Key \in DOMAIN Handling[i].set.fields)
    BY <1>9 DEF Backfill
  <2>5. ASSUME NEW i \in Rows(R) PROVE rows[i] # None /\ Rank(rows[i]) = Rank(F[i])
    <3>1. i \in Ids /\ R[i] # None /\ R[i] = F[i]
      BY <2>2 DEF Rows
    <3>2. F[i] \in Entity
      BY <1>2, <3>1 DEF Stored
    <3>3. rows[i] = InPlace(q, F[i], Handling[i], store[i]) /\ rows[i] # None
      BY <1>3, <2>4, <3>1
    <3>4. ~(Handling[i].set # None /\ Key \in DOMAIN Handling[i].set.fields)
      BY <2>4
    <3>5. Rank(InPlace(q, F[i], Handling[i], store[i])) = Rank(F[i])
      BY <1>2, <3>1, <3>2, <3>3, <3>4, RankKept
    <3> QED BY <3>3, <3>5
  <2>6. ASSUME NEW i \in Ids
        PROVE  \/ G[i] = rows[i]
               \/ rows[i] = None /\ F[i] # None /\ Rank(G[i]) = Rank(F[i])
    <3>1. SUFFICES ASSUME rows[i] = None, F[i] # None, Unseen(q, Handling[i]),
                          InPlace(q, F[i], Handling[i], store[i]) # None
                   PROVE  Rank(InPlace(q, F[i], Handling[i], store[i])) = Rank(F[i])
      OBVIOUS
    <3>2. F[i] \in Entity
      BY <1>2, <3>1 DEF Stored
    <3>3. ~(Handling[i].set # None /\ Key \in DOMAIN Handling[i].set.fields)
      BY <3>1 DEF Unseen
    <3> QED BY <1>2, <3>1, <3>2, <3>3, RankKept
  <2> HIDE DEF G
  <2>7. Cut(q, G) = Cut(q, rows)
    <3>1. Steady(R, F, rows, G)
      BY <2>5, <2>6 DEF Steady
    <3> QED BY <1>1, <1>4, <1>9, <2>1, <3>1, FullPage
  <2> QED BY <1>2, <2>1, <2>3, <2>7 DEF Right
<1> QED BY <1>1, <1>8, <1>9, ShortPage

(* A step that takes what leads and fits at the stages from lo on to what  *)
(* does so at those from to on.                                            *)
Moves(lo, to) ==
  \A i \in Ids : Leads(store[i], Stages(i, lo)) =>
    /\ Leads(store'[i], Stages(i, to)')
    /\ \A q, r : Fits(q, r, store[i], Stages(i, lo)) => Fits(q, r, store'[i], Stages(i, to)')

(* Such a step keeps a result right,                                       *)
LEMMA RightMoves ==
  ASSUME NEW q, NEW R, NEW lo, NEW to, Right(q, R, lo), Moves(lo, to)
  PROVE  Right(q, R, to)'
<1>1. PICK F \in Result :
        R = Cut(q, F) /\ \A i \in Ids : Fits(q, F[i], store[i], Stages(i, lo))
  BY DEF Right
<1>2. \A i \in Ids : Leads(store[i], Stages(i, lo))
  BY DEF Right
<1>3. \A i \in Ids : /\ Leads(store'[i], Stages(i, to)')
                     /\ Fits(q, F[i], store'[i], Stages(i, to)')
  BY <1>1, <1>2 DEF Moves
<1> QED BY <1>1, <1>3 DEF Right

(* and so does one that touches none of it.                                *)
LEMMA StagesSame ==
  ASSUME UNCHANGED <<committed, buffer, active>>
  PROVE  /\ \A i, lo : Stages(i, lo)' = Stages(i, lo)
         /\ \A k, i : At(k, i)' = At(k, i)
         /\ Handling' = Handling
<1>1. Handling' = Handling
  BY DEF Handling
<1>2. \A k, i : At(k, i)' = At(k, i)
  BY <1>1 DEF At
<1> QED BY <1>1, <1>2 DEF Stages

(* A result stays right when store and changes do,                         *)
LEMMA RightSame ==
  ASSUME NEW q, NEW R, NEW lo, UNCHANGED <<store, committed, buffer, active>>
  PROVE  Right(q, R, lo)' <=> Right(q, R, lo)
BY StagesSame DEF Right

(* and so do the changes and the ids that were never used.                 *)
LEMMA PartsSame ==
  ASSUME UNCHANGED <<store, committed, buffer, active, used>>
  PROVE  (CommitPart => CommitPart') /\ (IdsPart => IdsPart')
BY StagesSame DEF CommitPart, IdsPart

-----------------------------------------------------------------------------
(* Writes.                                                                 *)

(* What the storage reports of a write, as it took effect or as it was.    *)
EffectiveSet(e, ch) ==
  LET current == IF ch.del THEN None ELSE e
      news == {x \in DOMAIN ch.set.fields :
                 ~(x \in DOMAIN current.fields /\ current.fields[x] = ch.set.fields[x])}
  IN  IF ch.set = None \/ (current = None /\ ~IsInsert(ch.set)) THEN None
      ELSE IF current = None THEN ch.set
      ELSE IF news = {} THEN None
      ELSE [whole |-> FALSE, fields |-> [x \in news |-> ch.set.fields[x]]]

(* A report is an entry with that change;                                  *)
LEMMA EffectiveIs ==
  ASSUME NEW e, NEW ch \in Entry
  PROVE  Effective(e, ch) = [set |-> EffectiveSet(e, ch), del |-> ch.del]
<1> DEFINE s == EffectiveSet(e, ch)
<1>1. Effective(e, ch) = [ch EXCEPT !.set = s]
  BY DEF Effective, EffectiveSet
<1>2. ASSUME NEW t PROVE [ch EXCEPT !.set = t] = [set |-> t, del |-> ch.del]
  BY DEF Entry
<1> QED BY <1>1, <1>2

(* of an insertion, it is the insertion,                                   *)
LEMMA ReportedInsert ==
  ASSUME NEW c
  PROVE  /\ Effective(None, [set |-> c, del |-> FALSE]) = [set |-> c, del |-> FALSE]
            \/ ~IsInsert(c)
         /\ c \in Entity => IsInsert(c) /\ Applied(None, [set |-> c, del |-> FALSE]) = c
BY NoneAssumption DEF Effective, Applied, Over, IsInsert, Entity

(* of a deletion, the deletion,                                            *)
LEMMA ReportedDelete ==
  ASSUME NEW e
  PROVE  Effective(e, Deletes) = Deletes /\ Applied(e, Deletes) = None
<1>1. Deletes = [set |-> None, del |-> TRUE] /\ EffectiveSet(e, Deletes) = None
  BY DEF Deletes, EffectiveSet
<1>2. Effective(e, Deletes) = Deletes
  BY <1>1, NoEntriesType, EffectiveIs
<1>3. Applied(e, Deletes) = None
  BY DEF Applied, Deletes
<1> QED BY <1>2, <1>3

(* and of an update nothing or what leads to the same.                     *)
LEMMA ReportedUpdate ==
  ASSUME NEW e \in Entity, NEW c \in Patch, NEW reported,
         reported \in {[set |-> c, del |-> FALSE], Effective(e, [set |-> c, del |-> FALSE])}
  PROVE  \/ reported = NoEntry /\ Applied(e, [set |-> c, del |-> FALSE]) = e
         \/ \E d \in Patch : /\ reported = [set |-> d, del |-> FALSE]
                             /\ Applied(e, [set |-> c, del |-> FALSE]) = Merge(e, d)
<1> DEFINE ch == [set |-> c, del |-> FALSE]
           news == {x \in DOMAIN c.fields : ~(x \in DOMAIN e.fields /\ e.fields[x] = c.fields[x])}
           d == [whole |-> FALSE, fields |-> [x \in news |-> c.fields[x]]]
<1>1. e # None /\ c # None /\ e \in Change /\ c \in Change /\ ~c.whole /\ e.whole
  BY NoneAssumption DEF Entity, Patch
<1>2. Applied(e, ch) = Merge(e, c)
  BY <1>1 DEF Applied, Over
<1>3. Effective(e, ch) = IF news = {} THEN NoEntry ELSE [set |-> d, del |-> FALSE]
  <2>1. EffectiveSet(e, ch) = IF news = {} THEN None ELSE d
    BY <1>1 DEF EffectiveSet
  <2>2. Effective(e, ch) = [set |-> EffectiveSet(e, ch), del |-> FALSE]
    <3>1. ch \in Entry /\ ch.del = FALSE
      BY <1>1 DEF Entry
    <3> HIDE DEF ch, d, news
    <3> QED BY <3>1, EffectiveIs
  <2> HIDE DEF ch, d, news
  <2> QED BY <2>1, <2>2 DEF NoEntry
<1>4. PICK E \in SUBSET Attrs : e.fields \in [E -> Values]
  BY <1>1 DEF Change, Fields
<1>5. PICK C \in SUBSET Attrs : c.fields \in [C -> Values]
  BY <1>1 DEF Change, Fields
<1>6. /\ DOMAIN e.fields = E /\ DOMAIN c.fields = C
      /\ news = {x \in C : ~(x \in E /\ e.fields[x] = c.fields[x])}
  BY <1>4, <1>5
<1>7. e = [whole |-> TRUE, fields |-> e.fields] /\ e.fields = [x \in E |-> e.fields[x]]
  BY <1>1, <1>4 DEF Change
<1>8. CASE news = {}
  <2>1. [x \in E \union C |-> IF x \in C THEN c.fields[x] ELSE e.fields[x]]
          = [x \in E |-> e.fields[x]]
    BY <1>6, <1>8
  <2>2. Merge(e, c) = e
    BY <1>1, <1>6, <1>7, <2>1 DEF Merge
  <2> QED BY <1>1, <1>2, <1>3, <1>8, <2>2
<1>9. CASE news # {}
  <2>1. news \in SUBSET Attrs /\ [x \in news |-> c.fields[x]] \in [news -> Values]
    BY <1>5, <1>6
  <2>2. d \in Patch /\ d.whole = FALSE /\ d.fields = [x \in news |-> c.fields[x]]
    BY <1>9, <2>1 DEF Patch, Change, Fields
  <2>3. [x \in E \union news |-> IF x \in news THEN c.fields[x] ELSE e.fields[x]]
          = [x \in E \union C |-> IF x \in C THEN c.fields[x] ELSE e.fields[x]]
    BY <1>6
  <2>4. Merge(e, c) = [whole |-> TRUE,
            fields |-> [x \in E \union C |-> IF x \in C THEN c.fields[x] ELSE e.fields[x]]]
    BY <1>1, <1>6 DEF Merge
  <2>5. Merge(e, d) = [whole |-> TRUE,
            fields |-> [x \in E \union news |-> IF x \in news THEN c.fields[x] ELSE e.fields[x]]]
    <3>1. DOMAIN d.fields = news /\ \A x \in news : d.fields[x] = c.fields[x]
      BY <2>2
    <3> HIDE DEF d, news
    <3>2. [x \in DOMAIN e.fields \union DOMAIN d.fields |->
              IF x \in DOMAIN d.fields THEN d.fields[x] ELSE e.fields[x]]
            = [x \in E \union news |-> IF x \in news THEN c.fields[x] ELSE e.fields[x]]
      BY <1>6, <3>1
    <3> QED BY <1>1, <2>2, <3>2 DEF Merge
  <2>6. Merge(e, d) = Merge(e, c)
    BY <2>3, <2>4, <2>5
  <2> HIDE DEF d, news
  <2> QED BY <1>1, <1>2, <1>3, <1>9, <2>2, <2>6
<1> QED BY <1>8, <1>9

(* A write adds a stage.                                                   *)
LEMMA WriteStages ==
  ASSUME TypeOK, NEW i \in Ids, NEW e \in Entry, NEW n, n = Len(committed),
         committed' = Append(committed, [NoEntries EXCEPT ![i] = e]),
         UNCHANGED <<buffer, active>>, NEW j \in Ids
  PROVE  /\ n \in Nat /\ Len(committed') = n + 1
         /\ \A k \in -1..n : At(k, j)' = At(k, j)
         /\ At(n + 1, j)' = IF j = i THEN e ELSE NoEntry
         /\ \A lo \in -1..1 : /\ Grows(lo, n, Stages(j, lo), Stages(j, lo)')
                              /\ Stages(j, lo)'[n + 1] = IF j = i THEN e ELSE NoEntry
<1> DEFINE entries == [NoEntries EXCEPT ![i] = e]
<1>1. /\ n \in Nat /\ Len(committed') = n + 1 /\ committed'[n + 1] = entries
      /\ \A k \in 1..n : committed'[k] = committed[k]
  BY DEF TypeOK
<1>2. Handling' = Handling
  BY DEF Handling
<1>3. ASSUME NEW k \in -1..n PROVE At(k, j)' = At(k, j)
  <2>1. k = -1 \/ k = 0 \/ k \in 1..n
    BY <1>1
  <2> QED BY <1>1, <1>2, <2>1 DEF At
<1>4. entries[j] = IF j = i THEN e ELSE NoEntry
  BY DEF NoEntries
<1>5. At(n + 1, j)' = IF j = i THEN e ELSE NoEntry
  <2>1. n + 1 # -1 /\ n + 1 # 0
    BY <1>1
  <2> HIDE DEF entries
  <2> QED BY <1>1, <1>4, <2>1 DEF At
<1>6. ASSUME NEW lo \in -1..1
      PROVE  /\ Grows(lo, n, Stages(j, lo), Stages(j, lo)')
             /\ Stages(j, lo)'[n + 1] = IF j = i THEN e ELSE NoEntry
  <2>1. /\ Stages(j, lo) \in [lo..n -> Entry]
        /\ \A k \in lo..n : Stages(j, lo)[k] = At(k, j)
    BY StagesType
  <2>2. /\ n + 1 \in lo..(n + 1) /\ lo \in Int /\ lo <= n + 1 /\ n \in Int
        /\ \A k \in lo..n : k \in -1..n /\ k \in lo..(n + 1)
        /\ \A k \in lo..(n + 1) : k \in lo..n \/ k = n + 1
    BY <1>1
  <2>3. Stages(j, lo)' = [k \in lo..(n + 1) |-> At(k, j)']
    BY <1>1 DEF Stages
  <2>4. \A k \in lo..n : Stages(j, lo)'[k] = Stages(j, lo)[k]
    BY <1>3, <2>1, <2>2, <2>3
  <2>5. Stages(j, lo)'[n + 1] = IF j = i THEN e ELSE NoEntry
    BY <1>5, <2>2, <2>3
  <2>6. \A k \in lo..n : At(k, j)' \in Entry
    BY <1>3, <2>1, <2>2
  <2>7. At(n + 1, j)' \in Entry
    BY <1>5, NoEntriesType
  <2>8. Stages(j, lo)' \in [lo..(n + 1) -> Entry]
    BY <2>2, <2>3, <2>6, <2>7
  <2> QED BY <2>1, <2>2, <2>4, <2>5, <2>8 DEF Grows
<1> QED BY <1>1, <1>3, <1>5, <1>6

(* What a write leaves, and what is reported of it.                        *)
Writes(i, t, e) ==
  \/ e = NoEntry /\ t = store[i]
  \/ \E d \in Patch : /\ store[i] \in Entity
                       /\ e = [set |-> d, del |-> FALSE] /\ t = Merge(store[i], d)
  \/ store[i] \in Entity /\ e = Deletes /\ t = None
  \/ \E c \in Entity : /\ store[i] = None /\ e = [set |-> c, del |-> FALSE] /\ t = c
                       /\ \A k \in -1..Len(committed) : At(k, i) = NoEntry

(* It takes what leads to the store before to what leads to it after.      *)
LEMMA WriteMoves ==
  ASSUME TypeOK, NEW i \in Ids, NEW e \in Entry, NEW t, Writes(i, t, e),
         committed' = Append(committed, [NoEntries EXCEPT ![i] = e]),
         store' = [store EXCEPT ![i] = t], UNCHANGED <<buffer, active>>, NEW lo \in -1..1
  PROVE  Moves(lo, lo)
<1> SUFFICES ASSUME NEW j \in Ids, Leads(store[j], Stages(j, lo))
             PROVE  /\ Leads(store'[j], Stages(j, lo)')
                    /\ \A q, r : Fits(q, r, store[j], Stages(j, lo))
                                   => Fits(q, r, store'[j], Stages(j, lo)')
  BY DEF Moves
<1> DEFINE P == Stages(j, lo)
           Q == Stages(j, lo)'
<1>0. PICK n : n = Len(committed)
  OBVIOUS
<1>1. Grows(lo, n, P, Q) /\ Q[n + 1] = IF j = i THEN e ELSE NoEntry
  BY <1>0, WriteStages
<1>2. store[j] \in Stored /\ store'[j] = IF j = i THEN t ELSE store[j]
  BY DEF TypeOK, Result, Stored
<1>3. DOMAIN P = lo..n /\ \A k \in DOMAIN P : P[k] = At(k, j) /\ k \in -1..n
  <2>1. n \in Nat /\ P \in [lo..n -> Entry] /\ \A k \in lo..n : P[k] = At(k, j)
    BY <1>0, StagesType
  <2>2. \A k \in lo..n : k \in -1..n
    BY <2>1
  <2> QED BY <2>1, <2>2
<1> HIDE DEF P, Q
<1>4. CASE Q[n + 1] = NoEntry /\ store'[j] = store[j]
  BY <1>1, <1>2, <1>4, NothingAdded DEF P, Q
<1>5. CASE j = i
  <2>1. ASSUME NEW d \in Patch, store[i] \in Entity, e = [set |-> d, del |-> FALSE],
               t = Merge(store[i], d)
        PROVE  Leads(store'[j], Q) /\ \A q, r : Fits(q, r, store[j], P) => Fits(q, r, store'[j], Q)
    <3>1. store[j] \in Entity /\ Leads(store[j], P) /\ Q[n + 1] = [set |-> d, del |-> FALSE]
          /\ store'[j] = Merge(store[j], d)
      BY <1>1, <1>2, <1>5, <2>1 DEF P
    <3> QED BY <1>1, <3>1, UpdateAdded
  <2>2. ASSUME store[i] \in Entity, e = Deletes, t = None
        PROVE  Leads(store'[j], Q) /\ \A q, r : Fits(q, r, store[j], P) => Fits(q, r, store'[j], Q)
    <3>1. store[j] \in Entity /\ Leads(store[j], P) /\ Q[n + 1] = Deletes /\ store'[j] = None
      BY <1>1, <1>2, <1>5, <2>2 DEF P
    <3> QED BY <1>1, <3>1, DeleteAdded
  <2>3. ASSUME NEW c \in Entity, store[i] = None, e = [set |-> c, del |-> FALSE], t = c,
               \A k \in -1..n : At(k, i) = NoEntry
        PROVE  Leads(store'[j], Q) /\ \A q, r : Fits(q, r, store[j], P) => Fits(q, r, store'[j], Q)
    <3>1. /\ store[j] = None /\ Q[n + 1] = [set |-> c, del |-> FALSE] /\ store'[j] = c
          /\ \A k \in DOMAIN P : P[k] = NoEntry
      BY <1>1, <1>2, <1>3, <1>5, <2>3
    <3> QED BY <1>1, <3>1, InsertAdded
  <2> QED BY <1>0, <1>1, <1>2, <1>4, <1>5, <2>1, <2>2, <2>3 DEF Writes, P, Q
<1> QED BY <1>1, <1>2, <1>4, <1>5

(* What is kept when no result and no call of updateViews changes.         *)
LEMMA PartsMove ==
  ASSUME ResultsPart, ReadPart, IdlePart, UNCHANGED <<results, query, run>>, Handling' = Handling,
         \A q \in Queries : results[q] # None => Moves(First(q), First(q)),
         run.pc = "fetch" => Moves(0, 0)
  PROVE  ResultsPart' /\ ReadPart' /\ IdlePart'
<1>1. \A q : First(q)' = First(q)
  BY DEF First, Pending
<1>2. Subscribed' = Subscribed
  BY DEF Subscribed
<1>3. ASSUME NEW q \in Queries, results'[q] # None
      PROVE  q \in Subscribed' /\ Right(q, results[q], First(q))'
  <2>1. q \in Subscribed /\ Right(q, results[q], First(q)) /\ Moves(First(q), First(q))
    BY <1>3 DEF ResultsPart
  <2>2. PICK R, lo : R = results[q] /\ lo = First(q)
    OBVIOUS
  <2>3. Right(q, R, lo)'
    BY <2>1, <2>2, RightMoves
  <2>4. R = results'[q] /\ lo = First(q)'
    BY <1>1, <2>2
  <2> QED BY <1>2, <2>1, <2>3, <2>4
<1>4. ReadPart'
  BY RightMoves DEF ReadPart
<1> QED BY <1>3, <1>4 DEF ResultsPart, IdlePart

(* A legal write keeps the invariant.                                      *)
LEMMA VWrite ==
  ASSUME VInv, NEW i \in Ids, NEW ch \in Entry, Write(i, ch),
         \/ store[i] # None /\ ch = Deletes
         \/ store[i] # None /\ \E c \in Patch : ch = [set |-> c, del |-> FALSE]
         \/ i \notin used.ids /\ \E c \in Entity : ch = [set |-> c, del |-> FALSE]
  PROVE  VParts'
<1>1. /\ TypeOK /\ CommitPart /\ IdsPart /\ IdlePart /\ ResultsPart /\ ReadPart
  BY DEF VInv, VParts, FInv, Typed
<1>2. /\ store' = [store EXCEPT ![i] = Applied(store[i], ch)]
      /\ used' = [ids |-> used.ids \union {i}, writes |-> used.writes + 1]
      /\ UNCHANGED <<buffer, active, results, query, run>>
  BY DEF Write
<1>3. PICK e \in {ch, Effective(store[i], ch)} :
        committed' = Append(committed, [NoEntries EXCEPT ![i] = e])
  BY DEF Write
<1>4. store[i] \in Stored /\ store \in Result
  BY <1>1 DEF TypeOK, Result, Stored
<1>5. e \in Entry
  BY <1>3, <1>4, EffectiveType
<1>6. PICK t : t = Applied(store[i], ch)
  OBVIOUS
<1>7. Writes(i, t, e)
  <2>1. CASE store[i] # None /\ ch = Deletes
    <3>1. store[i] \in Entity /\ e = Deletes /\ t = None
      BY <1>3, <1>4, <1>6, <2>1, ReportedDelete DEF Stored
    <3> QED BY <3>1 DEF Writes
  <2>2. ASSUME store[i] # None, NEW c \in Patch, ch = [set |-> c, del |-> FALSE]
        PROVE  Writes(i, t, e)
    <3>1. store[i] \in Entity
      BY <1>4, <2>2 DEF Stored
    <3>2. \/ e = NoEntry /\ t = store[i]
          \/ \E d \in Patch : e = [set |-> d, del |-> FALSE] /\ t = Merge(store[i], d)
      BY <1>3, <1>6, <2>2, <3>1, ReportedUpdate
    <3> QED BY <3>1, <3>2 DEF Writes
  <2>3. ASSUME i \notin used.ids, NEW c \in Entity, ch = [set |-> c, del |-> FALSE]
        PROVE  Writes(i, t, e)
    <3>1. store[i] = None /\ \A k \in -1..Len(committed) : At(k, i) = NoEntry
      BY <1>1, <2>3 DEF IdsPart
    <3>2. e = [set |-> c, del |-> FALSE] /\ t = c
      BY <1>3, <1>6, <2>3, <3>1, ReportedInsert
    <3> QED BY <2>3, <3>1, <3>2 DEF Writes
  <2> QED BY <2>1, <2>2, <2>3
<1>8. \A lo \in -1..1 : Moves(lo, lo)
  BY <1>1, <1>2, <1>3, <1>5, <1>6, <1>7, WriteMoves
<1>9. /\ Moves(-1, -1) /\ Moves(0, 0) /\ Moves(1, 1)
      /\ \A q : First(q) \in {-1, 0}
  <2>1. -1 \in -1..1 /\ 0 \in -1..1 /\ 1 \in -1..1
    OBVIOUS
  <2> QED BY <1>8, <2>1 DEF First
<1>10. CommitPart'
  BY <1>1, <1>9 DEF CommitPart, Moves
<1>11. IdsPart'
  <2>1. PICK n : n = Len(committed)
    OBVIOUS
  <2>2. ASSUME NEW j \in Ids \ used'.ids
        PROVE  store'[j] = None /\ \A k \in -1..(n + 1) : At(k, j)' = NoEntry
    <3>1. j # i /\ j \in Ids \ used.ids
      BY <1>2, <2>2
    <3>2. store[j] = None /\ \A k \in -1..n : At(k, j) = NoEntry
      BY <1>1, <2>1, <3>1 DEF IdsPart
    <3>a. /\ n \in Nat /\ \A k \in -1..n : At(k, j)' = At(k, j)
          /\ At(n + 1, j)' = IF j = i THEN e ELSE NoEntry
      <4>1. j \in Ids /\ UNCHANGED <<buffer, active>>
        BY <1>2, <3>1
      <4> QED BY <1>1, <1>3, <1>5, <2>1, <4>1, WriteStages
    <3>3. /\ n \in Nat /\ \A k \in -1..n : At(k, j)' = At(k, j)
          /\ At(n + 1, j)' = NoEntry
      BY <3>1, <3>a
    <3>4. \A k \in -1..(n + 1) : k \in -1..n \/ k = n + 1
      BY <3>3
    <3>5. store'[j] = store[j]
      BY <1>2, <1>4, <3>1 DEF Result
    <3> QED BY <3>2, <3>3, <3>4, <3>5
  <2>3. Len(committed') = n + 1
    BY <1>1, <1>3, <2>1 DEF TypeOK
  <2> QED BY <2>2, <2>3 DEF IdsPart
<1>12. Handling' = Handling
  BY <1>2 DEF Handling
<1>13. ResultsPart' /\ ReadPart' /\ IdlePart'
  BY <1>1, <1>2, <1>9, <1>12, PartsMove
<1> QED BY <1>10, <1>11, <1>13 DEF VParts

(* So does a change that is buffered, or dropped when there is no view.    *)
LEMMA VBufferChanges ==
  ASSUME VInv, BufferChanges
  PROVE  VParts'
<1>1. /\ TypeOK /\ CommitPart /\ IdsPart /\ IdlePart /\ ResultsPart /\ ReadPart
      /\ run.pc = "fetch" => run.of \in Subscribed
  BY DEF VInv, VParts, FInv, Typed, FetchPart
<1>2. /\ committed # <<>> /\ committed' = Tail(committed)
      /\ buffer' = (IF Subscribed = {} THEN buffer
                    ELSE [buffer EXCEPT ![active] =
                            [i \in Ids |-> Merged(buffer[active][i], Head(committed)[i])]])
      /\ UNCHANGED <<store, active, results, query, run, used>>
  BY DEF BufferChanges
<1>3. PICK n : n = Len(committed)
  OBVIOUS
<1>4. /\ n \in Nat /\ n >= 1 /\ Len(committed') = n - 1 /\ n - 1 \in Nat
      /\ \A k \in 1..(n - 1) : committed'[k] = committed[k + 1] /\ k + 1 \in 1..n
      /\ Head(committed) = committed[1] /\ 1 \in 1..n
  BY <1>1, <1>2, <1>3 DEF TypeOK
<1>5. active \in 0..1 /\ 1 - active \in 0..1 /\ 1 - active # active
  BY <1>1 DEF TypeOK
<1>6. Handling' = Handling
  BY <1>1, <1>2, <1>5 DEF Handling, TypeOK
<1>7. ASSUME NEW i \in Ids
      PROVE  /\ At(-1, i)' = At(-1, i)
             /\ At(0, i)' = IF Subscribed = {} THEN At(0, i) ELSE Merged(At(0, i), At(1, i))
             /\ \A k \in 1..(n - 1) : At(k, i)' = At(k + 1, i)
  <2>1. At(-1, i)' = At(-1, i)
    BY <1>6 DEF At
  <2>2. At(0, i)' = IF Subscribed = {} THEN At(0, i) ELSE Merged(At(0, i), At(1, i))
    <3>1. buffer' [active] = IF Subscribed = {} THEN buffer[active]
                             ELSE [j \in Ids |-> Merged(buffer[active][j], Head(committed)[j])]
      BY <1>1, <1>2, <1>5 DEF TypeOK
    <3>2. At(0, i)' = buffer'[active][i] /\ At(0, i) = buffer[active][i]
          /\ At(1, i) = committed[1][i]
      BY <1>2 DEF At
    <3> QED BY <1>4, <3>1, <3>2
  <2>3. ASSUME NEW k \in 1..(n - 1) PROVE At(k, i)' = At(k + 1, i)
    <3>1. k # -1 /\ k # 0 /\ k + 1 # -1 /\ k + 1 # 0
      BY <1>4
    <3> QED BY <1>4, <3>1 DEF At
  <2> QED BY <2>1, <2>2, <2>3
<1>8. \A i, lo : Stages(i, lo)' = [k \in lo..(n - 1) |-> At(k, i)']
  BY <1>4 DEF Stages
<1>9. ASSUME NEW i \in Ids, NEW k \in -1..(n - 1) PROVE At(k, i)' \in Entry
  <2>1. \A j \in -1..n : At(j, i) \in Entry
    <3>1. -1 \in -1..1
      OBVIOUS
    <3> QED BY <1>1, <1>3, <3>1, StagesType
  <2>2. k = -1 \/ k = 0 \/ k \in 1..(n - 1)
    BY <1>4
  <2>3. -1 \in -1..n /\ 0 \in -1..n /\ 1 \in -1..n /\ \A j \in 1..(n - 1) : j + 1 \in -1..n
    BY <1>4
  <2> QED BY <1>7, <2>1, <2>2, <2>3, MergedType
<1>10. ASSUME NEW i \in Ids, NEW lo \in -1..1
       PROVE  /\ Stages(i, lo) \in [lo..n -> Entry]
              /\ \A k \in lo..n : Stages(i, lo)[k] = At(k, i)
              /\ Stages(i, lo)' \in [lo..(n - 1) -> Entry]
              /\ \A k \in lo..(n - 1) : Stages(i, lo)'[k] = At(k, i)'
  <2>1. \A k \in lo..(n - 1) : k \in -1..(n - 1)
    BY <1>4
  <2> QED BY <1>1, <1>3, <1>8, <1>9, <2>1, StagesType
<1>11. CommitPart'
  <2>1. ASSUME NEW i \in Ids PROVE Leads(store'[i], Stages(i, 1)')
    <3> DEFINE D == 1..n
               E == 1..(n - 1)
               P == Stages(i, 1)
               Q == Stages(i, 1)'
               f == [k \in E |-> k + 1]
    <3>1. 1 \in -1..1
      OBVIOUS
    <3>2. /\ P \in [D -> Entry] /\ Q \in [E -> Entry] /\ \A k \in E : Q[k] = P[k + 1]
      <4>1. /\ P \in [D -> Entry] /\ Q \in [E -> Entry]
            /\ \A k \in D : P[k] = At(k, i)
            /\ \A k \in E : Q[k] = At(k, i)'
        BY <1>10, <3>1
      <4>2. \A k \in E : k + 1 \in D /\ At(k, i)' = At(k + 1, i)
        BY <1>4, <1>7
      <4> HIDE DEF P, Q, D, E
      <4> QED BY <4>1, <4>2
    <3>3. /\ D \in SUBSET Int /\ E \in SUBSET Int
          /\ \A k \in E : f[k] = k + 1 /\ f[k] \in D
          /\ \A k, m \in E : k < m <=> f[k] < f[m]
          /\ \A k \in E, d \in D : d >= f[k] => d - 1 \in E /\ f[d - 1] = d
      BY <1>4
    <3>4. Leads(store[i], P) /\ store[i] \in Stored
      BY <1>1 DEF CommitPart, TypeOK, Result, Stored
    <3> HIDE DEF D, E, P, Q, f
    <3>5. \A k \in E : Q[k] # NoEntry => f[k] \in D /\ Q[k] = P[f[k]]
      BY <3>2, <3>3
    <3>6. \A k \in E : \A d \in D : Q[k] # NoEntry /\ P[d] # NoEntry /\ d >= f[k] =>
            \E m \in E : Q[m] # NoEntry /\ f[m] = d
      <4>1. ASSUME NEW k \in E, NEW d \in D, P[d] # NoEntry, d >= f[k]
            PROVE  d - 1 \in E /\ f[d - 1] = d /\ Q[d - 1] # NoEntry
        <5>1. d - 1 \in E /\ f[d - 1] = d
          BY <3>3, <4>1
        <5> QED BY <3>2, <3>3, <4>1, <5>1
      <4> QED BY <4>1
    <3>7. Leads(store[i], Q)
      BY <3>2, <3>3, <3>4, <3>5, <3>6, LeadsTail
    <3> QED BY <1>2, <3>7 DEF Q
  <2> QED BY <2>1 DEF CommitPart
<1>12. IdsPart'
  <2>1. ASSUME NEW i \in Ids \ used'.ids, NEW k \in -1..(n - 1)
        PROVE  store'[i] = None /\ At(k, i)' = NoEntry
    <3>1. store[i] = None /\ \A j \in -1..n : At(j, i) = NoEntry
      BY <1>2, <1>3, <2>1, <1>1 DEF IdsPart
    <3>2. k = -1 \/ k = 0 \/ k \in 1..(n - 1)
      BY <1>4
    <3>3. -1 \in -1..n /\ 0 \in -1..n /\ 1 \in -1..n /\ \A j \in 1..(n - 1) : j + 1 \in -1..n
      BY <1>4
    <3>4. Merged(NoEntry, NoEntry) = NoEntry
      BY DEF Merged, NoEntry, Over
    <3> QED BY <1>2, <1>7, <3>1, <3>2, <3>3, <3>4
  <2>2. \A i \in Ids \ used'.ids : store'[i] = None
    <3>1. -1 \in -1..(n - 1)
      BY <1>4
    <3> QED BY <2>1, <3>1
  <2> QED BY <1>4, <2>1, <2>2 DEF IdsPart
<1>13. CASE Subscribed = {}
  <2>1. (\A q \in Queries : results[q] = None) /\ run.pc # "fetch"
    BY <1>1, <1>13 DEF ResultsPart
  <2> QED BY <1>1, <1>2, <1>6, <1>11, <1>12, <2>1, PartsMove DEF VParts
<1>14. CASE Subscribed # {}
  <2>1. ASSUME NEW lo \in {-1, 0} PROVE Moves(lo, lo)
    <3>1. ASSUME NEW i \in Ids, Leads(store[i], Stages(i, lo))
          PROVE  /\ Leads(store'[i], Stages(i, lo)')
                 /\ \A q, r : Fits(q, r, store[i], Stages(i, lo))
                                => Fits(q, r, store'[i], Stages(i, lo)')
      <4> DEFINE P == Stages(i, lo)
                 Q == Stages(i, lo)'
      <4>1. /\ lo \in Int /\ lo <= 0 /\ lo \in -1..1
            /\ 0 \in lo..n /\ 1 \in lo..n /\ 0 \in lo..(n - 1)
            /\ \A k \in lo..(n - 1) : /\ k < 0 => k = -1 /\ k \in lo..n
                                      /\ k > 0 => k \in 1..(n - 1) /\ k + 1 \in lo..n
        BY <1>4
      <4>2. P \in [lo..n -> Entry] /\ Q \in [lo..(n - 1) -> Entry]
        BY <1>10, <4>1
      <4>3. Q[0] = Merged(P[0], P[1])
        BY <1>7, <1>10, <1>14, <4>1
      <4>4. \A k \in lo..(n - 1) : (k < 0 => Q[k] = P[k]) /\ (k > 0 => Q[k] = P[k + 1])
        BY <1>7, <1>10, <4>1
      <4>5. store[i] \in Stored /\ store'[i] = store[i]
        BY <1>1, <1>2 DEF TypeOK, Result, Stored
      <4> HIDE DEF P, Q
      <4>6. Leads(store[i], P)
        BY <3>1 DEF P
      <4>7. Leads(store[i], Q) /\ \A q, r : Fits(q, r, store[i], P) => Fits(q, r, store[i], Q)
        BY <1>4, <4>1, <4>2, <4>3, <4>4, <4>5, <4>6, StagesMerged
      <4> QED BY <4>5, <4>7 DEF P, Q
    <3> QED BY <3>1 DEF Moves
  <2>2. Moves(-1, -1) /\ Moves(0, 0) /\ \A q : First(q) \in {-1, 0}
    BY <2>1 DEF First
  <2> QED BY <1>1, <1>2, <1>6, <1>11, <1>12, <2>2, PartsMove DEF VParts
<1> QED BY <1>13, <1>14

-----------------------------------------------------------------------------
(* Subscriptions and updates.                                              *)

(* A subscription changes no result,                                       *)
LEMMA VSubscribe ==
  ASSUME VInv, NEW l \in Listeners, NEW q \in Queries, Subscribe(l, q)
  PROVE  VParts'
<1>1. /\ query' = [query EXCEPT ![l] = q] /\ query[l] = "new"
      /\ UNCHANGED <<store, committed, buffer, active, results, run, used>>
  BY DEF Subscribe
<1>2. /\ TypeOK /\ CommitPart /\ IdsPart /\ IdlePart /\ ResultsPart /\ ReadPart
  BY DEF VInv, VParts, FInv, Typed
<1>3. Subscribed \subseteq Subscribed'
  BY <1>1, <1>2, ViewsAssumption DEF Subscribed, TypeOK
<1>4. \A p : First(p)' = First(p)
  BY <1>1 DEF First, Pending
<1>5. ResultsPart'
  BY <1>1, <1>2, <1>3, <1>4, RightSame DEF ResultsPart
<1>6. ReadPart' /\ IdlePart' /\ CommitPart' /\ IdsPart'
  BY <1>1, <1>2, RightSame, PartsSame, StagesSame DEF ReadPart, IdlePart
<1> QED BY <1>5, <1>6 DEF VParts

(* and a listener that leaves takes at most its own view with it.          *)
LEMMA VUnsubscribe ==
  ASSUME VInv, NEW l \in Listeners, Unsubscribe(l), ~EarlyUnsubscribe
  PROVE  VParts'
<1> DEFINE q == query[l]
           last == \A k \in Listeners \ {l} : query[k] # q
           kept == [run EXCEPT !.orphan = @ \/ run.of = q, !.fetched = @ \ {q},
                               !.todo = @ \ {q}]
<1>1. /\ q \in Queries /\ query' = [query EXCEPT ![l] = "gone"]
      /\ UNCHANGED <<store, committed, buffer, active, used>>
  BY DEF Unsubscribe
<1>2. /\ TypeOK /\ CommitPart /\ IdsPart /\ IdlePart /\ ResultsPart /\ ReadPart
      /\ run \in Runs /\ query \in [Listeners -> Queries \union {"new", "gone"}]
  BY DEF VInv, VParts, FInv, Typed, TypeOK, Runs
<1>3. CommitPart' /\ IdsPart' /\ Handling' = Handling
  BY <1>1, <1>2, PartsSame, StagesSame
<1>4. run' = kept \/ run' = run
  BY DEF Unsubscribe
<1>5. /\ run'.pc = run.pc /\ run'.of = run.of /\ run'.read = run.read
      /\ \A p \in Queries \ {q} : /\ p \in run'.fetched <=> p \in run.fetched
                                  /\ p \in run'.todo <=> p \in run.todo
  <2>1. /\ kept.pc = run.pc /\ kept.of = run.of /\ kept.read = run.read
        /\ kept.fetched = run.fetched \ {q} /\ kept.todo = run.todo \ {q}
    BY <1>2 DEF Runs
  <2> HIDE DEF kept, q
  <2>2. CASE run' = kept
    BY <2>1, <2>2
  <2>3. CASE run' = run
    BY <2>3
  <2> QED BY <1>4, <2>2, <2>3
<1>6. \A p \in Queries \ {q} : First(p)' = First(p)
  BY <1>5 DEF First, Pending
<1>7. ReadPart' /\ IdlePart'
  BY <1>1, <1>2, <1>3, <1>5, RightSame DEF ReadPart, IdlePart
<1>8. \A p \in Queries \ {q} : p \in Subscribed => p \in Subscribed'
  BY <1>1, <1>2 DEF Subscribed
<1>9. CASE last
  <2>1. results' = [results EXCEPT ![q] = None]
    BY <1>9 DEF Unsubscribe
  <2>2. results'[q] = None /\ \A p \in Queries \ {q} : results'[p] = results[p]
    BY <1>1, <1>2, <2>1 DEF TypeOK
  <2>3. ASSUME NEW p \in Queries, results'[p] # None
        PROVE  p \in Subscribed' /\ Right(p, results[p], First(p))'
    <3>1. p # q /\ results'[p] = results[p] /\ First(p)' = First(p)
      BY <1>6, <2>2, <2>3
    <3> QED BY <1>1, <1>2, <1>8, <2>3, <3>1, RightSame DEF ResultsPart
  <2> QED BY <1>3, <1>7, <2>3 DEF VParts, ResultsPart
<1>10. CASE ~last
  <2>1. results' = results /\ run' = run
    BY <1>10 DEF Unsubscribe
  <2>2. q \in Subscribed'
    BY <1>1, <1>2, <1>10 DEF Subscribed
  <2>3. \A p : First(p)' = First(p)
    BY <2>1 DEF First, Pending
  <2>4. ResultsPart'
    BY <1>1, <1>2, <1>8, <2>1, <2>2, <2>3, RightSame DEF ResultsPart
  <2> QED BY <1>3, <1>7, <2>4 DEF VParts
<1> QED BY <1>9, <1>10

(* What a call of updateViews goes on with.                                *)
LEMMA ProceedFirst ==
  ASSUME NEW rest, NEW fetched, NEW changes, Proceed(rest, fetched, changes), query' = query
  PROVE  /\ run'.pc # "idle"
         /\ run'.pc = "fetch" => run'.read = Answer(run'.of, store)
         /\ \A q \in Subscribed :
              First(q)' = IF q \notin fetched /\ (run'.pc = "fetch" \/ changes # NoEntries)
                          THEN -1 ELSE 0
<1> DEFINE open == {q \in rest \intersect Subscribed : results'[q] = None}
<1>1. CASE open = {}
  <2> DEFINE todo == IF changes = NoEntries THEN {} ELSE Subscribed \ fetched
  <2>1. run' = [Idle EXCEPT !.pc = "update", !.todo = todo]
    BY <1>1 DEF Proceed
  <2> HIDE DEF todo
  <2>2. run'.pc = "update" /\ run'.todo = todo
    BY <2>1 DEF Idle
  <2> QED BY <2>2 DEF First, Pending, todo
<1>2. CASE open # {}
  <2>1. PICK q \in open :
          run' = [Idle EXCEPT !.pc = "fetch", !.of = q, !.read = Answer(q, store),
                              !.fetched = fetched]
    BY <1>2 DEF Proceed
  <2>2. /\ run'.pc = "fetch" /\ run'.of = q /\ run'.read = Answer(q, store)
        /\ run'.fetched = fetched
    BY <2>1 DEF Idle
  <2> QED BY <2>2 DEF First, Pending
<1> QED BY <1>1, <1>2

(* A call that gets the lock handles what the other buffer held; that      *)
(* one is empty now.                                                       *)
LEMMA StartMoves ==
  ASSUME VInv, Start
  PROVE  /\ Moves(0, -1)
         /\ buffer[active] = NoEntries => Moves(0, 0)
         /\ CommitPart' /\ IdsPart'
         /\ \A i \in Ids : Leads(store'[i], Stages(i, 0)')
<1>1. /\ TypeOK /\ CommitPart /\ IdsPart /\ Handling = NoEntries
  BY DEF VInv, VParts, FInv, Typed, IdlePart, Start
<1>2. active' = 1 - active /\ UNCHANGED <<store, committed, buffer, used>>
  BY DEF Start, Switched
<1>3. PICK n : n = Len(committed)
  OBVIOUS
<1>4. n \in Nat /\ Len(committed') = n /\ active \in 0..1 /\ 1 - (1 - active) = active
  BY <1>1, <1>2, <1>3 DEF TypeOK
<1>5. ASSUME NEW i \in Ids
      PROVE  /\ At(-1, i)' = At(0, i) /\ At(0, i)' = NoEntry /\ At(0, i) = buffer[active][i]
             /\ \A k \in 1..n : At(k, i)' = At(k, i)
  <2>1. At(-1, i)' = At(0, i) /\ At(0, i) = buffer[active][i]
    BY <1>2, <1>4 DEF At, Handling
  <2>2. At(0, i)' = NoEntry
    BY <1>1, <1>2, <1>4 DEF At, Handling, NoEntries
  <2>3. ASSUME NEW k \in 1..n PROVE At(k, i)' = At(k, i)
    <3>1. k # -1 /\ k # 0
      BY <1>4
    <3> QED BY <1>2, <3>1 DEF At
  <2> QED BY <2>1, <2>2, <2>3
<1>6. ASSUME NEW i \in Ids, NEW lo \in -1..1
      PROVE  /\ Stages(i, lo) \in [lo..n -> Entry]
             /\ \A k \in lo..n : Stages(i, lo)[k] = At(k, i)
             /\ Stages(i, lo)' \in [lo..n -> Entry]
             /\ \A k \in lo..n : Stages(i, lo)'[k] = At(k, i)'
             /\ \A k \in lo..n : k = -1 \/ k = 0 \/ k \in 1..n
  <2>1. /\ Stages(i, lo) \in [lo..n -> Entry]
        /\ \A k \in lo..n : Stages(i, lo)[k] = At(k, i)
    BY <1>1, <1>3, StagesType
  <2>2. Stages(i, lo)' = [k \in lo..n |-> At(k, i)']
    BY <1>4 DEF Stages
  <2>3. \A k \in lo..n : k = -1 \/ k = 0 \/ k \in 1..n
    BY <1>4
  <2>4. \A k \in 0..n : At(k, i) \in Entry
    BY <1>1, <1>3, StagesType
  <2>5. 0 \in 0..n /\ \A k \in 1..n : k \in 0..n
    BY <1>4
  <2>6. \A k \in lo..n : At(k, i)' \in Entry
    BY <1>5, <2>3, <2>4, <2>5, NoEntriesType
  <2> QED BY <2>1, <2>2, <2>3, <2>6
<1>7. \A i \in Ids : store[i] \in Stored /\ store'[i] = store[i]
  BY <1>1, <1>2 DEF TypeOK, Result, Stored
<1>8. -1 \in -1..1 /\ 0 \in -1..1 /\ 1 \in -1..1
  OBVIOUS
<1>9. Moves(0, -1)
  <2>1. ASSUME NEW i \in Ids, Leads(store[i], Stages(i, 0))
        PROVE  /\ Leads(store'[i], Stages(i, -1)')
               /\ \A q, r : Fits(q, r, store[i], Stages(i, 0))
                              => Fits(q, r, store'[i], Stages(i, -1)')
    <3> DEFINE D == 0..n
               E == -1..n
               P == Stages(i, 0)
               Q == Stages(i, -1)'
               f == [k \in E |-> IF k = -1 THEN 0 ELSE k]
               g == [d \in D |-> IF d = 0 THEN -1 ELSE d]
    <3>1. /\ P \in [D -> Entry] /\ Q \in [E -> Entry]
          /\ \A k \in D : P[k] = At(k, i)
          /\ \A k \in E : Q[k] = At(k, i)' /\ (k = -1 \/ k = 0 \/ k \in 1..n)
      BY <1>6, <1>8
    <3>2. /\ D \in SUBSET Int /\ E \in SUBSET Int /\ 0 \in D
          /\ \A k \in 1..n : k \in D /\ k \in E
          /\ \A k \in E : k # 0 => f[k] \in D
          /\ \A k \in E : f[k] = IF k = -1 THEN 0 ELSE k
          /\ \A k, m \in E : k # 0 /\ m # 0 => (k < m <=> f[k] < f[m])
          /\ \A d \in D : g[d] \in E /\ g[d] # 0 /\ f[g[d]] = d
      BY <1>4
    <3> HIDE DEF D, E, P, Q, f, g
    <3>3. \A k \in E : /\ k = 0 => Q[k] = NoEntry
                       /\ k # 0 => Q[k] = P[f[k]]
      BY <1>5, <3>1, <3>2
    <3>4. \A k \in E : Q[k] # NoEntry => f[k] \in D /\ Q[k] = P[f[k]] /\ k # 0
      BY <3>2, <3>3
    <3>5. \A k, m \in E : Q[k] # NoEntry /\ Q[m] # NoEntry => (k < m <=> f[k] < f[m])
      BY <3>2, <3>4
    <3>6. \A d \in D : g[d] \in E /\ f[g[d]] = d /\ Q[g[d]] = P[d]
      BY <3>2, <3>3
    <3>7. \A k \in E : \A d \in D : Q[k] # NoEntry /\ P[d] # NoEntry /\ d >= f[k] =>
            \E m \in E : Q[m] # NoEntry /\ f[m] = d
      BY <3>6
    <3>8. Leads(store[i], P) /\ store[i] \in Stored
      BY <1>7, <2>1 DEF P
    <3>9. Leads(store[i], Q)
      BY <3>1, <3>2, <3>4, <3>5, <3>7, <3>8, LeadsTail
    <3>10. \A d \in D : P[d] # NoEntry => \E k \in E : Q[k] = P[d]
      BY <3>6
    <3>11. ASSUME NEW q, NEW r, Fits(q, r, store[i], P) PROVE Fits(q, r, store[i], Q)
      BY <3>1, <3>10, <3>11, FitsAll
    <3> QED BY <1>7, <3>9, <3>11 DEF P, Q
  <2> QED BY <2>1 DEF Moves
<1>10. ASSUME buffer[active] = NoEntries PROVE Moves(0, 0)
  <2>1. ASSUME NEW i \in Ids PROVE Stages(i, 0)' = Stages(i, 0)
    <3>1. \A k \in 0..n : At(k, i)' = At(k, i)
      <4>1. At(0, i)' = At(0, i)
        BY <1>5, <1>10 DEF NoEntries
      <4>2. \A k \in 0..n : k = 0 \/ k \in 1..n
        BY <1>4
      <4> QED BY <1>5, <4>1, <4>2
    <3> QED BY <1>3, <1>4, <3>1 DEF Stages
  <2> QED BY <1>7, <2>1 DEF Moves
<1>11. ASSUME NEW i \in Ids PROVE Stages(i, 1)' = Stages(i, 1)
  BY <1>3, <1>4, <1>5 DEF Stages
<1>12. CommitPart'
  BY <1>1, <1>7, <1>11 DEF CommitPart
<1>13. IdsPart'
  <2>1. ASSUME NEW i \in Ids \ used'.ids, NEW k \in -1..n
        PROVE  store'[i] = None /\ At(k, i)' = NoEntry
    <3>1. store[i] = None /\ \A j \in -1..n : At(j, i) = NoEntry
      BY <1>1, <1>2, <1>3, <2>1 DEF IdsPart
    <3>2. k = -1 \/ k = 0 \/ k \in 1..n
      BY <1>4
    <3>3. 0 \in -1..n /\ \A j \in 1..n : j \in -1..n
      BY <1>4
    <3> QED BY <1>5, <1>7, <3>1, <3>2, <3>3
  <2>2. -1 \in -1..n
    BY <1>4
  <2> QED BY <1>4, <2>1, <2>2 DEF IdsPart
<1>14. ASSUME NEW i \in Ids PROVE Leads(store'[i], Stages(i, 0)')
  <2> DEFINE D == 1..n
             E == 0..n
             P == Stages(i, 1)
             Q == Stages(i, 0)'
             f == [k \in E |-> k]
  <2>1. /\ P \in [D -> Entry] /\ Q \in [E -> Entry]
        /\ \A k \in D : P[k] = At(k, i)
        /\ \A k \in E : Q[k] = At(k, i)'
    BY <1>6, <1>8
  <2>2. /\ D \in SUBSET Int /\ E \in SUBSET Int
        /\ \A k \in E : f[k] = k /\ (k = 0 \/ k \in D)
        /\ \A k \in D : k \in E
        /\ \A k \in D : k \in 1..n
    BY <1>4
  <2> HIDE DEF D, E, P, Q, f
  <2>3. /\ \A k \in E : Q[k] # NoEntry => f[k] \in D /\ Q[k] = P[f[k]]
        /\ \A k \in D : Q[k] = P[k]
    BY <1>5, <2>1, <2>2
  <2>4. \A k, m \in E : Q[k] # NoEntry /\ Q[m] # NoEntry => (k < m <=> f[k] < f[m])
    BY <2>2
  <2>5. \A k \in E : \A d \in D : Q[k] # NoEntry /\ P[d] # NoEntry /\ d >= f[k] =>
          \E m \in E : Q[m] # NoEntry /\ f[m] = d
    BY <2>2, <2>3
  <2>6. Leads(store[i], P) /\ store[i] \in Stored
    BY <1>1, <1>7 DEF P, CommitPart
  <2>7. Leads(store[i], Q)
    BY <2>1, <2>2, <2>3, <2>4, <2>5, <2>6, LeadsTail
  <2> QED BY <1>7, <2>7 DEF Q
<1> QED BY <1>9, <1>10, <1>12, <1>13, <1>14

(* What a call that starts, or goes on, fetches next is right.             *)
LEMMA ReadNext ==
  ASSUME TypeOK, UNCHANGED store, \A i \in Ids : Leads(store'[i], Stages(i, 0)'),
         run'.pc = "fetch" => run'.read = Answer(run'.of, store)
  PROVE  ReadPart'
<1> SUFFICES ASSUME run'.pc = "fetch" PROVE Right(run.of, run.read, 0)'
  BY DEF ReadPart
<1>1. PICK q : q = run'.of
  OBVIOUS
<1> DEFINE F == [i \in Ids |-> IF Matches(q, store[i]) THEN store[i] ELSE None]
<1>2. F \in Result /\ run'.read = Cut(q, F)
  BY <1>1 DEF Result, Answer, TypeOK
<1>3. ASSUME NEW i \in Ids PROVE Fits(q, F[i], store'[i], Stages(i, 0)')
  <2>1. Matches(q, store[i]) => store[i] # None
    BY DEF Matches
  <2> QED BY <2>1 DEF Fits, Equal
<1> HIDE DEF F
<1> QED BY <1>1, <1>2, <1>3 DEF Right

(* A call that starts keeps the invariant,                                 *)
LEMMA VStart ==
  ASSUME VInv, Start
  PROVE  VParts'
<1>1. /\ TypeOK /\ ResultsPart /\ run.pc = "idle"
  BY DEF VInv, VParts, FInv, Typed, Start
<1>2. /\ Proceed(unfetched, {}, buffer[active]) /\ query' = query
      /\ UNCHANGED <<store, results>>
  BY DEF Start
<1>3. /\ Moves(0, -1)
      /\ buffer[active] = NoEntries => Moves(0, 0)
      /\ CommitPart' /\ IdsPart'
      /\ \A i \in Ids : Leads(store'[i], Stages(i, 0)')
  BY StartMoves
<1>4. /\ run'.pc # "idle" /\ (run'.pc = "fetch" => run'.read = Answer(run'.of, store))
      /\ \A q \in Subscribed :
           First(q)' = IF q \notin {} /\ (run'.pc = "fetch" \/ buffer[active] # NoEntries)
                       THEN -1 ELSE 0
  BY <1>2, ProceedFirst
<1>5. ReadPart' /\ IdlePart'
  BY <1>1, <1>2, <1>3, <1>4, ReadNext DEF IdlePart
<1>6. Subscribed' = Subscribed
  BY <1>2 DEF Subscribed
<1>7. ASSUME NEW q \in Queries, results'[q] # None
      PROVE  q \in Subscribed' /\ Right(q, results[q], First(q))'
  <2>1. q \in Subscribed /\ Right(q, results[q], 0)
    BY <1>1, <1>2, <1>7 DEF ResultsPart, First, Pending
  <2>2. PICK R, lo : R = results[q] /\ lo = First(q)'
    OBVIOUS
  <2>3. lo = -1 \/ (lo = 0 /\ buffer[active] = NoEntries)
    BY <1>4, <2>1, <2>2
  <2>4. Moves(0, lo)
    BY <1>3, <2>3
  <2>5. Right(q, R, lo)'
    BY <2>1, <2>2, <2>4, RightMoves
  <2> QED BY <1>2, <1>6, <2>1, <2>2, <2>5
<1> QED BY <1>3, <1>5, <1>7 DEF VParts, ResultsPart

(* If what is handled is nothing, a view that has not taken it has.        *)
LEMMA NothingTaken ==
  ASSUME TypeOK, NEW q, NEW R, Right(q, R, -1), Handling = NoEntries
  PROVE  Right(q, R, 0)
<1>1. PICK F \in Result :
        R = Cut(q, F) /\ \A i \in Ids : Fits(q, F[i], store[i], Stages(i, -1))
  BY DEF Right
<1>2. ASSUME NEW i \in Ids
      PROVE  Leads(store[i], Stages(i, 0)) /\ Fits(q, F[i], store[i], Stages(i, 0))
  <2> DEFINE P == Stages(i, -1)
             Q == Stages(i, 0)
  <2>1. Takes(Len(committed), P, Q) /\ P[-1] = NoEntry
    BY StagesTake DEF NoEntries
  <2>2. Leads(store[i], P) /\ Fits(q, F[i], store[i], P) /\ store[i] \in Stored
    BY <1>1 DEF Right, TypeOK, Result, Stored
  <2> HIDE DEF P, Q
  <2>3. Leads(store[i], Q)
    BY <2>1, <2>2, TakesLeads
  <2>4. NoEntry # Deletes /\ NoEntry.set = None
    BY DEF NoEntry, Deletes
  <2>5. /\ Gone(P) => Gone(Q)
        /\ \A x \in Attrs : SetIn(P, x) => SetIn(Q, x)
        /\ Adds(q, P) => Adds(q, Q)
    BY <2>1, <2>4, TakesFacts DEF Sets
  <2>6. Fits(q, F[i], store[i], Q)
    BY <2>2, <2>5, FitsMore
  <2> QED BY <2>3, <2>6 DEF Q
<1> QED BY <1>1, <1>2 DEF Right

(* one that has fetched the first result of a query,                       *)
LEMMA VFetched ==
  ASSUME VInv, Fetched
  PROVE  VParts'
<1> DEFINE p == run.of
<1>1. /\ TypeOK /\ CommitPart /\ IdsPart /\ ResultsPart /\ Right(run.of, run.read, 0)
      /\ run.pc = "fetch" /\ run.of \in Subscribed /\ ~run.orphan
  BY DEF VInv, VParts, FInv, Typed, ReadPart, FetchPart, Fetched
<1>2. /\ Proceed(unfetched \ {p}, run.fetched \union {p}, Handling) /\ query' = query
      /\ results' = [results EXCEPT ![p] = run.read]
      /\ UNCHANGED <<store, committed, buffer, active, used>>
  BY <1>1 DEF Fetched
<1>3. p \in Queries /\ Subscribed' = Subscribed
  BY <1>1, <1>2 DEF Subscribed
<1>4. /\ run'.pc # "idle" /\ (run'.pc = "fetch" => run'.read = Answer(run'.of, store))
      /\ \A q \in Subscribed :
           First(q)' = IF /\ q \notin run.fetched \union {p}
                          /\ run'.pc = "fetch" \/ Handling # NoEntries
                       THEN -1 ELSE 0
  BY <1>2, ProceedFirst
<1>5. \A i \in Ids : Leads(store'[i], Stages(i, 0)')
  BY <1>1, <1>2, StagesSame DEF Right
<1>6. ReadPart' /\ IdlePart'
  BY <1>1, <1>2, <1>4, <1>5, ReadNext DEF IdlePart
<1>7. CommitPart' /\ IdsPart'
  BY <1>1, <1>2, PartsSame
<1>8. ASSUME NEW q \in Queries, results'[q] # None
      PROVE  q \in Subscribed' /\ Right(q, results[q], First(q))'
  <2>1. PICK R, lo : R = results'[q] /\ lo = First(q)'
    OBVIOUS
  <2>2. q \in Subscribed /\ Right(q, R, lo)
    <3>1. CASE q = p
      <4>1. q \in Subscribed /\ lo = 0 /\ R = run.read
        BY <1>1, <1>2, <1>3, <1>4, <2>1, <3>1 DEF TypeOK
      <4> QED BY <1>1, <3>1, <4>1
    <3>2. CASE q # p
      <4>1. R = results[q] /\ q \in Subscribed /\ Right(q, R, First(q))
        BY <1>1, <1>2, <1>8, <2>1, <3>2 DEF ResultsPart, TypeOK
      <4>2. First(q) = IF q \notin run.fetched THEN -1 ELSE 0
        BY <1>1 DEF First, Pending
      <4>3. lo = First(q) \/ (First(q) = -1 /\ lo = 0 /\ Handling = NoEntries)
        BY <1>4, <2>1, <3>2, <4>1, <4>2
      <4> QED BY <1>1, <4>1, <4>3, NothingTaken
    <3> QED BY <3>1, <3>2
  <2>3. Right(q, R, lo)'
    BY <1>2, <2>2, RightSame
  <2> QED BY <1>3, <2>1, <2>2, <2>3
<1> QED BY <1>6, <1>7, <1>8 DEF VParts, ResultsPart

(* one that updates a view,                                                *)
LEMMA VUpdateView ==
  ASSUME VInv, NEW q \in Queries, UpdateView(q)
  PROVE  VParts'
<1> DEFINE rows == [i \in Ids |-> InPlace(q, results[q][i], Handling[i], store[i])]
           new == IF q \in Refetched \/ Backfill(q, results[q], Handling, rows)
                  THEN Answer(q, store) ELSE Cut(q, rows)
<1>1. /\ TypeOK /\ CommitPart /\ IdsPart /\ ResultsPart
      /\ run.pc = "update" /\ q \in run.todo /\ results[q] # None /\ run \in Runs
      /\ UNCHANGED <<store, committed, buffer, active, query, used>>
  BY DEF VInv, VParts, FInv, Typed, TypeOK, Runs, TodoPart, UpdateView
<1>2. results' = [results EXCEPT ![q] = new] /\ run' = [run EXCEPT !.todo = @ \ {q}]
  BY <1>1 DEF UpdateView
<1>3. /\ results[q] \in Result /\ q \in Subscribed /\ Right(q, results[q], -1)
      /\ store \in Result /\ results \in [Queries -> Result \union {None}]
  BY <1>1 DEF TypeOK, ResultsPart, First, Pending
<1>4. Right(q, new, 0)
  <2>1. \A i \in Ids : Leads(store[i], Stages(i, 0))
    <3>1. ASSUME NEW i \in Ids PROVE Leads(store[i], Stages(i, 0))
      <4>1. /\ Takes(Len(committed), Stages(i, -1), Stages(i, 0))
            /\ Leads(store[i], Stages(i, -1)) /\ store[i] \in Stored
        BY <1>1, <1>3, StagesTake DEF Right, Result, Stored
      <4> QED BY <4>1, TakesLeads
    <3> QED BY <3>1
  <2>2. Right(q, Answer(q, store), 0)
    BY <1>3, <2>1, AnswerRight
  <2>3. ~Backfill(q, results[q], Handling, rows) => Right(q, Cut(q, rows), 0)
    BY <1>1, <1>3, PageTakes
  <2> HIDE DEF rows
  <2> QED BY <2>2, <2>3
<1> HIDE DEF new
<1>5. /\ run'.pc = "update" /\ run'.todo = run.todo \ {q} /\ results'[q] = new
      /\ \A p \in Queries \ {q} : results'[p] = results[p]
  BY <1>1, <1>2, <1>3 DEF Runs
<1>6. First(q)' = 0 /\ \A p \in Queries \ {q} : First(p)' = First(p)
  BY <1>1, <1>5 DEF First, Pending
<1>7. Subscribed' = Subscribed
  BY <1>1 DEF Subscribed
<1>8. ASSUME NEW p \in Queries, results'[p] # None
      PROVE  p \in Subscribed' /\ Right(p, results[p], First(p))'
  <2>1. PICK R, lo : R = results'[p] /\ lo = First(p)'
    OBVIOUS
  <2>2. p \in Subscribed /\ Right(p, R, lo)
    BY <1>1, <1>3, <1>4, <1>5, <1>6, <1>8, <2>1 DEF ResultsPart
  <2>3. Right(p, R, lo)'
    BY <1>1, <2>2, RightSame
  <2> QED BY <1>7, <2>1, <2>2, <2>3
<1>9. CommitPart' /\ IdsPart' /\ IdlePart' /\ ReadPart'
  BY <1>1, <1>5, PartsSame DEF IdlePart, ReadPart
<1> QED BY <1>8, <1>9 DEF VParts, ResultsPart

(* and one that ends, when every view has been updated.                    *)
LEMMA VFinish ==
  ASSUME VInv, Finish
  PROVE  VParts'
<1>1. /\ TypeOK /\ CommitPart /\ IdsPart /\ ResultsPart
      /\ run.pc = "update" /\ run.todo = {} /\ run' = Idle /\ buffer' = Cleared
      /\ UNCHANGED <<store, committed, active, results, query, used>>
  BY DEF VInv, VParts, FInv, Typed, Finish
<1>2. PICK n : n = Len(committed)
  OBVIOUS
<1>3. n \in Nat /\ Len(committed') = n
  BY <1>1, <1>2 DEF TypeOK
<1>4. Handling' = NoEntries /\ buffer'[active] = buffer[active]
  BY <1>1 DEF Cleared, Handling, TypeOK
<1>5. ASSUME NEW i \in Ids
      PROVE  At(-1, i)' = NoEntry /\ \A k \in 0..n : At(k, i)' = At(k, i)
  <2>1. At(-1, i)' = NoEntry
    BY <1>4 DEF At, NoEntries
  <2>2. \A k \in 0..n : k # -1
    BY <1>3
  <2> QED BY <1>1, <1>4, <2>1, <2>2 DEF At
<1>6. ASSUME NEW i \in Ids PROVE Stages(i, 0)' = Stages(i, 0) /\ Stages(i, 1)' = Stages(i, 1)
  <2>1. \A k \in 1..n : k \in 0..n
    BY <1>3
  <2> QED BY <1>2, <1>3, <1>5, <2>1 DEF Stages
<1>7. CommitPart'
  BY <1>1, <1>6 DEF CommitPart
<1>8. IdsPart'
  <2>1. ASSUME NEW i \in Ids \ used'.ids, NEW k \in -1..n
        PROVE  store'[i] = None /\ At(k, i)' = NoEntry
    <3>1. k = -1 \/ k \in 0..n
      BY <1>3
    <3> QED BY <1>1, <1>2, <1>5, <2>1, <3>1 DEF IdsPart
  <2>2. -1 \in -1..n
    BY <1>3
  <2> QED BY <1>3, <2>1, <2>2 DEF IdsPart
<1>9. IdlePart' /\ ReadPart'
  BY <1>1, <1>4 DEF IdlePart, ReadPart, Idle
<1>10. ASSUME NEW q \in Queries, results'[q] # None
       PROVE  q \in Subscribed' /\ Right(q, results[q], First(q))'
  <2>1. First(q) = 0 /\ First(q)' = 0 /\ Subscribed' = Subscribed
    BY <1>1 DEF First, Pending, Idle, Subscribed
  <2>2. q \in Subscribed /\ Right(q, results[q], 0)
    BY <1>1, <1>10, <2>1 DEF ResultsPart
  <2>3. Right(q, results[q], 0)'
    BY <1>1, <1>6, <2>2 DEF Right
  <2> QED BY <2>1, <2>2, <2>3
<1> QED BY <1>7, <1>8, <1>9, <1>10 DEF VParts, ResultsPart

(* At first there are no views and nothing has changed.                    *)
LEMMA VInit == Init => VInv
<1> SUFFICES ASSUME Init PROVE VInv
  OBVIOUS
<1>1. FInv
  BY FInit
<1>2. committed = <<>> /\ Handling = NoEntries /\ buffer[active] = NoEntries
  BY DEF Init, Handling
<1>3. ASSUME NEW i \in Ids PROVE At(-1, i) = NoEntry /\ At(0, i) = NoEntry
  BY <1>2 DEF At, NoEntries
<1>4. \A k \in -1..Len(committed) : k = -1 \/ k = 0
  BY <1>2
<1>5. CommitPart
  <2>1. ASSUME NEW i \in Ids PROVE Leads(store[i], Stages(i, 1))
    <3>1. DOMAIN Stages(i, 1) = {}
      BY <1>2 DEF Stages
    <3> QED BY <3>1 DEF Leads, Deleted, Nothing, LastSet, AllSet
  <2> QED BY <2>1 DEF CommitPart
<1>6. IdsPart
  BY <1>3, <1>4 DEF IdsPart, Init
<1>7. IdlePart /\ ResultsPart /\ ReadPart
  BY <1>2 DEF IdlePart, ResultsPart, ReadPart, Init, Idle
<1> QED BY <1>1, <1>5, <1>6, <1>7 DEF VInv, VParts

(* Every step keeps the invariant, if an id is inserted at most once.      *)
LEMMA VStep ==
  ASSUME ~EarlyUnsubscribe, ~Reinserts, ~Upserts
  PROVE  VInv /\ [Next]_vars => VInv'
<1> SUFFICES ASSUME VInv, [Next]_vars PROVE VInv'
  OBVIOUS
<1> SUFFICES VParts'
  BY FStep DEF VInv
<1>0. VParts
  BY DEF VInv
<1>1. ASSUME NEW i \in Ids, NEW c \in Inserted, Insert(i, c) PROVE VParts'
  <2>1. /\ i \notin used.ids /\ c \in Entity /\ c \in Change
        /\ Write(i, [set |-> c, del |-> FALSE])
    <3>1. store[i] # None => Upserts
      BY <1>1 DEF Insert
    <3>2. i \notin used.ids /\ Write(i, [set |-> c, del |-> FALSE])
      BY <1>1, <3>1 DEF Insert
    <3> QED BY <3>2, ViewsAssumption DEF Entity
  <2>2. [set |-> c, del |-> FALSE] \in Entry
    BY <2>1 DEF Entry
  <2> QED BY <2>1, <2>2, VWrite
<1>2. ASSUME NEW i \in Ids, NEW c \in Updated, Update(i, c) PROVE VParts'
  <2>1. /\ store[i] # None /\ c \in Patch /\ c \in Change
        /\ Write(i, [set |-> c, del |-> FALSE])
    BY <1>2, ViewsAssumption DEF Update, Patch
  <2>2. [set |-> c, del |-> FALSE] \in Entry
    BY <2>1 DEF Entry
  <2> QED BY <2>1, <2>2, VWrite
<1>3. ASSUME NEW i \in Ids, Delete(i) PROVE VParts'
  BY <1>3, NoEntriesType, VWrite DEF Delete
<1>4. CASE BufferChanges
  BY <1>4, VBufferChanges
<1>5. ASSUME NEW l \in Listeners, NEW q \in Queries, Subscribe(l, q) PROVE VParts'
  BY <1>5, VSubscribe
<1>6. ASSUME NEW l \in Listeners, Unsubscribe(l) PROVE VParts'
  BY <1>6, VUnsubscribe
<1>7. CASE Start
  BY <1>7, VStart
<1>8. CASE Fetched
  BY <1>8, VFetched
<1>9. ASSUME NEW q \in Queries, UpdateView(q) PROVE VParts'
  BY <1>9, VUpdateView
<1>10. CASE Finish
  BY <1>10, VFinish
<1>11. CASE UNCHANGED vars
  <2>1. /\ UNCHANGED <<store, committed, buffer, active, used, results, run, query>>
        /\ Subscribed' = Subscribed /\ \A q : First(q)' = First(q)
    BY <1>11 DEF vars, Subscribed, First, Pending
  <2> QED BY <1>0, <2>1, RightSame, PartsSame, StagesSame
          DEF VParts, ResultsPart, ReadPart, IdlePart
<1> QED BY <1>1, <1>2, <1>3, <1>4, <1>5, <1>6, <1>7, <1>8, <1>9, <1>10, <1>11 DEF Next

(* A view that differs from what a fetch answers has a change on its way.  *)
LEMMA SettledIsRight ==
  ASSUME VInv
  PROVE  NoChangeMissed
<1>1. TypeOK /\ ResultsPart
  BY DEF VInv, VParts, FInv, Typed
<1>2. PICK n : n = Len(committed)
  OBVIOUS
<1>3. n \in Nat /\ DOMAIN committed = 1..n
  BY <1>1, <1>2 DEF TypeOK
<1>4. ASSUME NEW q \in Queries, results[q] # None,
             NEW F \in Result, NEW j \in Ids, ~OnItsWay(q, j),
             Fits(q, F[j], store[j], Stages(j, First(q)))
      PROVE  F[j] = IF Matches(q, store[j]) THEN store[j] ELSE None
  <2>1. PICK lo : lo = First(q)
    OBVIOUS
  <2>2. lo \in -1..1 /\ (lo = -1 \/ lo = 0)
    BY <2>1 DEF First
  <2>3. /\ Stages(j, lo) \in [lo..n -> Entry]
        /\ \A k \in lo..n : Stages(j, lo)[k] = At(k, j)
    BY <1>1, <1>2, <2>2, StagesType
  <2>4. ASSUME NEW k \in lo..n PROVE At(k, j) = NoEntry
    <3>1. CASE k = -1
      <4>1. Pending(q)
        BY <1>3, <2>1, <2>2, <3>1 DEF First
      <4> QED BY <1>4, <3>1, <4>1 DEF At, OnItsWay, Pending
    <3>2. CASE k = 0
      BY <1>4, <3>2 DEF At, OnItsWay
    <3>3. CASE k # -1 /\ k # 0
      <4>1. k \in DOMAIN committed
        BY <1>3, <2>2, <3>3
      <4> QED BY <1>4, <3>3, <4>1 DEF At, OnItsWay
    <3> QED BY <3>1, <3>2, <3>3
  <2>5. F[j] \in Stored /\ store[j] \in Stored
    BY <1>1 DEF TypeOK, Result, Stored
  <2> QED BY <1>4, <2>1, <2>3, <2>4, <2>5, RowSettled
<1>5. ASSUME NEW q \in Queries, NEW i \in Ids, results[q] # None,
             results[q][i] # Answer(q, store)[i],
             \A j \in (IF q \in Limited THEN Ids ELSE {i}) : ~OnItsWay(q, j)
      PROVE  FALSE
  <2> DEFINE G == [j \in Ids |-> IF Matches(q, store[j]) THEN store[j] ELSE None]
  <2>1. PICK F \in Result :
          /\ results[q] = Cut(q, F)
          /\ \A j \in Ids : Fits(q, F[j], store[j], Stages(j, First(q)))
    BY <1>1, <1>5 DEF ResultsPart, Right
  <2>2. \A j \in (IF q \in Limited THEN Ids ELSE {i}) : j \in Ids /\ F[j] = G[j]
    BY <1>4, <1>5, <2>1
  <2>3. Answer(q, store) = Cut(q, G) /\ G \in Result
    BY <1>1 DEF Answer, Result, TypeOK
  <2> HIDE DEF G
  <2>4. CASE q \in Limited
    <3>1. F = G
      BY <2>2, <2>3, <2>4 DEF Result
    <3> QED BY <1>5, <2>1, <2>3, <3>1
  <2>5. CASE q \notin Limited
    BY <1>5, <2>1, <2>2, <2>3, <2>5 DEF Cut
  <2> QED BY <2>4, <2>5
<1> QED BY <1>5 DEF NoChangeMissed

(* No change is missed: a view differs from what a fetch would answer only *)
(* while a change is on its way to it, if the application inserts an id at *)
(* most once and no listener leaves before its first result.               *)
THEOREM ChangesReachViews ==
  ASSUME ~EarlyUnsubscribe, ~Reinserts, ~Upserts
  PROVE  Spec => []NoChangeMissed
<1>1. VInv /\ [Next]_vars => VInv'
  BY VStep
<1>2. VInv => NoChangeMissed
  BY SettledIsRight
<1> QED BY VInit, <1>1, <1>2, PTL DEF Spec

=============================================================================
