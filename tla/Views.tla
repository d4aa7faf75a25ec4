-------------------------------- MODULE Views --------------------------------
(***************************************************************************)
(* Live queries: the incremental view maintenance of ivm.ts.  A write is   *)
(* committed to the store, then buffered; updateViews switches the two     *)
(* buffers, fetches the queries that have no result yet, lays the changes  *)
(* it took over the results of the others, and flushes to the listeners.   *)
(* Only one updateViews runs at a time, but at each of its awaits other    *)
(* tasks write, buffer, subscribe and unsubscribe.                         *)
(*                                                                         *)
(* Evaluating a query is external: a query is all of a collection, or the  *)
(* entities with one of the Wanted values in the attribute Key, or the     *)
(* first Limit of either in the order of Key and id.                       *)
(***************************************************************************)
EXTENDS Changes, Naturals, Sequences, FiniteSets

CONSTANTS
  Queries,          \* root queries (distinct hashes), each one view node
  Filtered,         \* those with the filter Key in Wanted
  Key, Wanted,
  Limited, Limit,   \* those with a limit, and it; they are ordered by Key and id
  Refetched,        \* those fetched again for any change (shouldRefetch)
  Listeners,        \* subscription callbacks, each used once
  Inserted, Updated, \* bound: what the application inserts and sets
  MaxWrites,        \* bound: its writes
  Reinserts,        \* the application inserts an id again that it deleted
  Upserts,          \* it inserts an id that exists
  EarlyUnsubscribe  \* a listener may leave before its first result

ASSUME ViewsAssumption ==
  /\ Filtered \subseteq Queries /\ Refetched \subseteq Queries
  /\ Limited \subseteq Queries /\ Limit \in Nat \ {0}
  /\ Ids \subseteq Nat /\ IsFiniteSet(Ids) /\ Values \subseteq Nat \ {0}
  /\ Key \in Attrs /\ Wanted \subseteq Values
  /\ None \notin Queries \union [Ids -> Entity \union {None}]
  /\ {"new", "gone"} \intersect Queries = {}
  /\ Inserted \subseteq Entity /\ Updated \subseteq Patch /\ MaxWrites \in Nat
  /\ Reinserts \in BOOLEAN /\ Upserts \in BOOLEAN /\ EarlyUnsubscribe \in BOOLEAN

VARIABLES
  store,      \* what a fetch reads
  committed,  \* changes committed and not yet buffered, oldest first
  buffer,     \* the two SimpleMemoryWriteBuffers
  active,     \* activeBufferIndex
  results,    \* a root node's results; None: no node, or not fetched yet
  changed,    \* the nodes with hasChanged
  unfetched,  \* uninitializedQueries
  query,      \* the query of a listener; "new" before, "gone" after
  fresh,      \* uninitializedListeners
  told,       \* what a listener was last called with
  due,        \* a call of updateViews waits for the running lock
  run,        \* the call that holds it
  used        \* history: ids that have existed; number of writes

vars == <<store, committed, buffer, active, results, changed, unfetched, query, fresh,
          told, due, run, used>>

Handling == buffer[1 - active]
Subscribed == {q \in Queries : \E l \in Listeners : query[l] = q}

(* fetch: waits for the first result of a query; update: works on todo.    *)
Idle == [pc |-> "idle", of |-> None, read |-> None, orphan |-> FALSE,
         fetched |-> {}, todo |-> {}]

Switched(b) == 1 - b

-----------------------------------------------------------------------------
(* Queries.                                                                *)

Matches(q, e) ==
  /\ e # None
  /\ q \in Filtered => Key \in DOMAIN e.fields /\ e.fields[Key] \in Wanted

(* sortViewEntities, where a missing value is the least, and the cut.      *)
Rank(e) == IF Key \in DOMAIN e.fields THEN e.fields[Key] ELSE 0

Rows(s) == {i \in Ids : s[i] # None}

Before(s, i) ==
  {j \in Rows(s) : Rank(s[j]) < Rank(s[i]) \/ (Rank(s[j]) = Rank(s[i]) /\ j < i)}

Cut(q, s) ==
  IF q \notin Limited THEN s
  ELSE [i \in Ids |-> IF s[i] # None /\ Cardinality(Before(s, i)) < Limit THEN s[i] ELSE None]

(* rawFetch.                                                               *)
Answer(q, s) == Cut(q, [i \in Ids |-> IF Matches(q, s[i]) THEN s[i] ELSE None])

(* updateQueryResultsInPlace for one id: in the result, it takes the       *)
(* change and may be evicted; out of it, it may be added, by an insertion  *)
(* as that stands and by an update as the store has it now, which is not   *)
(* read if the update is not about the filter.                             *)
InPlace(q, old, ch, now) ==
  CASE old # None /\ ch.set # None ->
         LET e == Merge(old, ch.set) IN IF Matches(q, e) THEN e ELSE None
    [] old # None /\ ch.set = None -> IF ch.del THEN None ELSE old
    [] old = None /\ IsInsert(ch.set) -> IF Matches(q, ch.set) THEN ch.set ELSE None
    [] OTHER -> IF /\ ch.set # None
                   /\ q \in Filtered => Key \in DOMAIN ch.set.fields
                   /\ Matches(q, now)
                THEN now ELSE None

(* A full page that loses a row, or that an update reorders, is fetched    *)
(* again: what moves up is not in the results.                             *)
BadBackfill(q, old, chs, new) ==
  /\ q \in Limited /\ Cardinality(Rows(old)) = Limit
  /\ \E i \in Rows(old) : new[i] = None

Backfill(q, old, chs, new) ==
  /\ q \in Limited /\ Cardinality(Rows(old)) = Limit
  /\ \E i \in Rows(old) :
       new[i] # None => chs[i].set # None /\ Key \in DOMAIN chs[i].set.fields

(* hasChanged: something was evicted, added, or set.                       *)
BadTouches(old, ch, new) == IF old # None THEN ch.set # None ELSE new # None
Touches(old, ch, new) == IF old # None THEN ch # NoEntry ELSE new # None

-----------------------------------------------------------------------------
(* Writes.                                                                 *)

(* What EntityDataStore.applyChanges reports: only what it overwrote.      *)
Effective(e, ch) ==
  LET current == IF ch.del THEN None ELSE e
      news == {x \in DOMAIN ch.set.fields :
                 ~(x \in DOMAIN current.fields /\ current.fields[x] = ch.set.fields[x])}
  IN  [ch EXCEPT !.set =
         IF @ = None \/ (current = None /\ ~IsInsert(@)) THEN None
         ELSE IF current = None THEN @
         ELSE IF news = {} THEN None
         ELSE [whole |-> FALSE, fields |-> [x \in news |-> @.fields[x]]]]

(* A transaction commits.  The client's own are reported as they are, the  *)
(* server's (and those it sends) as they took effect.                      *)
Write(i, ch) ==
  /\ used.writes < MaxWrites
  /\ used' = [ids |-> used.ids \union {i}, writes |-> used.writes + 1]
  /\ store' = [store EXCEPT ![i] = Applied(@, ch)]
  /\ \E reported \in {ch, Effective(store[i], ch)} :
       committed' = Append(committed, [NoEntries EXCEPT ![i] = reported])
  /\ UNCHANGED <<buffer, active, results, changed, unfetched, query, fresh, told, due, run>>

Insert(i, c) ==
  /\ IF store[i] # None THEN Upserts ELSE i \in used.ids => Reinserts
  /\ Write(i, [set |-> c, del |-> FALSE])

Update(i, c) == store[i] # None /\ Write(i, [set |-> c, del |-> FALSE])

Delete(i) == store[i] # None /\ Write(i, Deletes)

(* bufferChanges, and the call of updateViews that follows every write.    *)
BufferChanges ==
  /\ committed # <<>>
  /\ committed' = Tail(committed)
  /\ buffer' = IF Subscribed = {} THEN buffer
               ELSE [buffer EXCEPT ![active] =
                       [i \in Ids |-> Merged(@[i], Head(committed)[i])]]
  /\ due' = TRUE
  /\ UNCHANGED <<store, active, results, changed, unfetched, query, fresh, told, run, used>>

-----------------------------------------------------------------------------
(* Subscriptions.                                                          *)

Subscribe(l, q) ==
  /\ query[l] = "new"
  /\ query' = [query EXCEPT ![l] = q]
  /\ fresh' = fresh \union {l}
  /\ unfetched' = IF q \in Subscribed THEN unfetched ELSE unfetched \union {q}
  /\ due' = TRUE
  /\ UNCHANGED <<store, committed, buffer, active, results, changed, told, run, used>>

(* The last listener takes the node with it; a call that works on it goes  *)
(* on with an object that nothing refers to.  The id of the query stays in *)
(* uninitializedQueries.                                                   *)
Unsubscribe(l) ==
  LET q == query[l]
      last == \A k \in Listeners \ {l} : query[k] # q
  IN  /\ q \in Queries
      /\ l \in fresh => EarlyUnsubscribe
      /\ query' = [query EXCEPT ![l] = "gone"]
      /\ fresh' = fresh \ {l}
      /\ IF last
         THEN /\ results' = [results EXCEPT ![q] = None]
              /\ changed' = changed \ {q}
              /\ run' = [run EXCEPT !.orphan = @ \/ run.of = q, !.fetched = @ \ {q},
                                    !.todo = @ \ {q}]
         ELSE UNCHANGED <<results, changed, run>>
      /\ UNCHANGED <<store, committed, buffer, active, unfetched, told, due, used>>

-----------------------------------------------------------------------------
(* updateViews and flushChangesToListeners.                                *)

(* Up to the next await: the fetch of a query in rest, or the first of the *)
(* affected views (any change is about their collection).                  *)
Proceed(rest, fetched, changes) ==
  LET open == {q \in rest \intersect Subscribed : results'[q] = None}
  IN  /\ unfetched' = open
      /\ IF open = {}
         THEN run' = [Idle EXCEPT !.pc = "update",
                                  !.todo = IF changes = NoEntries THEN {}
                                           ELSE Subscribed \ fetched]
         ELSE \E q \in open :
                run' = [Idle EXCEPT !.pc = "fetch", !.of = q, !.read = Answer(q, store),
                                    !.fetched = fetched]

Start ==
  /\ run.pc = "idle" /\ due
  /\ due' = FALSE
  /\ active' = Switched(active)
  /\ UNCHANGED <<store, committed, buffer, results, changed, query, fresh, told, used>>
  /\ Proceed(unfetched, {}, buffer[active])

(* initializeQueryResults answers; only then is the query taken from       *)
(* uninitializedQueries.                                                   *)
Fetched ==
  /\ run.pc = "fetch"
  /\ results' = IF run.orphan THEN results ELSE [results EXCEPT ![run.of] = run.read]
  /\ UNCHANGED <<store, committed, buffer, active, changed, query, fresh, told, due, used>>
  /\ Proceed(unfetched \ {run.of},
             IF run.orphan THEN run.fetched ELSE run.fetched \union {run.of}, Handling)

(* One affected view.  A view without results throws: the call ends, and   *)
(* neither clears the buffer nor flushes.                                  *)
UpdateView(q) ==
  /\ run.pc = "update" /\ q \in run.todo
  /\ IF q \notin Refetched /\ results[q] = None
     THEN /\ run' = Idle
          /\ UNCHANGED <<results, changed>>
     ELSE LET rows == [i \in Ids |-> InPlace(q, results[q][i], Handling[i], store[i])]
              fetch == q \in Refetched \/ Backfill(q, results[q], Handling, rows)
              new == IF fetch THEN Answer(q, store) ELSE Cut(q, rows)
              touched == fetch
                         \/ \E i \in Ids : Touches(results[q][i], Handling[i], new[i])
          IN  /\ results' = [results EXCEPT ![q] = new]
              /\ changed' = IF touched THEN changed \union {q} ELSE changed \ {q}
              /\ run' = [run EXCEPT !.todo = @ \ {q}]
  /\ UNCHANGED <<store, committed, buffer, active, unfetched, query, fresh, told, due, used>>

(* The end of updateViews, and the flush, which its caller runs before the *)
(* next call has the lock.                                                 *)
BadCleared == [b \in 0..1 |-> NoEntries]
Cleared == [buffer EXCEPT ![1 - active] = NoEntries]

Calls(l) ==
  /\ query[l] \in Subscribed
  /\ results[query[l]] # None
  /\ l \in fresh \/ query[l] \in changed

Finish ==
  /\ run.pc = "update" /\ run.todo = {}
  /\ buffer' = Cleared
  /\ told' = [l \in Listeners |-> IF Calls(l) THEN results[query[l]] ELSE told[l]]
  /\ fresh' = {l \in fresh : ~Calls(l)}
  /\ changed' = {}
  /\ run' = Idle
  /\ UNCHANGED <<store, committed, active, results, unfetched, query, due, used>>

-----------------------------------------------------------------------------
Init ==
  /\ store \in [Ids -> Inserted \union {None}]
  /\ committed = <<>>
  /\ buffer = [b \in 0..1 |-> NoEntries]
  /\ active = 0
  /\ results = [q \in Queries |-> None]
  /\ changed = {}
  /\ unfetched = {}
  /\ query = [l \in Listeners |-> "new"]
  /\ fresh = {}
  /\ told = [l \in Listeners |-> None]
  /\ due = FALSE
  /\ run = Idle
  /\ used = [ids |-> {i \in Ids : store[i] # None}, writes |-> 0]

Next ==
  \/ \E i \in Ids : \/ \E c \in Inserted : Insert(i, c)
                    \/ \E c \in Updated : Update(i, c)
                    \/ Delete(i)
  \/ BufferChanges
  \/ \E l \in Listeners : Unsubscribe(l) \/ \E q \in Queries : Subscribe(l, q)
  \/ Start \/ Fetched \/ (\E q \in Queries : UpdateView(q)) \/ Finish

(* The event loop and the storage come back to whatever waits for them.    *)
Fairness ==
  /\ WF_vars(BufferChanges)
  /\ WF_vars(Start) /\ WF_vars(Fetched) /\ WF_vars(Finish)
  /\ WF_vars(\E q \in Queries : UpdateView(q))

Spec == Init /\ [][Next]_vars /\ Fairness

-----------------------------------------------------------------------------
(* Properties.                                                             *)

Result == [Ids -> Entity \union {None}]

TypeOK ==
  /\ store \in Result
  /\ committed \in Seq([Ids -> Entry])
  /\ buffer \in [0..1 -> [Ids -> Entry]]
  /\ active \in 0..1
  /\ results \in [Queries -> Result \union {None}]
  /\ changed \in SUBSET Queries
  /\ unfetched \in SUBSET Queries
  /\ query \in [Listeners -> Queries \union {"new", "gone"}]
  /\ fresh \in SUBSET Listeners
  /\ told \in [Listeners -> Result \union {None}]
  /\ due \in BOOLEAN
  /\ run \in [pc : {"idle", "fetch", "update"}, of : Queries \union {None},
              read : Result \union {None}, orphan : BOOLEAN,
              fetched : SUBSET Queries, todo : SUBSET Queries]
  /\ used \in [ids : SUBSET Ids, writes : Nat]

(* No change is missed or dropped between the store, the two buffers and   *)
(* the views: where a view differs from what a fetch would give, a change  *)
(* of that entity, or of any in what has a limit, is still on its way to   *)
(* it.                                                                     *)
OnItsWay(q, i) ==
  \/ \E k \in DOMAIN committed : committed[k][i] # NoEntry
  \/ buffer[active][i] # NoEntry
  \/ /\ Handling[i] # NoEntry
     /\ \/ run.pc = "fetch" /\ q \notin run.fetched
        \/ run.pc = "update" /\ q \in run.todo

NoChangeMissed ==
  \A q \in Queries, i \in Ids :
    results[q] # None /\ results[q][i] # Answer(q, store)[i] =>
      \E j \in (IF q \in Limited THEN Ids ELSE {i}) : OnItsWay(q, j)

(* A listener that was told something else than the view holds is going to *)
(* be called: it is new, its view is marked, and a call of updateViews has *)
(* not flushed yet.                                                        *)
ListenersFollow ==
  \A l \in Listeners :
    query[l] \in Queries /\ told[l] # results[query[l]] =>
      /\ l \in fresh \/ query[l] \in changed
      /\ due \/ run.pc # "idle"

(* "Subscribing to a query will provide continual updates to the query     *)
(* result based on the state of your local database"                       *)
(* (docs/src/pages/client/subscribe.mdx): when the writes stop, what each  *)
(* listener was told comes to be, and stays, what a fetch answers.         *)
ListenersSettle ==
  <>[](\A l \in Listeners : query[l] \in Queries => told[l] = Answer(query[l], store))
=============================================================================
