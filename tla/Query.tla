-------------------------------- MODULE Query --------------------------------
(***************************************************************************)
(* How a prepared query is answered.  A query is simplified, its           *)
(* subqueries are turned into views where that can be done, and the rest   *)
(* is run row by row:                                                      *)
(*   inversion  an exists filter with one join to its row becomes "the     *)
(*              value is in that column of a view";                        *)
(*   caching    an exists filter with more joins, or an inclusion, becomes *)
(*              binary searches in a view that is sorted by its joins;     *)
(*   nesting    what is left is run for every candidate row.               *)
(* Promise says what a query asks for, with none of this.                  *)
(*                                                                         *)
(* Here a view is held in the query that refers to it, where the code has  *)
(* a generated id, and it is run where the code would look up its results: *)
(* no row changes during a fetch.                                          *)
(* Attributes are small numbers, Null the least.                           *)
(***************************************************************************)
EXTENDS Integers, Sequences, FiniteSets, SequencesExt

CONSTANTS
  Collections,
  Ids,      \* ids of entities, positive numbers; one collection's each
  Values,   \* the values of the attributes of an entity
  Pool,     \* the queries that are asked: a function from their names
  MaxRows   \* bound: entities in the database

Null == 0

ASSUME QueryAssumption ==
  /\ Ids \subseteq Nat \ {0} /\ IsFiniteSet(Ids) /\ MaxRows \in Nat
  /\ \A at \in DOMAIN Values : Values[at] \subseteq Nat

VARIABLES
  db,      \* the entities of each collection
  fetched  \* the query that was asked last, and what it returned

vars == <<db, fetched>>

-----------------------------------------------------------------------------
(* Queries.                                                                *)

Lit(v) == [is |-> "literal", value |-> v]
Up(n, at) == [is |-> "up", level |-> n, attr |-> at]       \* $n.attr
ViewColumn(v, at) == [is |-> "view", view |-> v, attr |-> at]  \* $view_v.attr

Bool(v) == [is |-> "bool", value |-> v]
Stmt(at, op, v) == [is |-> "statement", attr |-> at, op |-> op, val |-> v]
Group(mod, fs) == [is |-> "group", mod |-> mod, filters |-> fs]
Exists(q) == [is |-> "exists", query |-> q]

NoLimit == -1
From(c, where) ==
  [from |-> c, view |-> <<>>, where |-> where, order |-> <<>>, limit |-> NoLimit,
   after |-> <<>>, include |-> <<>>]

IsVariable(f) == f.is = "statement" /\ f.val.is = "up"
IsIndexable(f) == IsVariable(f) /\ f.op \in {"=", "!=", "<", "<=", ">", ">="}
IsJoin(f) == IsVariable(f) /\ f.val.level = 1

RECURSIVE IsStatic(_)
IsStatic(f) ==
  f.is # "exists" /\ (f.is = "group" => \A n \in DOMAIN f.filters : IsStatic(f.filters[n]))

(* Apply op to each element of a sequence and join the sequences it makes. *)
FlatMap(seq, op(_)) == FlattenSeq([n \in DOMAIN seq |-> op(seq[n])])
Each(seq, op(_)) == [n \in DOMAIN seq |-> op(seq[n])]
AllHold(seq, test(_)) == \A n \in DOMAIN seq : test(seq[n])
SomeHold(seq, test(_)) == \E n \in DOMAIN seq : test(seq[n])

-----------------------------------------------------------------------------
(* simplifyQuery.                                                          *)

Collapsed(fs, mod) ==
  LET settles == Bool(mod = "or")
  IN  IF settles \in ToSet(fs) THEN <<settles>> ELSE fs

Deduplicated(fs) ==
  LET first(n) == \A m \in 1..(n - 1) : fs[m] # fs[n]
      kept == {n \in DOMAIN fs : first(n)}
  IN  [n \in 1..Cardinality(kept) |->
         fs[CHOOSE k \in kept : Cardinality({j \in kept : j <= k}) = n]]

(* A group of the same kind as the one around it is merged into it.        *)
Merged(f, mod) == IF f.is = "group" /\ f.mod = mod THEN f.filters ELSE <<f>>

RECURSIVE SimplifyQuery(_), SimplifyWhere(_, _), SimplifyClause(_)

(* A clause, or nothing when it is dropped.                                *)
SimplifyClause(f) ==
  CASE f.is = "group" ->
         LET fs == SimplifyWhere(f.filters, f.mod)
         IN  IF Len(fs) = 0 THEN <<>>
             ELSE IF Len(fs) = 1 THEN SimplifyClause(fs[1])
             ELSE <<Group(f.mod, fs)>>
    [] f.is = "exists" ->
         LET q == SimplifyQuery(f.query)
         IN  <<IF q.where = <<Bool(FALSE)>> THEN Bool(FALSE) ELSE Exists(q)>>
    [] OTHER -> <<f>>

SimplifyWhere(fs, mod) ==
  LET merged(g) == Merged(g, mod)
      simplified(f) == FlatMap(SimplifyClause(f), merged)
      clauses == Collapsed(FlatMap(fs, simplified), mod)
      distinct == Deduplicated(clauses)
  IN  IF distinct = clauses THEN clauses ELSE SimplifyWhere(distinct, mod)

SimplifyQuery(q) ==
  LET simplified(inc) == [inc EXCEPT !.query = SimplifyQuery(inc.query)]
  IN  [q EXCEPT !.where = SimplifyWhere(q.where, "and"),
                !.include = Each(q.include, simplified)]

-----------------------------------------------------------------------------
(* compileQuery: the views of a query.                                     *)

(* hasHigherLevelReferences: filterStatementIteratorFlat goes into groups. *)
RECURSIVE RefersHigher(_)
RefersHigher(fs) ==
  SomeHold(fs, LAMBDA f :
    \/ IsVariable(f) /\ f.val.level > 1
    \/ f.is = "group" /\ RefersHigher(f.filters)
    \/ f.is = "exists" /\ RefersHigher(f.query.where))

Invertible(sub) ==
  /\ ~RefersHigher(sub.where)
  /\ Len(SelectSeq(sub.where, IsJoin)) < 2

CanCache(q) == q.where = <<>> \/ SomeHold(q.where, IsIndexable)

(* queryToViews: sorted by the joins first, for the binary searches.       *)
BadView(q) == [q EXCEPT !.where = SelectSeq(@, LAMBDA f : IsStatic(f) /\ ~IsIndexable(f)),
                        !.limit = IF SomeHold(q.where, IsIndexable) THEN NoLimit ELSE @,
                        !.after = <<>>]
View(q) ==
  LET joins == SelectSeq(q.where, IsIndexable)
      byJoins == [n \in DOMAIN joins |-> <<joins[n].attr, "ASC">>]
  IN  [q EXCEPT !.where = SelectSeq(@, LAMBDA f : IsStatic(f) /\ ~IsIndexable(f)),
                !.order = byJoins \o @,
                !.limit = IF joins = <<>> THEN @ ELSE NoLimit,
                !.after = <<>>]

RECURSIVE ExtractViews(_), ToViews(_), SubqueryToView(_)

(* whereFiltersToViews, of one filter.                                     *)
ToViews(f) ==
  IF f.is = "group" THEN <<[f EXCEPT !.filters = FlatMap(@, ToViews)]>>
  ELSE IF f.is # "exists" THEN <<f>>
  ELSE LET sub == f.query
           joins == SelectSeq(sub.where, IsJoin)
           cached == SelectSeq(sub.where, IsIndexable)
           rest == FlatMap(SelectSeq(sub.where, LAMBDA g : ~IsStatic(g)), ToViews)
       IN  IF Invertible(sub)
           THEN LET inner == ExtractViews(sub)
                    view == [inner EXCEPT !.where = SelectSeq(@, LAMBDA g : ~IsJoin(g))]
                IN  Each(joins, LAMBDA j : Stmt(j.val.attr, "in", ViewColumn(view, j.attr)))
           ELSE IF CanCache(sub)
           THEN <<Exists([sub EXCEPT !.view = <<ExtractViews(View(sub))>>,
                                     !.where = cached \o rest])>>
           ELSE <<f>>

(* An inclusion.  What is neither a join nor static is left out.           *)
SubqueryToView(sub) ==
  IF CanCache(sub) /\ sub.include = <<>>
  THEN [sub EXCEPT !.view = <<ExtractViews(View(sub))>>,
                   !.where = SelectSeq(@, IsIndexable)]
  ELSE ExtractViews(sub)

ExtractViews(q) ==
  [q EXCEPT
    !.where = FlatMap(@, ToViews),
    !.include = Each(@, LAMBDA inc : [inc EXCEPT !.query = SubqueryToView(inc.query)])]

-----------------------------------------------------------------------------
(* Values and order.                                                       *)

(* evaluateFilterStatement: no value is less than every value.             *)
Compare(x, op, y) ==
  CASE op = "=" -> x = y   [] op = "!=" -> x # y
    [] op = "<" -> x < y   [] op = "<=" -> x <= y
    [] op = ">" -> x > y   [] op = ">=" -> x >= y
    [] op = "in" -> x # Null /\ x \in ToSet(y)
    [] op = "nin" -> x = Null \/ x \notin ToSet(y)

(* The first attribute of the order in which two entities differ, or none. *)
Differing(order, d, e) ==
  LET where == {n \in DOMAIN order : d[order[n][1]] # e[order[n][1]]}
  IN  IF where = {} THEN 0 ELSE CHOOSE n \in where : \A m \in where : n <= m

Precedes(order, d, e) ==
  LET n == Differing(order, d, e)
  IN  n # 0 /\ IF order[n][2] = "ASC" THEN d[order[n][1]] < e[order[n][1]]
                                     ELSE d[order[n][1]] > e[order[n][1]]

(* sortViewEntities; the sort is stable.                                   *)
SortViewEntities(rows, order) ==
  LET before(m, n) == \/ Precedes(order, rows[m].data, rows[n].data)
                      \/ ~Precedes(order, rows[n].data, rows[m].data) /\ m < n
      rank(n) == Cardinality({m \in DOMAIN rows : before(m, n)})
  IN  [k \in DOMAIN rows |-> rows[CHOOSE n \in DOMAIN rows : rank(n) = k - 1]]

(* satisfiesAfter: the cursor holds a value for each part of the order.    *)
SatisfiesAfter(q, e) ==
  q.after = <<>> \/
    LET cursor == [at \in {q.order[n][1] : n \in DOMAIN q.order} |->
                     q.after.cursor[CHOOSE n \in DOMAIN q.order : q.order[n][1] = at]]
    IN  IF Differing(q.order, cursor, e) = 0 THEN q.after.inclusive
        ELSE Precedes(q.order, cursor, e)

FirstOf(seq, n) == IF n = NoLimit \/ Len(seq) <= n THEN seq ELSE SubSeq(seq, 1, n)

-----------------------------------------------------------------------------
(* resolveQueryFromView.                                                   *)

(* binarySearch: the index of the first, or of the last, row of the run    *)
(* that has the value; from 0, and -1 for none.                            *)
RECURSIVE Search(_, _, _, _, _, _, _)
Search(rows, at, v, dir, start, end, result) ==
  IF start > end THEN result
  ELSE LET mid == (start + end) \div 2
           x == rows[mid + 1].data[at]
           found == IF x = v THEN mid ELSE result
       IN  IF x < v \/ (x = v /\ dir = "end")
           THEN Search(rows, at, v, dir, mid + 1, end, found)
           ELSE Search(rows, at, v, dir, start, mid - 1, found)

(* Array.slice, with its indices.                                          *)
Slice(seq, from, to) ==
  LET at(n) == IF n < 0 THEN IF n + Len(seq) < 0 THEN 0 ELSE n + Len(seq) ELSE n
  IN  SubSeq(seq, at(from) + 1, IF at(to) < Len(seq) THEN at(to) ELSE Len(seq))

(* Whatever the operator, it is the run of equal values that is found.     *)
ResolveFromView(rows, at, op, v) ==
  LET find(dir) == Search(rows, at, v, dir, 0, Len(rows) - 1, -1)
  IN  IF op = "!="
      THEN Slice(rows, 0, find("start") + 1) \o Slice(rows, find("end"), Len(rows))
      ELSE Slice(rows, find("start"), find("end") + 1)

-----------------------------------------------------------------------------
(* compileQueryToSteps, and executeSteps on its steps.                     *)

(* A variable of level n is looked up n rows up the stack.                 *)
Resolved(val, stack) ==
  IF val.is = "literal" THEN val.value
  ELSE stack[Len(stack) - val.level + 1][val.attr]

(* Entities of a collection in the order of their ids, as the store has    *)
(* them, or of the ids that are looked up.                                 *)
Scan(c) ==
  LET S == db[c]
  IN  [n \in 1..Cardinality(S) |->
         CHOOSE e \in S : Cardinality({d \in S : d.id < e.id}) = n - 1]

LookUp(c, ids) ==
  FlatMap(Deduplicated(ids),
          LAMBDA id : LET found == {e \in db[c] : e.id = id}
                      IN  IF found = {} THEN <<>> ELSE <<CHOOSE e \in found : TRUE>>)

Entity(e) == [data |-> e, subqueries |-> <<>>]

(* getIdFilter: 0 when there is none.                                      *)
IdFilter(q) ==
  LET found == {n \in DOMAIN q.where : /\ q.where[n].is = "statement"
                                       /\ q.where[n].attr = "id" /\ q.where[n].op \in {"=", "in"}}
  IN  IF found = {} THEN 0 ELSE CHOOSE n \in found : \A m \in found : n <= m

RECURSIVE Run(_, _), Satisfies(_, _, _)

Column(val, stack) ==
  IF val.is = "view" THEN LET view == Run(val.view, stack)
                          IN  [n \in DOMAIN view |-> view[n].data[val.attr]]
  ELSE Resolved(val, stack)

(* satisfiesNonRelationalFilter, with its variables bound.                 *)
Satisfies(f, e, stack) ==
  CASE f.is = "bool" -> f.value
    [] f.is = "statement" -> Compare(e[f.attr], f.op, Column(f.val, stack))
    [] f.is = "group" /\ f.mod = "and" -> AllHold(f.filters, LAMBDA g : Satisfies(g, e, stack))
    [] f.is = "group" /\ f.mod = "or" -> SomeHold(f.filters, LAMBDA g : Satisfies(g, e, stack))

Run(q, stack) ==
  LET static == SelectSeq(q.where, IsStatic)
      exist == SelectSeq(q.where, LAMBDA f : f.is = "exists")
      n == IdFilter(q)
      idVal == q.where[n].val
      ids == IF q.where[n].op = "=" THEN <<Resolved(idVal, stack)>> ELSE Column(idVal, stack)
      \* the candidates, from a view or from the store
      resolved == FoldLeft(LAMBDA rows, f : ResolveFromView(rows, f.attr, f.op, Resolved(f.val, stack)),
                           Run(q.view[1], stack), static)
      candidates == Each(IF n = 0 THEN Scan(q.from) ELSE LookUp(q.from, ids), Entity)
      \* the filter with the id is taken out, by its index in q.where
      left == IF n = 0 \/ n > Len(static) THEN static ELSE RemoveAt(static, n)
      passes(r) == /\ AllHold(left, LAMBDA f : Satisfies(f, r.data, stack))
                   /\ SatisfiesAfter(q, r.data)
      rows == IF q.view # <<>> THEN resolved ELSE SelectSeq(candidates, passes)
      related == SelectSeq(rows, LAMBDA r :
                   AllHold(exist, LAMBDA f : Run(f.query, Append(stack, r.data)) # <<>>))
      sorted == IF q.view # <<>> THEN related ELSE SortViewEntities(related, q.order)
      included(r, inc) ==
        LET found == Run(inc.query, Append(stack, r.data))
        IN  IF inc.one THEN FirstOf(found, 1) ELSE found
  IN  Each(FirstOf(sorted, q.limit),
           LAMBDA r : [r EXCEPT !.subqueries = Each(q.include, LAMBDA inc : included(r, inc))])

(* What can be run at all, with depth rows on the stack.  The engine       *)
(* throws on an exists filter that is left in a group, on filters of a     *)
(* view that are no joins, and on variables above its stack; and a view    *)
(* that a variable is left in would be run for one row and kept for all.   *)
RECURSIVE Runs(_, _), Closed(_, _)
Closed(f, depth) ==
  CASE f.is = "bool" -> TRUE
    [] f.is = "statement" ->
         IF f.val.is = "view" THEN Runs(f.val.view, 0)
         ELSE f.val.is = "up" => f.val.level <= depth
    [] f.is = "group" -> IsStatic(f) /\ AllHold(f.filters, LAMBDA g : Closed(g, depth))
    [] f.is = "exists" -> Runs(f.query, depth + 1)

Runs(q, depth) ==
  /\ AllHold(q.where, LAMBDA f : Closed(f, depth))
  /\ q.view # <<>> => /\ Runs(q.view[1], 0)
                      /\ AllHold(q.where, LAMBDA f : IsStatic(f) => IsIndexable(f))
  /\ AllHold(q.include, LAMBDA inc : Runs(inc.query, depth + 1))

-----------------------------------------------------------------------------
(* The database.                                                           *)

Entities == UNION {[id : {i}, a : Values["a"], b : Values["b"]] : i \in Ids}

Stored == UNION {db[c] : c \in Collections}

None == [query |-> "none"]

Insert(c, e) ==
  /\ \A d \in Stored : d.id # e.id
  /\ Cardinality(Stored) < MaxRows
  /\ db' = [db EXCEPT ![c] = @ \union {e}]
  /\ fetched' = None

Update(c, e, at, v) ==
  /\ e[at] # v
  /\ db' = [db EXCEPT ![c] = (@ \ {e}) \union {[e EXCEPT ![at] = v]}]
  /\ fetched' = None

Delete(c, e) ==
  /\ db' = [db EXCEPT ![c] = @ \ {e}]
  /\ fetched' = None

Fetch(name) ==
  LET plan == ExtractViews(SimplifyQuery(Pool[name]))
  IN  /\ fetched = None
      /\ fetched' = [query |-> name, runs |-> Runs(plan, 0),
                     rows |-> IF Runs(plan, 0) THEN Run(plan, <<>>) ELSE <<>>]
      /\ UNCHANGED db

Init == db = [c \in Collections |-> {}] /\ fetched = None

Next ==
  \/ \E c \in Collections :
       \/ \E e \in Entities : Insert(c, e)
       \/ \E e \in db[c] : Delete(c, e) \/ \E at \in {"a", "b"} : \E v \in Values[at] : Update(c, e, at, v)
  \/ \E name \in DOMAIN Pool : Fetch(name)

Spec == Init /\ [][Next]_vars

-----------------------------------------------------------------------------
(* Properties.                                                             *)

(* What a query asks for: the entities its filters hold for, an exists     *)
(* filter when its own query has an answer.                                *)
RECURSIVE Answers(_, _), Holds(_, _, _)
Holds(f, e, stack) ==
  CASE f.is = "bool" -> f.value
    [] f.is = "statement" -> Compare(e[f.attr], f.op, Resolved(f.val, stack))
    [] f.is = "group" /\ f.mod = "and" -> \A g \in ToSet(f.filters) : Holds(g, e, stack)
    [] f.is = "group" /\ f.mod = "or" -> \E g \in ToSet(f.filters) : Holds(g, e, stack)
    [] f.is = "exists" -> Answers(f.query, Append(stack, e)) # {}

Answers(q, stack) ==
  {e \in db[q.from] : /\ \A f \in ToSet(q.where) : Holds(f, e, stack)
                      /\ SatisfiesAfter(q, e)}

(* Rows keep the promise of a query when they are answers, each once, in   *)
(* the order asked for, as many as the limit lets, with no answer left out *)
(* that comes before one of them; and so do the rows they include.         *)
RECURSIVE Keeps(_, _, _)
Keeps(q, stack, rows) ==
  LET answers == Answers(q, stack)
      datas == {rows[n].data : n \in DOMAIN rows}
      most == Cardinality(answers)
  IN  /\ datas \subseteq answers /\ Cardinality(datas) = Len(rows)
      /\ Len(rows) = IF q.limit = NoLimit \/ most < q.limit THEN most ELSE q.limit
      /\ \A m, n \in DOMAIN rows : m < n => ~Precedes(q.order, rows[n].data, rows[m].data)
      /\ \A e \in answers \ datas : \A d \in datas : ~Precedes(q.order, e, d)
      /\ \A n \in DOMAIN rows : \A k \in DOMAIN q.include :
           LET inc == q.include[k]
           IN  Keeps(IF inc.one THEN [inc.query EXCEPT !.limit = 1] ELSE inc.query,
                     Append(stack, rows[n].data), rows[n].subqueries[k])

(* The plan of a query (simplified, inverted, cached, nested, looked up by *)
(* id) returns what the query asks for, whatever the database holds.       *)
FetchCorrect == fetched # None => fetched.runs /\ Keeps(Pool[fetched.query], <<>>, fetched.rows)
=============================================================================
