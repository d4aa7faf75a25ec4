------------------------------- MODULE MCQuery -------------------------------
(***************************************************************************)
(* Instances of Query: the queries that are asked of a small database of   *)
(* posts and authors; and a query that the documentation gives.            *)
(***************************************************************************)
EXTENDS Query

AttrValues == [a |-> {1, 2}, b |-> {Null, 1}]

Equal(at, v) == Stmt(at, "=", Lit(v))
Joined(at, up) == Stmt(at, "=", Up(1, up))
Include(q, one) == [query |-> q, one |-> one]

Authors(where) == From("authors", where)
Posts(where) == From("posts", where)

ByAuthor == Joined("a", "id")                    \* a post's a is its author's id
AuthorsOf == Authors(<<Joined("id", "a")>>)
Latest == [Posts(<<ByAuthor>>) EXCEPT !.order = <<<<"b", "DESC">>, <<"id", "ASC">>>>, !.limit = 1]
Alike == Authors(<<Joined("a", "a"), Joined("b", "b")>>)
Sorted == [Posts(<<>>) EXCEPT !.order = <<<<"a", "DESC">>, <<"id", "ASC">>>>]

(* Queries of every strategy.                                              *)
Asked == [
  groups |-> Posts(<<Group("or", <<Equal("a", 1), Group("or", <<Equal("b", 1), Bool(FALSE)>>)>>),
                     Group("or", <<Group("and", <<Equal("b", Null), Equal("a", 2)>>), Stmt("b", ">", Lit(Null))>>),
                     Group("and", <<Stmt("id", "!=", Lit(2)), Stmt("id", "!=", Lit(2))>>)>>),
  never |-> Posts(<<Group("and", <<Equal("a", 1), Bool(FALSE)>>)>>),
  comparisons |-> Posts(<<Stmt("b", "<=", Lit(1)), Stmt("b", "nin", Lit(<<1>>)), Stmt("a", ">=", Lit(2)),
                          Stmt("a", "in", Lit(<<2, 1>>)), Stmt("id", "<", Lit(3))>>),
  top |-> [Sorted EXCEPT !.limit = 2],
  page |-> [Sorted EXCEPT !.after = [cursor |-> <<1, 1>>, inclusive |-> FALSE], !.limit = 1],
  pageFrom |-> [Sorted EXCEPT !.after = [cursor |-> <<2, 2>>, inclusive |-> TRUE], !.limit = 2],
  byId |-> Posts(<<Equal("a", 1), Equal("id", 1)>>),
  byIds |-> [Posts(<<Stmt("id", "in", Lit(<<3, 1, 3>>))>>) EXCEPT !.limit = 1],
  inverted |-> Posts(<<Exists(AuthorsOf), Equal("b", 1)>>),
  invertedId |-> Authors(<<Equal("a", 1), Exists(Posts(<<ByAuthor, Equal("b", 1)>>))>>),
  invertedTwice |-> Authors(<<Exists(Posts(<<ByAuthor, Exists(Authors(<<Joined("a", "a"), Equal("b", 1)>>))>>))>>),
  either |-> Posts(<<Group("or", <<Equal("b", 1), Exists(AuthorsOf)>>)>>),
  cached |-> Posts(<<Exists(Alike)>>),
  cachedWith |-> Posts(<<Exists([Alike EXCEPT !.where = @ \o <<Stmt("id", ">", Lit(1))>>]), Equal("a", 2)>>),
  grandparent |-> Posts(<<Exists(Authors(<<Joined("a", "a"),
                            Exists(Posts(<<ByAuthor, Stmt("b", "=", Up(2, "b"))>>))>>))>>),
  nested |-> Posts(<<Exists(Authors(<<Equal("a", 1),
                       Exists(Posts(<<ByAuthor, Stmt("id", "=", Up(2, "id"))>>))>>))>>),
  latest |-> [Authors(<<>>) EXCEPT !.include = <<Include(Latest, FALSE), Include(Latest, TRUE)>>],
  authorAndAlike |-> [Sorted EXCEPT !.include = <<Include(AuthorsOf, TRUE), Include(Alike, FALSE)>>],
  tree |-> [Posts(<<Exists(AuthorsOf)>>) EXCEPT !.include =
              <<Include([AuthorsOf EXCEPT !.include = <<Include(Latest, FALSE)>>], TRUE)>>]
]

(* "Fetch all 747 planes that have a flight to an airport newer than the   *)
(* plane" (docs, query/variables.mdx).  Of a plane, a is created_at and b  *)
(* the model; of a flight, the plane and the destination; of an airport, a *)
(* is created_at.                                                          *)
Documented == [
  newer |-> From("planes", <<Equal("b", 1), Exists(
              From("flights", <<Joined("a", "id"), Exists(
                From("airports", <<Joined("id", "b"), Stmt("a", ">", Up(2, "a"))>>))>>))>>)
]

FleetValues == [a |-> {1, 2}, b |-> {1, 2, 3}]
=============================================================================
