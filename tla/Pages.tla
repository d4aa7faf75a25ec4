-------------------------------- MODULE Pages --------------------------------
(***************************************************************************)
(* subscribeWithPagination of the client: a live query whose window moves  *)
(* a page at a time.  The query asks for a row more on each side of the    *)
(* page that the window is at; the handler of its results takes them off,  *)
(* says whether there is a page on either side, and remembers the rows     *)
(* that the next and the previous page will start from.  To page back the  *)
(* order of the query is reversed.                                         *)
(*                                                                         *)
(* A row is its key and its id.  What the live query delivers are the rows *)
(* of the moment (Views shows that); that it delivers them later is what   *)
(* matters here.                                                           *)
(*                                                                         *)
(* Names that Reads has too are told apart by a prefix: ReadsProofs is     *)
(* about both.                                                             *)
(***************************************************************************)
EXTENDS Integers, Sequences, FiniteSets, SequencesExt

CONSTANTS
  Ids,           \* ids of rows, numbers for their order
  Keys,          \* values of the attribute that the caller orders by
  PageSize,      \* the limit that the caller asks for
  MaxPageWrites, \* bound: writes to the rows while they are paged
  MaxMoves,      \* bound: calls of nextPage and prevPage
  Hasty,         \* the caller moves before the results of its last move are in
  Adrift         \* rows from the cursor on may be deleted, or change their keys

ASSUME PagesAssumption ==
  /\ Ids \subseteq Nat /\ IsFiniteSet(Ids) /\ Keys \subseteq Nat
  /\ PageSize \in Nat \ {0} /\ MaxPageWrites \in Nat /\ MaxMoves \in Nat
  /\ Hasty \in BOOLEAN /\ Adrift \in BOOLEAN

PageRows == [key : Keys, id : Ids]
NoRow == [key |-> -1, id |-> -1]   \* undefined, as a cursor

VARIABLES
  rows,       \* the rows that the query matches
  descending, \* the direction that the caller orders by
  after,      \* query.after, always inclusive: a cursor, or NoRow
  limit,      \* query.limit
  direction,  \* pagingDirection; the order is flipped while "reversed"
  rangeStart, \* of the results that were handled last
  rangeEnd,
  pageDue,    \* the live query has results to deliver
  shown,      \* the last call of onResults
  turn,       \* history: what the last move started from, and if rows changed since
  pageUsed    \* counts for the bounds

pagesVars == <<rows, descending, after, limit, direction, rangeStart, rangeEnd, pageDue,
               shown, turn, pageUsed>>

-----------------------------------------------------------------------------
(* The query.                                                              *)

(* The order of the caller, made stable by id.                             *)
Before(r, s) ==
  \/ IF descending THEN r.key > s.key ELSE r.key < s.key
  \/ r.key = s.key /\ r.id < s.id

Reversed == direction = "reversed"

Ahead(r, s) == IF Reversed THEN Before(s, r) ELSE Before(r, s)

(* satisfiesAfter, with the cursor included.                               *)
BadSatisfiesAfter(r) == after = NoRow \/ Ahead(after, r)
SatisfiesAfter(r) == after = NoRow \/ r = after \/ Ahead(after, r)

(* The rows of a set in an order: the n-th has n - 1 before it.            *)
Sorted(S, Precedes(_, _)) ==
  [n \in 1..Cardinality(S) |->
     CHOOSE r \in S : Cardinality({s \in S : Precedes(s, r)}) = n - 1]

FirstOf(seq, n) == SubSeq(seq, 1, IF n < Len(seq) THEN n ELSE Len(seq))

Results == FirstOf(Sorted({r \in rows : SatisfiesAfter(r)}, Ahead), limit)

-----------------------------------------------------------------------------
(* compareCursors looks at the first attribute, and not at the direction.  *)
ReachesCursor(r) == after.key >= r.key

RowAt(seq, n) == IF n \in DOMAIN seq THEN seq[n] ELSE NoRow

(* subscriptionResultHandler.                                              *)
HandleResults ==
  /\ pageDue
  /\ LET results == Results
         back == after # NoRow /\ results # <<>> /\ ReachesCursor(results[1])
         ahead == Len(results) >= limit
         hasPrevious == IF Reversed THEN ahead ELSE back
         hasNext == IF Reversed THEN back ELSE ahead
         page == SubSeq(results, IF back THEN 2 ELSE 1, Len(results) - IF ahead THEN 1 ELSE 0)
     IN  /\ rangeStart' = RowAt(page, 1)
         /\ rangeEnd' = RowAt(page, PageSize)
         /\ IF ~hasPrevious /\ after # NoRow
            THEN \* back at the start: the query is reset, and runs again
                 /\ after' = NoRow /\ limit' = PageSize + 1
                 /\ direction' = "forward"
                 /\ UNCHANGED <<pageDue, shown>>
            ELSE /\ shown' = [page |-> IF Reversed THEN Reverse(page) ELSE page,
                              hasNext |-> hasNext, hasPrevious |-> hasPrevious]
                 /\ pageDue' = FALSE
                 /\ UNCHANGED <<after, limit, direction>>
  /\ UNCHANGED <<rows, descending, turn, pageUsed>>

-----------------------------------------------------------------------------
(* The caller.                                                             *)

Move(to) ==
  /\ pageUsed.moves < MaxMoves /\ pageUsed' = [pageUsed EXCEPT !.moves = @ + 1]
  /\ Hasty \/ ~pageDue
  /\ pageDue' = TRUE
  /\ turn' = [to |-> to, from |-> shown.page, quiet |-> ~pageDue]
  /\ UNCHANGED <<rows, descending, rangeStart, rangeEnd, shown>>

BadCursor == rangeEnd
Cursor == rangeStart

(* A page that has a cursor asks for the row at the cursor too.            *)
Limit == IF after = NoRow THEN limit + 1 ELSE limit

NextPage ==
  /\ shown.hasNext
  /\ IF Reversed
     THEN /\ after' = Cursor
          /\ UNCHANGED limit
     ELSE /\ limit' = Limit
          /\ after' = rangeEnd
  /\ direction' = "forward"
  /\ Move("next")

PrevPage ==
  /\ shown.hasPrevious
  /\ after' = IF Reversed THEN rangeEnd ELSE Cursor
  /\ direction' = "reversed"
  /\ UNCHANGED limit
  /\ Move("previous")

Written(new) ==
  /\ pageUsed.writes < MaxPageWrites /\ pageUsed' = [pageUsed EXCEPT !.writes = @ + 1]
  /\ rows' = new
  /\ pageDue' = TRUE
  /\ turn' = [turn EXCEPT !.quiet = FALSE]
  /\ UNCHANGED <<descending, after, limit, direction, rangeStart, rangeEnd, shown>>

Insert(r) ==
  /\ \A s \in rows : s.id # r.id
  /\ Written(rows \union {r})

MayMove(r) == Adrift \/ after = NoRow \/ Ahead(r, after)

Delete(r) ==
  /\ MayMove(r)
  /\ Written(rows \ {r})

Update(r, key) ==
  /\ MayMove(r)
  /\ r.key # key
  /\ Written((rows \ {r}) \union {[r EXCEPT !.key = key]})

-----------------------------------------------------------------------------
NoPage == [page |-> <<>>, hasNext |-> FALSE, hasPrevious |-> FALSE]

PagesInit ==
  /\ \E ids \in SUBSET Ids : \E key \in [ids -> Keys] :
       rows = {[key |-> key[i], id |-> i] : i \in ids}
  /\ descending \in BOOLEAN
  /\ after = NoRow /\ limit = PageSize + 1 /\ direction = "forward"
  /\ rangeStart = NoRow /\ rangeEnd = NoRow
  /\ pageDue = TRUE /\ shown = NoPage
  /\ turn = [to |-> "start", from |-> <<>>, quiet |-> FALSE]
  /\ pageUsed = [moves |-> 0, writes |-> 0]

PagesNext ==
  \/ HandleResults \/ NextPage \/ PrevPage
  \/ \E r \in PageRows : Insert(r)
  \/ \E r \in rows : Delete(r) \/ \E key \in Keys : Update(r, key)

PagesSpec == PagesInit /\ [][PagesNext]_pagesVars

-----------------------------------------------------------------------------
(* Properties.                                                             *)

PagesTypeOK ==
  /\ rows \subseteq PageRows /\ descending \in BOOLEAN
  /\ {after, rangeStart, rangeEnd} \subseteq PageRows \union {NoRow}
  /\ limit \in PageSize + 1 .. PageSize + 2
  /\ direction \in {"forward", "reversed"} /\ pageDue \in BOOLEAN
  /\ shown.page \in Seq(PageRows) /\ {shown.hasNext, shown.hasPrevious} \subseteq BOOLEAN

All == Sorted(rows, Before)

(* "The subscription callback will have hasNextPage and hasPreviousPage    *)
(* booleans to indicate if there are more pages to fetch" (docs,           *)
(* client/subscribe-with-pagination.mdx): what the callback was given last *)
(* is a page of the rows there are, in their order, with no row missing in *)
(* between, as long as it can be; and there are rows before it, and after  *)
(* it, just when it was told so.                                           *)
PageHonest ==
  ~pageDue =>
    LET all == All IN
    \E i \in 0..Len(all) : \E j \in i..Len(all) :
      /\ shown.page = SubSeq(all, i + 1, j)
      /\ shown.hasPrevious = (i > 0) /\ shown.hasNext = (j < Len(all))
      /\ Len(shown.page) <= PageSize
      /\ shown.hasNext => Len(shown.page) = PageSize

(* Of that, what the documentation says in so many words: there are rows   *)
(* before the page, and after it, just when the callback was told so.      *)
FlagsHonest ==
  ~pageDue /\ shown.page # <<>> =>
    /\ shown.hasPrevious <=> \E r \in rows : Before(r, shown.page[1])
    /\ shown.hasNext <=> \E r \in rows : Before(Last(shown.page), r)

(* nextPage shows the rows that follow the page that was shown, and        *)
(* prevPage the rows before it (or the first page): with no write in       *)
(* between, to turn pages skips no row and shows none twice.               *)
TurnsTile ==
  ~pageDue /\ turn.quiet /\ turn.from # <<>> /\ shown.page # <<>> =>
    LET at(r) == Cardinality({s \in rows : Before(s, r)}) + 1
    IN  /\ turn.to = "next" => at(shown.page[1]) = at(Last(turn.from)) + 1
        /\ turn.to = "previous" =>
             \/ at(Last(shown.page)) = at(turn.from[1]) - 1
             \/ at(shown.page[1]) = 1 /\ at(turn.from[1]) <= PageSize
=============================================================================
