-------------------------------- MODULE Reads --------------------------------
(***************************************************************************)
(* How reads of the client wait for the server: fetch with its policies,   *)
(* and subscribeWithStatus with the loading states that the hooks of the   *)
(* frameworks show.  There is one query.  A call of either puts it in the  *)
(* sync engine, hears of its sync state there, and reads the local         *)
(* database, which the server's answer is written to.                      *)
(*                                                                         *)
(* The connection is what Connection makes of it, and the views of the     *)
(* local database what Views makes of them: here an update of the views    *)
(* takes the database at its start, or at its end for the first results.   *)
(***************************************************************************)
EXTENDS Naturals, Sequences, FiniteSets

CONSTANTS
  Subs,       \* calls of subscribeWithStatus
  Fetches,    \* calls of fetch
  Policies,   \* those they use, of local-first, remote-first, local-and-remote
  MaxWrites,  \* bound: local writes
  MaxFaults,  \* bound: losses of the connection and QuerySyncErrors
  Fails,      \* the server answers with QuerySyncErrors
  Leaves,     \* subscribers unsubscribe
  Overlap     \* an answer may be stored between the steps of an update of the views,
              \* and between the two by which fetch decides

ASSUME ReadsAssumption ==
  /\ Policies \subseteq {"local-first", "remote-first", "local-and-remote"}
  /\ {MaxWrites, MaxFaults} \subseteq Nat /\ {Fails, Leaves, Overlap} \subseteq BOOLEAN
  /\ Subs \intersect Fetches = {} /\ {"handler", "writer"} \intersect (Subs \union Fetches) = {}

VARIABLES
  status,   \* connectionStatus
  ready,    \* serverReady
  requests, \* messages to the server, and from it
  replies,
  served,   \* the server has the query
  query,    \* the query in the sync engine, or NoQuery
  due,      \* a connectQuery is to run
  seen,     \* the query is marked as seen, in the metadata
  local,    \* the local database: has it the answer, how many writes
  view,     \* the results of the live query, or NoRows
  changed,  \* they are not flushed yet
  fresh,    \* uninitializedListeners
  update,   \* where the calls of updateViews are
  taken,    \* what the running one took
  handling, \* the step of the ENTITY_DATA handler
  sub,      \* the variables of subscribeWithStatus
  fetch,    \* and those of fetch
  used      \* counts for the bounds

vars == <<status, ready, requests, replies, served, query, due, seen, local, view, changed,
          fresh, update, taken, handling, sub, fetch, used>>

link == <<status, ready>>
wire == <<requests, replies, served>>
views == <<view, changed, fresh, update, taken>>

Callers == Subs \union {"handler", "writer"}
Rows(answer, writes) == [is |-> "rows", answer |-> answer, writes |-> writes]
NoRows == [Rows(FALSE, 0) EXCEPT !.is = "none"]
NoQuery == [state |-> "none", sent |-> FALSE, count |-> 0, heard |-> {}]

-----------------------------------------------------------------------------
(* subscribeWithStatus: its variables, and when it calls back with them.   *)

Fetching(r) == r.local \/ (r.initial /\ r.waiting)

Fired(r) == [r EXCEPT !.told = [results |-> r.results, fetching |-> Fetching(r),
                                fetchingRemote |-> r.remote, error |-> r.error]]

(* setRemoteStatesToFalseAndFireIfChanged                                  *)
RemoteOff(r) ==
  IF r.remote \/ r.waiting THEN Fired([r EXCEPT !.remote = FALSE, !.waiting = FALSE]) ELSE r

BadGotResults(r, rows) ==
  Fired([r EXCEPT !.results = rows, !.local = FALSE, !.error = FALSE,
                  !.remote = FALSE, !.waiting = IF r.remote THEN FALSE ELSE @])

(* The callback with results.                                              *)
GotResults(r, rows) ==
  LET responded == query.state = "FULFILLED"
  IN  IF r.unsubscribed THEN r
      ELSE Fired([r EXCEPT !.results = rows, !.local = FALSE, !.error = FALSE,
                           !.remote = @ /\ ~responded,
                           !.waiting = IF r.remote THEN ~responded ELSE @])

GotError(r) ==
  IF r.unsubscribed THEN r ELSE Fired([r EXCEPT !.error = TRUE, !.local = FALSE])

(* onQuerySyncStateChange                                                  *)
SyncState(r, state) ==
  IF state = "IN_FLIGHT" THEN IF r.remote THEN r ELSE Fired([r EXCEPT !.remote = TRUE])
  ELSE RemoteOff(r)

(* Every subscriber that hears of the query is called, and every fetch     *)
(* that waits for it goes on.                                              *)
Heard(subs, state) ==
  [s \in Subs |->
     IF s \notin query.heard THEN subs[s]
     ELSE IF state = "ERROR" THEN GotError(SyncState(subs[s], state))
     ELSE SyncState(subs[s], state)]

Returning(state) ==
  [f \in Fetches |-> IF state = "FULFILLED" /\ f \in query.heard /\ fetch[f].sync = "waiting"
                     THEN [fetch[f] EXCEPT !.sync = "ending"] ELSE fetch[f]]

-----------------------------------------------------------------------------
(* The query in the sync engine.                                           *)

BadMount(who) ==
  /\ query' = IF query = NoQuery
              THEN [state |-> "NOT_STARTED", sent |-> FALSE, count |-> 1, heard |-> {who}]
              ELSE [query EXCEPT !.count = @ + 1, !.heard = @ \union {who}]
  /\ due' = (due \/ query # NoQuery)

(* SyncEngine.subscribe: only who mounts the query connects it.            *)
Mount(who) ==
  /\ query' = IF query = NoQuery
              THEN [state |-> "NOT_STARTED", sent |-> FALSE, count |-> 1, heard |-> {who}]
              ELSE [query EXCEPT !.count = @ + 1, !.heard = @ \union {who}]
  /\ due' = (due \/ query = NoQuery)

Disconnected(q) ==
  /\ query' = NoQuery
  /\ requests' = IF q.sent /\ status = "OPEN" THEN Append(requests, "disconnect") ELSE requests

Unmount(who) ==
  LET left == [query EXCEPT !.count = @ - 1, !.heard = @ \ {who}]
  IN  IF query = NoQuery THEN UNCHANGED <<query, requests>>
      ELSE IF left.count = 0 THEN Disconnected(left)
      ELSE query' = left /\ UNCHANGED requests

ConnectQuery ==
  /\ due /\ due' = FALSE
  /\ IF query # NoQuery /\ ~query.sent /\ ready /\ status = "OPEN"
     THEN /\ requests' = Append(requests, "connect")
          /\ query' = [query EXCEPT !.state = "IN_FLIGHT", !.sent = TRUE]
          /\ sub' = Heard(sub, "IN_FLIGHT")
     ELSE UNCHANGED <<requests, query, sub>>
  /\ UNCHANGED <<link, replies, served, seen, local, views, handling, fetch, used>>

-----------------------------------------------------------------------------
(* The connection and the server.                                          *)

Open ==
  /\ status = "CONNECTING" /\ status' = "OPEN"
  /\ UNCHANGED <<ready, wire, query, due, seen, local, views, handling, sub, fetch, used>>

Ready ==
  /\ status = "OPEN" /\ ~ready /\ ready' = TRUE
  /\ due' = (due \/ query # NoQuery)
  /\ UNCHANGED <<status, wire, query, seen, local, views, handling, sub, fetch, used>>

(* onCloseHandler, for a loss: the sync state is reset, and CLOSED heard.  *)
Lose ==
  /\ status # "CLOSED" /\ used.losses + used.errors < MaxFaults
  /\ used' = [used EXCEPT !.losses = @ + 1]
  /\ status' = "CLOSED" /\ ready' = FALSE
  /\ requests' = <<>> /\ replies' = <<>> /\ served' = FALSE
  /\ query' = IF query = NoQuery THEN NoQuery
              ELSE [query EXCEPT !.sent = FALSE, !.state = "NOT_STARTED"]
  /\ sub' = [s \in Subs |-> IF sub[s].hears THEN RemoteOff(sub[s]) ELSE sub[s]]
  /\ UNCHANGED <<due, seen, local, views, handling, fetch>>

Reconnect ==
  /\ status = "CLOSED" /\ status' = "CONNECTING"
  /\ UNCHANGED <<ready, wire, query, due, seen, local, views, handling, sub, fetch, used>>

Serve ==
  /\ requests # <<>> /\ requests' = Tail(requests)
  /\ IF Head(requests) = "disconnect" THEN served' = FALSE /\ UNCHANGED <<replies, used>>
     ELSE \/ served' = TRUE /\ replies' = Append(replies, "data") /\ UNCHANGED used
          \/ /\ Fails /\ used.losses + used.errors < MaxFaults /\ used' = [used EXCEPT !.errors = @ + 1]
             /\ replies' = Append(replies, "error") /\ UNCHANGED served
  /\ UNCHANGED <<link, query, due, seen, local, views, handling, sub, fetch>>

-----------------------------------------------------------------------------
(* Views of the local database.                                            *)

BeginUpdate(c) ==
  /\ update[c] = "wait" /\ \A d \in Callers : update[d] # "run"
  /\ Overlap \/ handling # "mark"
  /\ update' = [update EXCEPT ![c] = "run"]
  /\ taken' = local
  /\ UNCHANGED <<link, wire, query, due, seen, local, view, changed, fresh, handling, sub, fetch, used>>

EndUpdate(c) ==
  /\ update[c] = "run" /\ update' = [update EXCEPT ![c] = "flush"]
  /\ IF fresh = {} /\ view = NoRows THEN UNCHANGED <<view, changed>>
     ELSE IF view = NoRows THEN view' = local /\ UNCHANGED changed
     ELSE view' = taken /\ changed' = (changed \/ taken # view)
  /\ UNCHANGED <<link, wire, query, due, seen, local, fresh, taken, handling, sub, fetch, used>>

(* broadcastToQuerySubscribers                                             *)
Listening == {s \in Subs : sub[s].pc \in {"update", "mount", "on"} /\ view # NoRows
                           /\ (changed \/ s \in fresh)}

Broadcast(subs) == [s \in Subs |-> IF s \in Listening THEN GotResults(subs[s], view) ELSE subs[s]]

Flushed(c) ==
  /\ update[c] = "flush" /\ update' = [update EXCEPT ![c] = "no"]
  /\ fresh' = IF view = NoRows THEN fresh ELSE {}
  /\ changed' = FALSE
  /\ UNCHANGED <<view, taken>>

FlushWrites ==
  /\ Flushed("writer") /\ sub' = Broadcast(sub)
  /\ UNCHANGED <<link, wire, query, due, seen, local, handling, fetch, used>>

Write ==
  /\ update["writer"] = "no" /\ used.writes < MaxWrites
  /\ used' = [used EXCEPT !.writes = @ + 1]
  /\ local' = [local EXCEPT !.writes = @ + 1]
  /\ update' = [update EXCEPT !["writer"] = "wait"]
  /\ UNCHANGED <<link, wire, query, due, seen, view, changed, fresh, taken, handling, sub, fetch>>

-----------------------------------------------------------------------------
(* What the server answers.  Its data is applied, then the query is marked *)
(* and FULFILLED, then the views are updated, and last its callbacks run.  *)

Calm ==
  Overlap \/ /\ \A c \in Callers : update[c] \notin {"run", "flush"}
             /\ \A f \in Fetches : fetch[f].pc # "decide"

BadHandleData ==
  /\ handling = "no" /\ replies # <<>> /\ Head(replies) = "data" /\ Calm
  /\ replies' = Tail(replies)
  /\ handling' = "mark"
  /\ UNCHANGED <<link, requests, served, query, due, seen, local, views, sub, fetch, used>>

HandleData ==
  /\ handling = "no" /\ replies # <<>> /\ Head(replies) = "data"
  /\ Calm
  /\ replies' = Tail(replies)
  /\ local' = [local EXCEPT !.answer = TRUE]
  /\ handling' = "mark"
  /\ UNCHANGED <<link, requests, served, query, due, seen, views, sub, fetch, used>>

Mark ==
  /\ handling = "mark" /\ handling' = "update" /\ Calm
  /\ IF query # NoQuery /\ query.state # "FULFILLED"
     THEN seen' = TRUE /\ query' = [query EXCEPT !.state = "FULFILLED"]
     ELSE UNCHANGED <<seen, query>>
  /\ update' = [update EXCEPT !["handler"] = "wait"]
  /\ UNCHANGED <<link, wire, due, local, view, changed, fresh, taken, sub, fetch, used>>

Fulfill ==
  /\ Flushed("handler")
  /\ handling' = "no"
  /\ sub' = Heard(Broadcast(sub), "FULFILLED")
  /\ fetch' = Returning("FULFILLED")
  /\ UNCHANGED <<link, wire, query, due, seen, local, used>>

(* QuerySyncError: subscribers hear of it, and the query is disconnected.  *)
HandleError ==
  /\ handling = "no" /\ replies # <<>> /\ Head(replies) = "error"
  /\ replies' = Tail(replies)
  /\ sub' = Heard(sub, "ERROR")
  /\ IF query = NoQuery THEN UNCHANGED <<query, requests>> ELSE Disconnected(query)
  /\ UNCHANGED <<link, served, due, seen, local, views, handling, fetch, used>>

-----------------------------------------------------------------------------
(* subscribeWithStatus.                                                    *)

ProbablyIntendsToConnect == status \in {"OPEN", "CONNECTING"}

New == [pc |-> "idle", results |-> NoRows, local |-> TRUE, remote |-> FALSE,
        waiting |-> FALSE, initial |-> TRUE, error |-> FALSE, hears |-> FALSE,
        reading |-> FALSE, leaving |-> FALSE, unsubscribed |-> FALSE,
        told |-> [results |-> NoRows, fetching |-> TRUE, fetchingRemote |-> FALSE, error |-> FALSE]]

Subscribe(s) ==
  /\ sub[s].pc = "idle"
  /\ LET r == Fired([New EXCEPT !.pc = "update", !.waiting = ProbablyIntendsToConnect,
                                !.hears = TRUE, !.reading = TRUE])
     IN  sub' = [sub EXCEPT ![s] = IF status = "CLOSED" THEN RemoteOff(r) ELSE r]
  /\ fresh' = fresh \union {s}
  /\ update' = [update EXCEPT ![s] = "wait"]
  /\ UNCHANGED <<link, wire, query, due, seen, local, view, changed, taken, handling, fetch, used>>

(* isFirstTimeFetchingQuery                                                *)
FirstTime(s) ==
  /\ sub[s].reading
  /\ LET r == [sub[s] EXCEPT !.reading = FALSE, !.initial = ~seen]
     IN  sub' = [sub EXCEPT ![s] = IF Fetching(r) = Fetching(sub[s]) THEN r ELSE Fired(r)]
  /\ UNCHANGED <<link, wire, query, due, seen, local, views, handling, fetch, used>>

(* The rest of subscribe, once the views are up to date.                   *)
MountSub(s) ==
  /\ Flushed(s)
  /\ sub' = [Broadcast(sub) EXCEPT ![s].pc = "on"]
  /\ Mount(s)
  /\ UNCHANGED <<link, wire, seen, local, handling, fetch, used>>

Unsubscribe(s) ==
  /\ Leaves /\ sub[s].pc # "idle" /\ ~sub[s].leaving
  /\ sub' = [sub EXCEPT ![s].leaving = TRUE, ![s].hears = FALSE]
  /\ UNCHANGED <<link, wire, query, due, seen, local, views, handling, fetch, used>>

(* The promise of subscribe is there: its unsubscribe is called.  With the *)
(* last listener the results of the live query go.                         *)
Leave(s) ==
  /\ sub[s].leaving /\ sub[s].pc = "on"
  /\ sub' = [sub EXCEPT ![s].pc = "left", ![s].unsubscribed = TRUE]
  /\ fresh' = fresh \ {s}
  /\ IF \A o \in Subs \ {s} : sub[o].pc \notin {"update", "on"}
     THEN view' = NoRows /\ changed' = FALSE ELSE UNCHANGED <<view, changed>>
  /\ UNCHANGED <<link, wire, query, due, seen, local, update, taken, handling, fetch, used>>

LeaveRemote(s) ==
  /\ sub[s].pc = "left" /\ ~due
  /\ sub' = [sub EXCEPT ![s] = [New EXCEPT !.pc = "gone", !.leaving = TRUE]]
  /\ Unmount(s)
  /\ UNCHANGED <<link, replies, served, due, seen, local, views, handling, fetch, used>>

-----------------------------------------------------------------------------
(* fetch.                                                                  *)

NewFetch == [pc |-> "idle", policy |-> "none", first |-> FALSE, sync |-> "no", result |-> NoRows]

Fetch(f, policy) ==
  /\ fetch[f].pc = "idle"
  /\ fetch' = [fetch EXCEPT ![f].policy = policy,
                            ![f].pc = IF policy = "local-first" THEN "first" ELSE "decide"]
  /\ UNCHANGED <<link, wire, query, due, seen, local, views, handling, sub, used>>

ReadFirst(f) ==
  /\ fetch[f].pc = "first"
  /\ fetch' = [fetch EXCEPT ![f].first = ~seen, ![f].pc = "decide"]
  /\ UNCHANGED <<link, wire, query, due, seen, local, views, handling, sub, used>>

AsksServer(f) ==
  CASE fetch[f].policy = "local-first" -> fetch[f].first /\ ProbablyIntendsToConnect
    [] fetch[f].policy = "remote-first" -> ProbablyIntendsToConnect
    [] fetch[f].policy = "local-and-remote" -> TRUE

(* syncQuery.  When the query is FULFILLED already, its callback is called *)
(* at once; it reads unsubPromise before that is initialised, and throws   *)
(* in a promise that nobody waits for.                                     *)
Decide(f) ==
  /\ fetch[f].pc = "decide"
  /\ IF AsksServer(f)
     THEN Mount(f) /\ fetch' = [fetch EXCEPT ![f].pc = "sync", ![f].sync = "waiting"]
     ELSE fetch' = [fetch EXCEPT ![f].pc = "read"] /\ UNCHANGED <<query, due>>
  /\ UNCHANGED <<link, wire, seen, local, views, handling, sub, used>>

(* onQueryFulfilled, from its await on.                                    *)
Synced(f) ==
  /\ fetch[f].sync = "ending" /\ ~due
  /\ fetch' = [fetch EXCEPT ![f].sync = "over", ![f].pc = IF @ = "sync" THEN "read" ELSE @]
  /\ Unmount(f)
  /\ UNCHANGED <<link, replies, served, due, seen, local, views, handling, sub, used>>

(* local-and-remote: the timeout wins the race.                            *)
Timeout(f) ==
  /\ fetch[f].pc = "sync" /\ fetch[f].policy = "local-and-remote"
  /\ fetch' = [fetch EXCEPT ![f].pc = "read"]
  /\ UNCHANGED <<link, wire, query, due, seen, local, views, handling, sub, used>>

ReadLocal(f) ==
  /\ fetch[f].pc = "read"
  /\ fetch' = [fetch EXCEPT ![f].pc = "done", ![f].result = local]
  /\ UNCHANGED <<link, wire, query, due, seen, local, views, handling, sub, used>>

-----------------------------------------------------------------------------

Init ==
  /\ status = "CONNECTING" /\ ready = FALSE
  /\ requests = <<>> /\ replies = <<>> /\ served = FALSE
  /\ query = NoQuery /\ due = FALSE /\ seen = FALSE
  /\ local = Rows(FALSE, 0)
  /\ view = NoRows /\ changed = FALSE /\ fresh = {} /\ taken = NoRows
  /\ update = [c \in Callers |-> "no"] /\ handling = "no"
  /\ sub = [s \in Subs |-> New] /\ fetch = [f \in Fetches |-> NewFetch]
  /\ used = [writes |-> 0, losses |-> 0, errors |-> 0]

Connecting == ConnectQuery \/ Open \/ Ready \/ Reconnect \/ Serve
Updating == FlushWrites \/ \E c \in Callers : BeginUpdate(c) \/ EndUpdate(c)
Handling == HandleData \/ Mark \/ Fulfill \/ HandleError
Subscribing(s) == FirstTime(s) \/ MountSub(s) \/ Leave(s) \/ LeaveRemote(s)
GoOn(f) == ReadFirst(f) \/ Decide(f) \/ Synced(f) \/ Timeout(f) \/ ReadLocal(f)

Next ==
  \/ Connecting \/ Lose \/ Updating \/ Handling \/ Write
  \/ \E s \in Subs : Subscribe(s) \/ Subscribing(s) \/ Unsubscribe(s)
  \/ \E f \in Fetches : GoOn(f) \/ \E policy \in Policies : Fetch(f, policy)

(* What was begun goes on: the microtasks of the client, its reconnect     *)
(* timer, and a server that answers.                                       *)
Fairness ==
  /\ WF_vars(ConnectQuery) /\ WF_vars(Open) /\ WF_vars(Ready) /\ WF_vars(Reconnect) /\ WF_vars(Serve)
  /\ WF_vars(Updating) /\ WF_vars(Handling)
  /\ \A s \in Subs : WF_vars(Subscribing(s))
  /\ \A f \in Fetches : WF_vars(GoOn(f))

Spec == Init /\ [][Next]_vars /\ Fairness

-----------------------------------------------------------------------------

RowsType == [is : {"rows", "none"}, answer : BOOLEAN, writes : Nat]

ToldType ==
  [results: RowsType, fetching: BOOLEAN, fetchingRemote: BOOLEAN, error: BOOLEAN]

SubType ==
  [pc: {"idle", "update", "on", "left", "gone"}, results: RowsType, local: BOOLEAN,
   remote: BOOLEAN, waiting: BOOLEAN, initial: BOOLEAN, error: BOOLEAN, hears: BOOLEAN,
   reading: BOOLEAN, leaving: BOOLEAN, unsubscribed: BOOLEAN,
   told: ToldType]

FetchType ==
  [pc: {"idle", "first", "decide", "sync", "read", "done"}, policy: Policies \union {"none"},
   first: BOOLEAN, sync: {"no", "waiting", "ending", "over"}, result: RowsType]

(* The types of the variables.  The count of a query is not the number of  *)
(* those who hear of it: who leaves after a QuerySyncError is taken from   *)
(* the count of those who have put the query there since.                  *)
TypeOK ==
  /\ status \in {"CLOSED", "CONNECTING", "OPEN"} /\ ready \in BOOLEAN
  /\ requests \in Seq({"connect", "disconnect"}) /\ replies \in Seq({"data", "error"})
  /\ query \in [state : {"none", "NOT_STARTED", "IN_FLIGHT", "FULFILLED"}, sent : BOOLEAN,
               count : Nat, heard : SUBSET (Subs \union Fetches)]
  /\ query # NoQuery => query.count > 0
  /\ served \in BOOLEAN /\ due \in BOOLEAN /\ seen \in BOOLEAN /\ changed \in BOOLEAN
  /\ local \in RowsType /\ view \in RowsType /\ taken \in RowsType /\ fresh \in SUBSET Subs
  /\ update \in [Callers -> {"no", "wait", "run", "flush"}]
  /\ handling \in {"no", "mark", "update"}
  /\ sub \in [Subs -> SubType] /\ fetch \in [Fetches -> FetchType]
  /\ used \in [writes : Nat, losses : Nat, errors : Nat]

(* A fetch that asked the server and was not cut off by its timeout reads  *)
(* what the server answered (fetch.mdx on local-first and remote-first).   *)
FetchComplete ==
  \A f \in Fetches :
    fetch[f].pc = "done" /\ fetch[f].sync = "over" /\ fetch[f].policy # "local-and-remote"
      => fetch[f].result.answer

(* Results that are shown as loaded hold the answer of the server, when    *)
(* the client had not seen the query before, the connection is not lost    *)
(* and the server does not fail (the documentation of fetching).           *)
LoadedHonest ==
  \A s \in Subs :
    sub[s].pc # "idle" /\ ~sub[s].leaving /\ sub[s].initial /\ used.losses + used.errors = 0
      => sub[s].told.fetching \/ sub[s].told.results.answer

(* Every fetch returns while the server does not fail, though the          *)
(* connection may be lost.                                                 *)
FetchReturns ==
  \A f \in Fetches : (fetch[f].pc # "idle") ~> (fetch[f].pc = "done" \/ used.errors > 0)

(* Every fetch returns (fetch.mdx 36: when the server fails to fulfill the *)
(* query, the cached data is used).                                        *)
FetchFallsBack == \A f \in Fetches : (fetch[f].pc # "idle") ~> (fetch[f].pc = "done")

(* The loading state that a subscriber sees comes to an end.               *)
LoadingEnds ==
  \A s \in Subs : (sub[s].pc # "idle") ~> (sub[s].leaving \/ ~sub[s].told.fetching)
=============================================================================
