----------------------------- MODULE ReadsProofs -----------------------------
(***************************************************************************)
(* Theorems about what an application reads.                               *)
(*                                                                         *)
(* Reads, for every set of subscribers, fetches and policies and every     *)
(* bound: types; that a fetch which waited for the server reads its        *)
(* answer; and that results which are shown as loaded have it, while no    *)
(* answer is stored during an update of the views.                         *)
(*                                                                         *)
(* Pages, for every set of ids and keys, every page size and every bound,  *)
(* when moves wait for the page and no row from the cursor on is deleted   *)
(* or changes its key: types; that a page is part of the rows, with the    *)
(* flags for those before and behind it; and that turning pages neither    *)
(* skips a row nor shows it twice.                                         *)
(***************************************************************************)
EXTENDS Reads, Pages, FiniteSetTheorems, TLAPS

-----------------------------------------------------------------------------
(* The invariant.                                                          *)

(* A query is marked as answered, and a fetch hears of it, when the answer *)
(* is in the database, where it stays.                                     *)
Answered == query.state = "FULFILLED" \/ handling # "no" => local.answer

(* How far a fetch is, and what it has read.                               *)
FetchPart ==
  \A f \in Fetches :
    /\ fetch[f].pc \in {"idle", "first", "decide"} => fetch[f].sync = "no"
    /\ fetch[f].sync \in {"ending", "over"} => local.answer
    /\ fetch[f].policy # "local-and-remote" =>
         /\ fetch[f].sync \in {"waiting", "ending"} => fetch[f].pc = "sync"
         /\ fetch[f].pc = "done" /\ fetch[f].sync = "over" => fetch[f].result.answer

(* Who updates the views: the handler once its data are marked, and a      *)
(* subscriber while it mounts.                                             *)
BegunPart ==
  /\ update["handler"] # "no" => handling = "update"
  /\ \A s \in Subs : update[s] # "no" => sub[s].pc = "update"

FInv == TypeOK /\ Answered /\ BegunPart /\ FetchPart

(* What a subscriber was told last is what its variables hold.             *)
Says(r) == r.told.fetching = Fetching(r) /\ r.told.results = r.results

Active(s) == sub[s].pc \in {"update", "on"}

SubPart ==
  \A s \in Subs : /\ Says(sub[s])
                  /\ sub[s].unsubscribed => sub[s].pc = "left"
                  /\ sub[s].pc \in {"left", "gone"} => sub[s].leaving

(* Nothing has gone wrong yet.                                             *)
Quiet == used.losses = 0 /\ used.errors = 0
QuietPart ==
  /\ used.losses = 0 => status # "CLOSED"
  /\ used.errors = 0 => \A k \in DOMAIN replies : replies[k] # "error"

(* An update of the views that runs while the answer is there has taken    *)
(* it: no answer is stored while one runs.                                 *)
ViewPart ==
  /\ local # NoRows
  /\ \A c \in Callers :
       /\ update[c] = "run" => taken # NoRows /\ (local.answer => taken.answer)
       /\ update[c] = "flush" /\ local.answer => view = NoRows \/ view.answer

(* A subscriber that is not new has been given the view, and the one there *)
(* is now but for a change that is not flushed.                            *)
GivenPart ==
  \A s \in Subs : Active(s) /\ s \notin fresh =>
    /\ view # NoRows /\ ~sub[s].local
    /\ ~changed => sub[s].results = view

(* A subscriber waits until the answer is there, and then until it has it. *)
WaitPart ==
  Quiet => \A s \in Subs : Active(s) =>
    /\ s \in fresh => sub[s].local
    /\ sub[s].waiting \/ local.answer
    /\ sub[s].waiting \/ sub[s].local \/ sub[s].results.answer

LInv == FInv /\ SubPart /\ QuietPart /\ ViewPart /\ GivenPart /\ WaitPart
-----------------------------------------------------------------------------
(* What the calls of a subscriber's callbacks do to its variables.         *)

(* They leave alone where it is, and tell it what its variables hold.      *)
Alike(r, t) ==
  /\ t \in SubType /\ t.pc = r.pc /\ t.unsubscribed = r.unsubscribed
  /\ r.leaving => t.leaving
  /\ Says(r) => Says(t)

(* A call with the variables as they are,                                  *)
LEMMA FiredFacts ==
  ASSUME NEW r \in SubType
  PROVE  /\ Alike(r, Fired(r)) /\ Says(Fired(r))
         /\ Fired(r).results = r.results /\ Fired(r).local = r.local
         /\ Fired(r).waiting = r.waiting
<1> DEFINE u == [results |-> r.results, fetching |-> Fetching(r), fetchingRemote |-> r.remote,
                 error |-> r.error]
<1>1. Fetching(r) \in BOOLEAN /\ u \in ToldType
  BY DEF SubType, ToldType, Fetching
<1>2. u.results = r.results /\ u.fetching = Fetching(r)
  OBVIOUS
<1> HIDE DEF u
<1>3. Fired(r) = [r EXCEPT !.told = u]
  BY DEF Fired, u
<1>4. /\ Fired(r) \in SubType /\ Fired(r).told = u
      /\ Fired(r).pc = r.pc /\ Fired(r).unsubscribed = r.unsubscribed
      /\ Fired(r).leaving = r.leaving /\ Fired(r).results = r.results
      /\ Fired(r).local = r.local /\ Fired(r).waiting = r.waiting /\ Fired(r).initial = r.initial
  BY <1>1, <1>3 DEF SubType
<1> QED BY <1>2, <1>4 DEF Alike, Says, Fetching

(* one that says that the server is not asked,                             *)
LEMMA RemoteOffFacts ==
  ASSUME NEW r \in SubType
  PROVE  /\ Alike(r, RemoteOff(r))
         /\ RemoteOff(r).results = r.results /\ RemoteOff(r).local = r.local
         /\ RemoteOff(r).waiting = FALSE
<1> DEFINE t == [r EXCEPT !.remote = FALSE, !.waiting = FALSE]
<1>1. /\ t \in SubType /\ t.pc = r.pc /\ t.unsubscribed = r.unsubscribed /\ t.leaving = r.leaving
      /\ t.results = r.results /\ t.local = r.local /\ t.waiting = FALSE
  BY DEF SubType
<1> HIDE DEF t
<1>2. CASE r.remote \/ r.waiting
  <2>1. RemoteOff(r) = Fired(t)
    BY <1>2 DEF RemoteOff, t
  <2> QED BY <1>1, <2>1, FiredFacts DEF Alike
<1>3. CASE ~(r.remote \/ r.waiting)
  BY <1>3 DEF RemoteOff, Alike, SubType
<1> QED BY <1>2, <1>3

(* one that says that it is,                                               *)
LEMMA InFlightFacts ==
  ASSUME NEW r \in SubType
  PROVE  LET t == SyncState(r, "IN_FLIGHT")
         IN  /\ Alike(r, t) /\ t.results = r.results /\ t.local = r.local
             /\ t.waiting = r.waiting
<1> DEFINE u == [r EXCEPT !.remote = TRUE]
<1>1. /\ u \in SubType /\ u.pc = r.pc /\ u.unsubscribed = r.unsubscribed /\ u.leaving = r.leaving
      /\ u.results = r.results /\ u.local = r.local /\ u.waiting = r.waiting
  BY DEF SubType
<1> HIDE DEF u
<1>2. CASE r.remote
  BY <1>2 DEF SyncState, Alike
<1>3. CASE ~r.remote
  <2>1. SyncState(r, "IN_FLIGHT") = Fired(u)
    BY <1>3 DEF SyncState, u
  <2> QED BY <1>1, <2>1, FiredFacts DEF Alike
<1> QED BY <1>2, <1>3

(* one with an error,                                                      *)
LEMMA ErrorFacts ==
  ASSUME NEW r \in SubType
  PROVE  /\ Alike(r, GotError(r))
         /\ GotError(r).results = r.results /\ (GotError(r).local => r.local)
         /\ GotError(r).waiting = r.waiting
<1> DEFINE u == [r EXCEPT !.error = TRUE, !.local = FALSE]
<1>1. /\ u \in SubType /\ u.pc = r.pc /\ u.unsubscribed = r.unsubscribed /\ u.leaving = r.leaving
      /\ u.results = r.results /\ u.local = FALSE /\ u.waiting = r.waiting
  BY DEF SubType
<1> HIDE DEF u
<1>2. CASE r.unsubscribed
  BY <1>2 DEF GotError, Alike
<1>3. CASE ~r.unsubscribed
  <2>1. GotError(r) = Fired(u)
    BY <1>3 DEF GotError, u
  <2> QED BY <1>1, <2>1, FiredFacts DEF Alike
<1> QED BY <1>2, <1>3

(* and one with results.                                                   *)
LEMMA ResultsFacts ==
  ASSUME NEW r \in SubType, NEW got \in RowsType
  PROVE  LET t == GotResults(r, got)
         IN  /\ Alike(r, t)
             /\ ~r.unsubscribed =>
                  /\ t.results = got /\ t.local = FALSE
                  /\ t.waiting = IF r.remote THEN query.state # "FULFILLED" ELSE r.waiting
<1> DEFINE w == IF r.remote THEN query.state # "FULFILLED" ELSE r.waiting
           m == r.remote /\ query.state # "FULFILLED"
           u == [r EXCEPT !.results = got, !.local = FALSE, !.error = FALSE,
                          !.remote = m, !.waiting = w]
<1>1. w \in BOOLEAN /\ m \in BOOLEAN
  BY DEF SubType
<1>2. /\ u \in SubType /\ u.pc = r.pc /\ u.unsubscribed = r.unsubscribed /\ u.leaving = r.leaving
      /\ u.results = got /\ u.local = FALSE /\ u.waiting = w
  <2> HIDE DEF w, m
  <2> QED BY <1>1 DEF SubType
<1>3. ~r.unsubscribed => GotResults(r, got) = Fired(u)
  BY DEF GotResults
<1> HIDE DEF u
<1>4. CASE r.unsubscribed
  <2>1. GotResults(r, got) = r
    BY <1>4 DEF GotResults
  <2> QED BY <1>4, <2>1 DEF Alike
<1>5. CASE ~r.unsubscribed
  <2> HIDE DEF w
  <2>1. Fired(u).results = got /\ Fired(u).local = FALSE /\ Fired(u).waiting = w
    BY <1>2, FiredFacts
  <2>2. Alike(r, Fired(u))
    BY <1>2, FiredFacts DEF Alike
  <2> QED BY <1>3, <1>5, <2>1, <2>2 DEF w
<1> QED BY <1>4, <1>5

(* Of a change of the sync state: what is FULFILLED or wrong is not waited *)
(* for any more.                                                           *)
LEMMA HeardFacts ==
  ASSUME NEW subs \in [Subs -> SubType], NEW s \in Subs, NEW state,
         state \in {"IN_FLIGHT", "FULFILLED", "ERROR"}
  PROVE  LET t == Heard(subs, state)[s]
         IN  /\ Alike(subs[s], t) /\ t.results = subs[s].results
             /\ t.local => subs[s].local
             /\ state # "ERROR" => t.local = subs[s].local
             /\ state = "IN_FLIGHT" => t.waiting = subs[s].waiting
             /\ t.waiting = subs[s].waiting \/ t.waiting = FALSE
<1> DEFINE r == subs[s]
           t == Heard(subs, state)[s]
<1>0. r \in SubType
  OBVIOUS
<1>1. CASE s \notin query.heard
  <2>1. t = r
    BY <1>1 DEF Heard
  <2> QED BY <1>0, <2>1 DEF Alike
<1>2. CASE s \in query.heard /\ state = "IN_FLIGHT"
  <2>1. t = SyncState(r, "IN_FLIGHT")
    BY <1>2 DEF Heard
  <2> QED BY <1>0, <1>2, <2>1, InFlightFacts
<1>3. CASE s \in query.heard /\ state = "FULFILLED"
  <2>1. t = RemoteOff(r)
    BY <1>3 DEF Heard, SyncState
  <2> QED BY <1>0, <1>3, <2>1, RemoteOffFacts
<1>4. CASE s \in query.heard /\ state = "ERROR"
  <2>1. t = GotError(RemoteOff(r))
    BY <1>4 DEF Heard, SyncState
  <2>2. PICK u : u = RemoteOff(r)
    OBVIOUS
  <2>3. /\ Alike(r, u) /\ u.results = r.results /\ u.local = r.local /\ u.waiting = FALSE
        /\ u \in SubType
    BY <1>0, <2>2, RemoteOffFacts DEF Alike
  <2>4. Alike(u, t) /\ t.results = u.results /\ (t.local => u.local) /\ t.waiting = FALSE
    <3>1. t = GotError(u)
      BY <2>1, <2>2
    <3> HIDE DEF t
    <3> QED BY <2>3, <3>1, ErrorFacts
  <2>5. /\ Alike(r, t) /\ t.results = r.results /\ (t.local => r.local) /\ t.waiting = FALSE
    <3> HIDE DEF r, t
    <3> QED BY <2>3, <2>4 DEF Alike
  <2> QED BY <1>4, <2>5
<1> QED BY <1>1, <1>2, <1>3, <1>4

(* Whoever listens is called with the view.                                *)
LEMMA BroadcastFacts ==
  ASSUME TypeOK, NEW s \in Subs
  PROVE  LET t == Broadcast(sub)[s]
         IN  /\ Broadcast(sub) \in [Subs -> SubType] /\ Alike(sub[s], t)
             /\ s \notin Listening => t = sub[s]
             /\ s \in Listening /\ ~sub[s].unsubscribed =>
                  /\ t.results = view /\ t.local = FALSE
                  /\ t.waiting = IF sub[s].remote THEN query.state # "FULFILLED"
                                 ELSE sub[s].waiting
<1>1. sub \in [Subs -> SubType] /\ view \in RowsType
  BY DEF TypeOK
<1>2. ASSUME NEW o \in Subs PROVE Broadcast(sub)[o] \in SubType
  BY <1>1, ResultsFacts DEF Broadcast, Alike
<1>3. Broadcast(sub) \in [Subs -> SubType]
  BY <1>2 DEF Broadcast
<1>4. CASE s \notin Listening
  <2>1. Broadcast(sub)[s] = sub[s]
    BY <1>4 DEF Broadcast
  <2> QED BY <1>1, <1>3, <1>4, <2>1 DEF Alike
<1>5. CASE s \in Listening
  <2>1. Broadcast(sub)[s] = GotResults(sub[s], view)
    BY <1>5 DEF Broadcast
  <2>2. sub[s] \in SubType /\ view \in RowsType
    BY <1>1
  <2>3. LET t == GotResults(sub[s], view)
        IN  /\ Alike(sub[s], t)
            /\ ~sub[s].unsubscribed =>
                 /\ t.results = view /\ t.local = FALSE
                 /\ t.waiting = IF sub[s].remote THEN query.state # "FULFILLED"
                                ELSE sub[s].waiting
    BY <2>2, ResultsFacts
  <2> QED BY <1>3, <1>5, <2>1, <2>3
<1> QED BY <1>4, <1>5

-----------------------------------------------------------------------------
(* Types.                                                                  *)

LEMMA RowsTyped == NoRows \in RowsType /\ \A a \in BOOLEAN, n \in Nat : Rows(a, n) \in RowsType
BY DEF NoRows, Rows, RowsType

LEMMA NewTyped == New \in SubType /\ Says(New) /\ NewFetch \in FetchType
BY RowsTyped DEF New, SubType, ToldType, Says, Fetching, NewFetch, FetchType

LEMMA HeardTyped ==
  ASSUME NEW subs \in [Subs -> SubType], NEW state \in {"IN_FLIGHT", "FULFILLED", "ERROR"}
  PROVE  Heard(subs, state) \in [Subs -> SubType]
<1>1. \A s \in Subs : Heard(subs, state)[s] \in SubType
  BY HeardFacts DEF Alike
<1> QED BY <1>1 DEF Heard

(* The query in the sync engine.                                           *)
QueryOK ==
  /\ query \in [state : {"none", "NOT_STARTED", "IN_FLIGHT", "FULFILLED"}, sent : BOOLEAN,
                count : Nat, heard : SUBSET (Subs \union Fetches)]
  /\ query # NoQuery => query.count > 0

LEMMA MountTyped ==
  ASSUME QueryOK, due \in BOOLEAN, NEW who \in Subs \union Fetches, Mount(who)
  PROVE  QueryOK' /\ due' \in BOOLEAN /\ (query'.state = "FULFILLED" => query.state = "FULFILLED")
<1>1. due' \in BOOLEAN
  BY DEF Mount
<1>2. CASE query = NoQuery
  <2>1. query' = [state |-> "NOT_STARTED", sent |-> FALSE, count |-> 1, heard |-> {who}]
    BY <1>2 DEF Mount
  <2> QED BY <1>1, <2>1 DEF QueryOK
<1>3. CASE query # NoQuery
  <2>1. query' = [query EXCEPT !.count = query.count + 1, !.heard = query.heard \union {who}]
    BY <1>3 DEF Mount
  <2>2. query.count + 1 \in Nat /\ query.count + 1 > 0
        /\ query.heard \union {who} \in SUBSET (Subs \union Fetches)
    BY DEF QueryOK
  <2>3. /\ query'.count = query.count + 1 /\ query'.heard = query.heard \union {who}
        /\ query'.state = query.state /\ query'.sent = query.sent
        /\ query' = [state |-> query'.state, sent |-> query'.sent, count |-> query'.count,
                     heard |-> query'.heard]
    BY <2>1 DEF QueryOK
  <2> QED BY <1>1, <2>2, <2>3 DEF QueryOK
<1> QED BY <1>2, <1>3

LEMMA NoQueryTyped ==
  NoQuery \in [state : {"none", "NOT_STARTED", "IN_FLIGHT", "FULFILLED"}, sent : BOOLEAN,
               count : Nat, heard : SUBSET (Subs \union Fetches)]
  /\ NoQuery.state = "none"
BY DEF NoQuery

LEMMA DisconnectTyped ==
  ASSUME NEW q, requests \in Seq({"connect", "disconnect"}), Disconnected(q)
  PROVE  QueryOK' /\ requests' \in Seq({"connect", "disconnect"}) /\ query'.state = "none"
<1>1. query' = NoQuery
  BY DEF Disconnected
<1>2. requests' \in Seq({"connect", "disconnect"})
  BY DEF Disconnected
<1> QED BY <1>1, <1>2, NoQueryTyped DEF QueryOK

LEMMA UnmountTyped ==
  ASSUME QueryOK, requests \in Seq({"connect", "disconnect"}), NEW who, Unmount(who)
  PROVE  /\ QueryOK' /\ requests' \in Seq({"connect", "disconnect"})
         /\ query'.state = "FULFILLED" => query.state = "FULFILLED"
<1> DEFINE left == [query EXCEPT !.count = query.count - 1, !.heard = query.heard \ {who}]
<1>1. CASE query = NoQuery
  BY <1>1 DEF Unmount, QueryOK
<1>2. CASE query # NoQuery /\ left.count = 0
  <2>1. Disconnected(left)
    BY <1>2 DEF Unmount
  <2> QED BY <2>1, DisconnectTyped
<1>3. CASE query # NoQuery /\ left.count # 0
  <2>1. query' = left /\ requests' = requests
    BY <1>3 DEF Unmount
  <2>2. left.count \in Nat /\ left.count > 0
    BY <1>3 DEF QueryOK
  <2> QED BY <2>1, <2>2 DEF QueryOK
<1> QED BY <1>1, <1>2, <1>3

(* A subscription that begins: its variables, and what it says.            *)
LEMMA SubscribeFacts ==
  ASSUME sub \in [Subs -> SubType], NEW s \in Subs, Subscribe(s)
  PROVE  /\ sub' \in [Subs -> SubType]
         /\ \A o \in Subs \ {s} : sub'[o] = sub[o]
         /\ sub'[s].pc = "update" /\ Says(sub'[s]) /\ sub'[s].local /\ ~sub'[s].unsubscribed
         /\ status \in {"OPEN", "CONNECTING"} => sub'[s].waiting
<1> DEFINE n == [New EXCEPT !.pc = "update", !.waiting = ProbablyIntendsToConnect,
                            !.hears = TRUE, !.reading = TRUE]
<1>1. /\ n \in SubType /\ n.pc = "update" /\ n.local /\ ~n.unsubscribed
      /\ n.waiting = ProbablyIntendsToConnect
  <2>1. ProbablyIntendsToConnect \in BOOLEAN
    BY DEF ProbablyIntendsToConnect
  <2>2. New.local /\ ~New.unsubscribed
    BY DEF New
  <2> QED BY <2>1, <2>2, NewTyped DEF SubType
<1> HIDE DEF n
<1>2. PICK r : r = Fired(n)
  OBVIOUS
<1>3. /\ r \in SubType /\ r.pc = "update" /\ Says(r) /\ r.local /\ ~r.unsubscribed
      /\ r.waiting = ProbablyIntendsToConnect
  BY <1>1, <1>2, FiredFacts DEF Alike
<1>4. PICK t : t = IF status = "CLOSED" THEN RemoteOff(r) ELSE r
  OBVIOUS
<1>5. /\ t \in SubType /\ t.pc = "update" /\ Says(t) /\ t.local /\ ~t.unsubscribed
      /\ status \in {"OPEN", "CONNECTING"} => t.waiting
  <2>1. CASE status = "CLOSED"
    BY <1>3, <1>4, <2>1, RemoteOffFacts DEF Alike
  <2>2. CASE status # "CLOSED"
    BY <1>3, <1>4, <2>2 DEF ProbablyIntendsToConnect
  <2> QED BY <2>1, <2>2
<1>6. sub' = [sub EXCEPT ![s] = t]
  BY <1>2, <1>4 DEF Subscribe, n
<1> QED BY <1>5, <1>6

(* The answer whether the query is fetched for the first time.             *)
LEMMA FirstTimeFacts ==
  ASSUME sub \in [Subs -> SubType], seen \in BOOLEAN, NEW s \in Subs, FirstTime(s)
  PROVE  /\ sub' \in [Subs -> SubType]
         /\ \A o \in Subs : /\ Alike(sub[o], sub'[o]) /\ sub'[o].results = sub[o].results
                            /\ sub'[o].local = sub[o].local
                            /\ sub'[o].waiting = sub[o].waiting
<1> DEFINE n == [sub[s] EXCEPT !.reading = FALSE, !.initial = ~seen]
<1>1. /\ n \in SubType /\ n.pc = sub[s].pc /\ n.unsubscribed = sub[s].unsubscribed
      /\ n.leaving = sub[s].leaving /\ n.results = sub[s].results /\ n.local = sub[s].local
      /\ n.waiting = sub[s].waiting /\ n.told = sub[s].told
  <2>1. sub[s] \in SubType
    OBVIOUS
  <2> QED BY <2>1 DEF SubType
<1>2. PICK r : r = n
  OBVIOUS
<1>3. PICK t : t = IF Fetching(r) = Fetching(sub[s]) THEN r ELSE Fired(r)
  OBVIOUS
<1>4. sub' = [sub EXCEPT ![s] = t]
  BY <1>2, <1>3 DEF FirstTime
<1> HIDE DEF n
<1>5. /\ Alike(sub[s], t) /\ t.results = sub[s].results /\ t.local = sub[s].local
      /\ t.waiting = sub[s].waiting
  <2>1. CASE Fetching(r) = Fetching(sub[s])
    BY <1>1, <1>2, <1>3, <2>1 DEF Alike, Says
  <2>2. CASE Fetching(r) # Fetching(sub[s])
    <3>1. Alike(r, Fired(r)) /\ Says(Fired(r))
      BY <1>1, <1>2, FiredFacts
    <3>2. /\ Fired(r).results = r.results /\ Fired(r).local = r.local
          /\ Fired(r).waiting = r.waiting
      BY <1>1, <1>2, FiredFacts
    <3> QED BY <1>1, <1>2, <1>3, <2>2, <3>1, <3>2 DEF Alike
  <2> QED BY <2>1, <2>2
<1>6. \A o \in Subs \ {s} : sub'[o] = sub[o]
  BY <1>4
<1>7. \A o \in Subs : Alike(sub[o], sub[o])
  BY DEF Alike
<1> QED BY <1>4, <1>5, <1>6, <1>7 DEF Alike

LEMMA TypeInit == Init => TypeOK
<1> SUFFICES ASSUME Init PROVE TypeOK
  OBVIOUS
<1>1. QueryOK
  BY NoQueryTyped DEF Init, QueryOK
<1>2. local \in RowsType /\ view \in RowsType /\ taken \in RowsType
  BY RowsTyped DEF Init
<1>3. sub \in [Subs -> SubType] /\ fetch \in [Fetches -> FetchType]
  BY NewTyped DEF Init
<1>4. /\ status \in {"CLOSED", "CONNECTING", "OPEN"} /\ ready \in BOOLEAN /\ served \in BOOLEAN
      /\ due \in BOOLEAN /\ seen \in BOOLEAN /\ changed \in BOOLEAN /\ fresh \in SUBSET Subs
  BY DEF Init
<1>5. requests \in Seq({"connect", "disconnect"}) /\ replies \in Seq({"data", "error"})
  <2>1. <<>> \in Seq({"connect", "disconnect"}) /\ <<>> \in Seq({"data", "error"})
    OBVIOUS
  <2> QED BY <2>1 DEF Init
<1>6. /\ update \in [Callers -> {"no", "wait", "run", "flush"}]
      /\ handling \in {"no", "mark", "update"}
      /\ used \in [writes : Nat, losses : Nat, errors : Nat]
  BY DEF Init
<1> QED BY <1>1, <1>2, <1>3, <1>4, <1>5, <1>6 DEF TypeOK, QueryOK

LEMMA TypeStep == TypeOK /\ [Next]_vars => TypeOK'
<1> SUFFICES ASSUME TypeOK, [Next]_vars PROVE TypeOK'
  OBVIOUS
<1> USE DEF link, wire, views
<1>0. /\ QueryOK /\ due \in BOOLEAN /\ requests \in Seq({"connect", "disconnect"})
      /\ sub \in [Subs -> SubType] /\ fetch \in [Fetches -> FetchType]
      /\ Broadcast(sub) \in [Subs -> SubType]
      /\ update \in [Callers -> {"no", "wait", "run", "flush"}] /\ seen \in BOOLEAN
      /\ local \in RowsType /\ served \in BOOLEAN /\ replies \in Seq({"data", "error"})
      /\ used \in [writes : Nat, losses : Nat, errors : Nat]
  <2>1. Broadcast(sub) \in [Subs -> SubType]
    <3>1. \A s \in Subs : Broadcast(sub)[s] \in SubType
      BY BroadcastFacts DEF Alike
    <3> QED BY <3>1 DEF Broadcast
  <2> QED BY <2>1 DEF TypeOK, QueryOK
<1>1. CASE ConnectQuery
  <2>1. CASE query # NoQuery /\ ~query.sent /\ ready /\ status = "OPEN"
    <3>1. /\ requests' = Append(requests, "connect")
          /\ query' = [query EXCEPT !.state = "IN_FLIGHT", !.sent = TRUE]
          /\ sub' = Heard(sub, "IN_FLIGHT") /\ due' = FALSE
      BY <1>1, <2>1 DEF ConnectQuery
    <3>2. sub' \in [Subs -> SubType]
      BY <1>0, <3>1, HeardTyped
    <3>3. QueryOK'
      BY <1>0, <2>1, <3>1 DEF QueryOK
    <3>4. requests' \in Seq({"connect", "disconnect"})
      BY <1>0, <3>1
    <3> QED BY <1>1, <3>1, <3>2, <3>3, <3>4 DEF ConnectQuery, TypeOK, QueryOK
  <2>2. CASE ~(query # NoQuery /\ ~query.sent /\ ready /\ status = "OPEN")
    BY <1>1, <2>2 DEF ConnectQuery, TypeOK
  <2> QED BY <2>1, <2>2
<1>2. CASE Open \/ Ready \/ Reconnect
  BY <1>2, ZenonT(30) DEF Open, Ready, Reconnect, TypeOK
<1>3. CASE Serve
  <2>1. requests' \in Seq({"connect", "disconnect"})
    BY <1>0, <1>3 DEF Serve
  <2>2. replies' \in Seq({"data", "error"})
    <3>1. \A m \in {"data", "error"} : Append(replies, m) \in Seq({"data", "error"})
      BY <1>0
    <3> QED BY <1>0, <1>3, <3>1 DEF Serve
  <2>3. served' \in BOOLEAN
    BY <1>0, <1>3 DEF Serve
  <2>4. used' \in [writes : Nat, losses : Nat, errors : Nat]
    <3>1. [used EXCEPT !.errors = used.errors + 1] \in [writes : Nat, losses : Nat, errors : Nat]
      BY <1>0
    <3> QED BY <1>0, <1>3, <3>1 DEF Serve
  <2>5. UNCHANGED <<status, ready, query, due, seen, local, view, changed, fresh, update, taken,
                    handling, sub, fetch>>
    BY <1>3 DEF Serve
  <2> QED BY <2>1, <2>2, <2>3, <2>4, <2>5 DEF TypeOK
<1>4. CASE Lose
  <2>1. QueryOK'
    BY <1>0, <1>4, NoQueryTyped DEF Lose, QueryOK
  <2>2. sub' \in [Subs -> SubType]
    BY <1>0, <1>4, RemoteOffFacts DEF Lose, Alike
  <2>3. used' \in [writes : Nat, losses : Nat, errors : Nat]
    BY <1>4 DEF Lose, TypeOK
  <2>4. requests' \in Seq({"connect", "disconnect"}) /\ replies' \in Seq({"data", "error"})
    BY <1>4 DEF Lose
  <2>5. status' \in {"CLOSED", "CONNECTING", "OPEN"} /\ ready' \in BOOLEAN /\ served' \in BOOLEAN
    BY <1>4 DEF Lose
  <2>6. UNCHANGED <<due, seen, local, view, changed, fresh, update, taken, handling, fetch>>
    BY <1>4 DEF Lose
  <2> QED BY <2>1, <2>2, <2>3, <2>4, <2>5, <2>6, ZenonT(30) DEF TypeOK, QueryOK
<1>5. CASE FlushWrites
  BY <1>0, <1>5, ZenonT(60) DEF FlushWrites, Flushed, TypeOK
<1>6. ASSUME NEW c \in Callers, BeginUpdate(c) PROVE TypeOK'
  BY <1>6 DEF BeginUpdate, TypeOK
<1>7. ASSUME NEW c \in Callers, EndUpdate(c) PROVE TypeOK'
  <2>1. view' \in RowsType /\ changed' \in BOOLEAN
    BY <1>7 DEF EndUpdate, TypeOK
  <2> QED BY <1>7, <2>1 DEF EndUpdate, TypeOK
<1>8. CASE HandleData
  <2>1. local' \in RowsType
    BY <1>8 DEF HandleData, TypeOK, RowsType
  <2> QED BY <1>8, <2>1 DEF HandleData, TypeOK
<1>9. CASE Mark
  <2>1. QueryOK' /\ seen' \in BOOLEAN
    <3>1. CASE query # NoQuery /\ query.state # "FULFILLED"
      <4>1. seen' = TRUE /\ query' = [query EXCEPT !.state = "FULFILLED"]
        BY <1>9, <3>1 DEF Mark
      <4> QED BY <1>0, <3>1, <4>1 DEF QueryOK
    <3>2. CASE ~(query # NoQuery /\ query.state # "FULFILLED")
      BY <1>0, <1>9, <3>2 DEF Mark, QueryOK
    <3> QED BY <3>1, <3>2
  <2> QED BY <1>9, <2>1 DEF Mark, TypeOK, QueryOK
<1>10. CASE Fulfill
  <2>1. sub' \in [Subs -> SubType]
    BY <1>0, <1>10, HeardTyped DEF Fulfill
  <2>2. fetch' \in [Fetches -> FetchType]
    <3>1. ASSUME NEW f \in Fetches PROVE Returning("FULFILLED")[f] \in FetchType
      <4>1. fetch[f] \in FetchType
        BY <1>0
      <4>2. [fetch[f] EXCEPT !.sync = "ending"] \in FetchType
        BY <4>1 DEF FetchType
      <4> QED BY <4>1, <4>2 DEF Returning
    <3> QED BY <1>10, <3>1 DEF Fulfill, Returning
  <2> QED BY <1>10, <2>1, <2>2 DEF Fulfill, Flushed, TypeOK
<1>11. CASE HandleError
  <2>1. sub' \in [Subs -> SubType]
    BY <1>0, <1>11, HeardTyped DEF HandleError
  <2>2. QueryOK' /\ requests' \in Seq({"connect", "disconnect"})
    <3>1. CASE query = NoQuery
      BY <1>0, <1>11, <3>1 DEF HandleError, QueryOK
    <3>2. CASE query # NoQuery
      BY <1>0, <1>11, <3>2, DisconnectTyped DEF HandleError
    <3> QED BY <3>1, <3>2
  <2>3. replies' \in Seq({"data", "error"})
    BY <1>11 DEF HandleError, TypeOK
  <2> QED BY <1>11, <2>1, <2>2, <2>3 DEF HandleError, TypeOK, QueryOK
<1>12. CASE Write
  <2>1. local' \in RowsType
    <3>1. local' = [local EXCEPT !.writes = local.writes + 1] /\ local.writes + 1 \in Nat
      BY <1>0, <1>12 DEF Write, RowsType
    <3> QED BY <1>0, <3>1 DEF RowsType
  <2>2. used' \in [writes : Nat, losses : Nat, errors : Nat]
    BY <1>0, <1>12 DEF Write
  <2>3. update' \in [Callers -> {"no", "wait", "run", "flush"}]
    BY <1>0, <1>12 DEF Write
  <2> QED BY <1>12, <2>1, <2>2, <2>3 DEF Write, TypeOK
<1>13. ASSUME NEW s \in Subs, Subscribe(s) PROVE TypeOK'
  <2>1. sub' \in [Subs -> SubType]
    BY <1>0, <1>13, SubscribeFacts DEF Alike
  <2>2. fresh' \in SUBSET Subs /\ update' \in [Callers -> {"no", "wait", "run", "flush"}]
    BY <1>0, <1>13 DEF Subscribe, TypeOK
  <2> QED BY <1>13, <2>1, <2>2 DEF Subscribe, TypeOK
<1>14. ASSUME NEW s \in Subs, FirstTime(s) PROVE TypeOK'
  <2>1. sub' \in [Subs -> SubType]
    BY <1>0, <1>14, FirstTimeFacts DEF Alike
  <2> QED BY <1>14, <2>1 DEF FirstTime, TypeOK
<1>15. ASSUME NEW s \in Subs, MountSub(s) PROVE TypeOK'
  <2>1. sub' \in [Subs -> SubType]
    <3>1. PICK t : t = [Broadcast(sub)[s] EXCEPT !.pc = "on"]
      OBVIOUS
    <3>2. sub' = [Broadcast(sub) EXCEPT ![s] = t]
      BY <1>0, <1>15, <3>1 DEF MountSub
    <3>3. t \in SubType
      <4>1. Broadcast(sub)[s] \in SubType
        BY <1>0
      <4> QED BY <3>1, <4>1 DEF SubType
    <3> QED BY <1>0, <3>2, <3>3
  <2>2. QueryOK' /\ due' \in BOOLEAN
    BY <1>0, <1>15, MountTyped DEF MountSub
  <2> QED BY <1>15, <2>1, <2>2 DEF MountSub, Flushed, TypeOK, QueryOK
<1>16. ASSUME NEW s \in Subs, Leave(s) PROVE TypeOK'
  <2>1. sub' \in [Subs -> SubType]
    <3>1. PICK t : t = [sub[s] EXCEPT !.pc = "left", !.unsubscribed = TRUE]
      OBVIOUS
    <3>2. sub' = [sub EXCEPT ![s] = t]
      BY <1>0, <1>16, <3>1 DEF Leave
    <3>3. t \in SubType
      <4>1. sub[s] \in SubType
        BY <1>0
      <4> QED BY <3>1, <4>1 DEF SubType
    <3> QED BY <1>0, <3>2, <3>3
  <2>2. view' \in RowsType /\ changed' \in BOOLEAN /\ fresh' \in SUBSET Subs
    BY <1>0, <1>16, RowsTyped DEF Leave, TypeOK
  <2> QED BY <1>16, <2>1, <2>2 DEF Leave, TypeOK
<1>17. ASSUME NEW s \in Subs, LeaveRemote(s) PROVE TypeOK'
  <2>1. sub' \in [Subs -> SubType]
    BY <1>0, <1>17, NewTyped DEF LeaveRemote, SubType
  <2>2. QueryOK' /\ requests' \in Seq({"connect", "disconnect"})
    BY <1>0, <1>17, UnmountTyped DEF LeaveRemote
  <2> QED BY <1>17, <2>1, <2>2 DEF LeaveRemote, TypeOK, QueryOK
<1>18. ASSUME NEW s \in Subs, Unsubscribe(s) PROVE TypeOK'
  <2>1. sub' \in [Subs -> SubType]
    <3>1. PICK t : t = [sub[s] EXCEPT !.leaving = TRUE, !.hears = FALSE]
      OBVIOUS
    <3>2. sub' = [sub EXCEPT ![s] = t]
      BY <1>0, <1>18, <3>1 DEF Unsubscribe
    <3>3. t \in SubType
      <4>1. sub[s] \in SubType
        BY <1>0
      <4> QED BY <3>1, <4>1 DEF SubType
    <3> QED BY <1>0, <3>2, <3>3
  <2> QED BY <1>18, <2>1 DEF Unsubscribe, TypeOK
<1>19. ASSUME NEW f \in Fetches, ReadFirst(f) \/ Timeout(f) \/ ReadLocal(f)
       PROVE  TypeOK'
  <2>1. fetch' \in [Fetches -> FetchType]
    <3>1. CASE ReadFirst(f)
      <4>1. PICK t : t = [fetch[f] EXCEPT !.first = ~seen, !.pc = "decide"]
        OBVIOUS
      <4>2. fetch' = [fetch EXCEPT ![f] = t]
        BY <1>0, <3>1, <4>1 DEF ReadFirst
      <4>3. t \in FetchType
        <5>1. fetch[f] \in FetchType
          BY <1>0
        <5> QED BY <1>0, <4>1, <5>1 DEF FetchType
      <4> QED BY <1>0, <4>2, <4>3
    <3>2. CASE Timeout(f)
      <4>1. PICK t : t = [fetch[f] EXCEPT !.pc = "read"]
        OBVIOUS
      <4>2. fetch' = [fetch EXCEPT ![f] = t]
        BY <1>0, <3>2, <4>1 DEF Timeout
      <4>3. t \in FetchType
        <5>1. fetch[f] \in FetchType
          BY <1>0
        <5> QED BY <4>1, <5>1 DEF FetchType
      <4> QED BY <1>0, <4>2, <4>3
    <3>3. CASE ReadLocal(f)
      <4>1. PICK t : t = [fetch[f] EXCEPT !.pc = "done", !.result = local]
        OBVIOUS
      <4>2. fetch' = [fetch EXCEPT ![f] = t]
        BY <1>0, <3>3, <4>1 DEF ReadLocal
      <4>3. t \in FetchType
        <5>1. fetch[f] \in FetchType
          BY <1>0
        <5> QED BY <1>0, <4>1, <5>1 DEF FetchType
      <4> QED BY <1>0, <4>2, <4>3
    <3> QED BY <1>19, <3>1, <3>2, <3>3
  <2> QED BY <1>19, <2>1 DEF ReadFirst, Timeout, ReadLocal, TypeOK
<1>20. ASSUME NEW f \in Fetches, NEW policy \in Policies, Fetch(f, policy) PROVE TypeOK'
  <2>1. fetch' \in [Fetches -> FetchType]
    <3>1. PICK t : t = [fetch[f] EXCEPT !.policy = policy,
                                        !.pc = IF policy = "local-first" THEN "first" ELSE "decide"]
      OBVIOUS
    <3>2. fetch' = [fetch EXCEPT ![f] = t]
      BY <1>0, <1>20, <3>1 DEF Fetch
    <3>3. t \in FetchType
      <4>1. fetch[f] \in FetchType
        BY <1>0
      <4> QED BY <3>1, <4>1 DEF FetchType
    <3> QED BY <1>0, <3>2, <3>3
  <2> QED BY <1>20, <2>1 DEF Fetch, TypeOK
<1>21. ASSUME NEW f \in Fetches, Decide(f) PROVE TypeOK'
  <2>1. fetch' \in [Fetches -> FetchType] /\ QueryOK' /\ due' \in BOOLEAN
    <3>1. CASE AsksServer(f)
      <4>1. Mount(f) /\ fetch' = [fetch EXCEPT ![f].pc = "sync", ![f].sync = "waiting"]
        BY <1>21, <3>1 DEF Decide
      <4>2. fetch' \in [Fetches -> FetchType]
        <5>1. PICK t : t = [fetch[f] EXCEPT !.pc = "sync", !.sync = "waiting"]
          OBVIOUS
        <5>2. fetch' = [fetch EXCEPT ![f] = t]
          BY <1>0, <4>1, <5>1
        <5>3. t \in FetchType
          <6>1. fetch[f] \in FetchType
            BY <1>0
          <6> QED BY <5>1, <6>1 DEF FetchType
        <5> QED BY <1>0, <5>2, <5>3
      <4>3. QueryOK' /\ due' \in BOOLEAN
        BY <1>0, <4>1, MountTyped
      <4> QED BY <4>2, <4>3
    <3>2. CASE ~AsksServer(f)
      <4>1. fetch' = [fetch EXCEPT ![f].pc = "read"] /\ UNCHANGED <<query, due>>
        BY <1>21, <3>2 DEF Decide
      <4>2. [fetch[f] EXCEPT !.pc = "read"] \in FetchType
        <5>1. fetch[f] \in FetchType
          BY <1>0
        <5> QED BY <5>1 DEF FetchType
      <4>3. fetch' \in [Fetches -> FetchType]
        BY <1>0, <4>1, <4>2
      <4> QED BY <1>0, <4>1, <4>3 DEF QueryOK
    <3> QED BY <3>1, <3>2
  <2> QED BY <1>21, <2>1 DEF Decide, TypeOK, QueryOK
<1>22. ASSUME NEW f \in Fetches, Synced(f) PROVE TypeOK'
  <2>1. QueryOK' /\ requests' \in Seq({"connect", "disconnect"})
    BY <1>0, <1>22, UnmountTyped DEF Synced
  <2>2. fetch' \in [Fetches -> FetchType]
    <3>1. PICK t : t = [fetch[f] EXCEPT !.sync = "over",
                                        !.pc = IF fetch[f].pc = "sync" THEN "read" ELSE fetch[f].pc]
      OBVIOUS
    <3>2. fetch' = [fetch EXCEPT ![f] = t]
      BY <1>0, <1>22, <3>1 DEF Synced
    <3>3. t \in FetchType
      <4>1. fetch[f] \in FetchType
        BY <1>0
      <4> QED BY <3>1, <4>1 DEF FetchType
    <3> QED BY <1>0, <3>2, <3>3
  <2> QED BY <1>22, <2>1, <2>2 DEF Synced, TypeOK, QueryOK
<1>23. CASE UNCHANGED vars
  BY <1>23 DEF vars, TypeOK
<1> QED BY <1>1, <1>2, <1>3, <1>4, <1>5, <1>6, <1>7, <1>8, <1>9, <1>10, <1>11, <1>12, <1>13, <1>14,
           <1>15, <1>16, <1>17, <1>18, <1>19, <1>20, <1>21, <1>22, <1>23
     DEF Next, Connecting, Updating, Handling, Subscribing, GoOn

-----------------------------------------------------------------------------
(* What the steps do to the subscribers.                                   *)

(* A change of the sync state, and what a subscriber does between, leave   *)
(* its results alone, and leave all that it waits for but when the         *)
(* connection is lost or the server fails.                                 *)
LEMMA QuietCalls ==
  ASSUME TypeOK, NEW s \in Subs,
         \/ ConnectQuery \/ Lose \/ HandleError
         \/ \E o \in Subs : FirstTime(o) \/ Unsubscribe(o)
  PROVE  /\ Alike(sub[s], sub'[s]) /\ sub'[s].results = sub[s].results
         /\ sub'[s].local => sub[s].local
         /\ Lose \/ HandleError \/ (sub'[s].local = sub[s].local /\ sub'[s].waiting = sub[s].waiting)
<1>0. sub \in [Subs -> SubType] /\ sub[s] \in SubType /\ seen \in BOOLEAN
  BY DEF TypeOK
<1>1. CASE ConnectQuery
  <2>1. sub' = Heard(sub, "IN_FLIGHT") \/ sub' = sub
    BY <1>1 DEF ConnectQuery
  <2>2. CASE sub' = Heard(sub, "IN_FLIGHT")
    <3>1. PICK t : t = Heard(sub, "IN_FLIGHT")[s]
      OBVIOUS
    <3>2. /\ Alike(sub[s], t) /\ t.results = sub[s].results /\ (t.local => sub[s].local)
          /\ t.local = sub[s].local /\ t.waiting = sub[s].waiting
      BY <1>0, <3>1, HeardFacts
    <3> QED BY <2>2, <3>1, <3>2
  <2>3. CASE sub' = sub
    BY <1>0, <2>3 DEF Alike
  <2> QED BY <2>1, <2>2, <2>3
<1>2. CASE Lose
  <2>1. sub'[s] = RemoteOff(sub[s]) \/ sub'[s] = sub[s]
    BY <1>2 DEF Lose
  <2> QED BY <1>0, <1>2, <2>1, RemoteOffFacts DEF Alike
<1>3. CASE HandleError
  <2>1. sub' = Heard(sub, "ERROR")
    BY <1>3 DEF HandleError
  <2> QED BY <1>0, <1>3, <2>1, HeardFacts
<1>4. ASSUME NEW o \in Subs, FirstTime(o)
      PROVE  /\ Alike(sub[s], sub'[s]) /\ sub'[s].results = sub[s].results
             /\ sub'[s].local = sub[s].local /\ sub'[s].waiting = sub[s].waiting
  BY <1>0, <1>4, FirstTimeFacts
<1>5. ASSUME NEW o \in Subs, Unsubscribe(o)
      PROVE  /\ Alike(sub[s], sub'[s]) /\ sub'[s].results = sub[s].results
             /\ sub'[s].local = sub[s].local /\ sub'[s].waiting = sub[s].waiting
  <2>1. PICK t : t = [sub[o] EXCEPT !.leaving = TRUE, !.hears = FALSE]
    OBVIOUS
  <2>2. sub' = [sub EXCEPT ![o] = t]
    BY <1>0, <1>5, <2>1 DEF Unsubscribe
  <2>3. sub[o] \in SubType
    BY <1>0
  <2>4. /\ t \in SubType /\ t.pc = sub[o].pc /\ t.unsubscribed = sub[o].unsubscribed
        /\ t.leaving /\ t.results = sub[o].results /\ t.local = sub[o].local
        /\ t.waiting = sub[o].waiting /\ t.initial = sub[o].initial /\ t.told = sub[o].told
    BY <2>1, <2>3 DEF SubType
  <2>5. Alike(sub[o], t)
    BY <2>4 DEF Alike, Says, Fetching
  <2>6. CASE o = s
    BY <1>0, <2>2, <2>4, <2>5, <2>6
  <2>7. CASE o # s
    BY <1>0, <2>2, <2>7 DEF Alike
  <2> QED BY <2>6, <2>7
<1> QED BY <1>1, <1>2, <1>3, <1>4, <1>5

(* A flush of the views calls those who listen; and the handler's tells of *)
(* the sync state after it, and a subscriber's is the last step of its     *)
(* subscription to them.                                                   *)
LEMMA FlushCalls ==
  ASSUME TypeOK, NEW s \in Subs, BegunPart,
         FlushWrites \/ Fulfill \/ \E o \in Subs : MountSub(o)
  PROVE  LET b == Broadcast(sub)[s]
         IN  /\ sub'[s] \in SubType /\ sub'[s].results = b.results /\ sub'[s].local = b.local
             /\ Says(sub[s]) => Says(sub'[s])
             /\ sub'[s].unsubscribed = sub[s].unsubscribed
             /\ sub[s].leaving => sub'[s].leaving
             /\ sub'[s].waiting = b.waiting \/ (Fulfill /\ sub'[s].waiting = FALSE)
             /\ sub'[s].pc = sub[s].pc \/ (sub[s].pc = "update" /\ sub'[s].pc = "on")
<1>0. /\ sub \in [Subs -> SubType] /\ sub[s] \in SubType
      /\ Broadcast(sub) \in [Subs -> SubType] /\ Alike(sub[s], Broadcast(sub)[s])
  BY BroadcastFacts DEF TypeOK
<1>1. CASE FlushWrites
  <2>1. sub' = Broadcast(sub)
    BY <1>1 DEF FlushWrites
  <2> QED BY <1>0, <2>1 DEF Alike
<1>2. CASE Fulfill
  <2>1. PICK m : m = Broadcast(sub)
    OBVIOUS
  <2>2. sub' = Heard(m, "FULFILLED")
    BY <1>2, <2>1 DEF Fulfill
  <2>3. m \in [Subs -> SubType] /\ Alike(sub[s], m[s])
    BY <1>0, <2>1
  <2>4. PICK t : t = Heard(m, "FULFILLED")[s]
    OBVIOUS
  <2>5. /\ Alike(m[s], t) /\ t.results = m[s].results /\ t.local = m[s].local
        /\ t.waiting = m[s].waiting \/ t.waiting = FALSE
    BY <2>3, <2>4, HeardFacts
  <2> QED BY <1>2, <2>1, <2>2, <2>3, <2>4, <2>5 DEF Alike
<1>3. ASSUME NEW o \in Subs, MountSub(o)
      PROVE  /\ sub'[s] \in SubType /\ sub'[s].results = Broadcast(sub)[s].results
             /\ sub'[s].local = Broadcast(sub)[s].local
             /\ Says(sub[s]) => Says(sub'[s])
             /\ sub'[s].unsubscribed = sub[s].unsubscribed
             /\ sub[s].leaving => sub'[s].leaving
             /\ sub'[s].waiting = Broadcast(sub)[s].waiting
             /\ sub'[s].pc = sub[s].pc \/ (sub[s].pc = "update" /\ sub'[s].pc = "on")
  <2>1. PICK b : b = Broadcast(sub)[o]
    OBVIOUS
  <2>2. PICK t : t = [b EXCEPT !.pc = "on"]
    OBVIOUS
  <2>3. sub' = [Broadcast(sub) EXCEPT ![o] = t]
    BY <1>0, <1>3, <2>1, <2>2 DEF MountSub
  <2>4. b \in SubType /\ Alike(sub[o], b)
    BY <1>0, <2>1, BroadcastFacts
  <2>5. /\ t \in SubType /\ t.pc = "on" /\ t.unsubscribed = b.unsubscribed
        /\ t.leaving = b.leaving /\ t.results = b.results /\ t.local = b.local
        /\ t.waiting = b.waiting /\ t.initial = b.initial /\ t.told = b.told
    BY <2>2, <2>4 DEF SubType
  <2>6. Says(sub[o]) => Says(t)
    BY <2>4, <2>5 DEF Alike, Says, Fetching
  <2>7. sub[o].pc = "update"
    BY <1>3 DEF MountSub, Flushed, BegunPart
  <2>8. CASE o = s
    BY <1>0, <2>1, <2>3, <2>4, <2>5, <2>6, <2>7, <2>8 DEF Alike
  <2>9. CASE o # s
    <3>1. sub'[s] = Broadcast(sub)[s]
      BY <1>0, <2>3, <2>9
    <3> QED BY <1>0, <3>1 DEF Alike
  <2> QED BY <2>8, <2>9
<1>4. CASE \E o \in Subs : MountSub(o)
  BY <1>3, <1>4
<1> QED BY <1>1, <1>2, <1>4

-----------------------------------------------------------------------------
(* The invariant of fetch.                                                 *)

(* The answer stays in the database.                                       *)
LEMMA AnswerStays == ASSUME TypeOK, [Next]_vars PROVE local.answer => local'.answer
<1>1. CASE HandleData
  BY <1>1 DEF HandleData, TypeOK, RowsType
<1>2. CASE Write
  BY <1>2 DEF Write, TypeOK, RowsType
<1>3. CASE local' = local
  BY <1>3
<1> USE DEF views, wire, link
<1>4. HandleData \/ Write \/ local' = local
  BY DEF vars, Next, Connecting, Updating, Handling, Subscribing, GoOn, ConnectQuery, Open, Ready,
         Lose, Reconnect, Serve, BeginUpdate, EndUpdate, FlushWrites, Mark, Fulfill, HandleError,
         Subscribe, FirstTime, MountSub, Unsubscribe, Leave, LeaveRemote, Fetch, ReadFirst,
         Decide, Synced, Timeout, ReadLocal
<1> QED BY <1>1, <1>2, <1>3, <1>4

(* Nothing but Mark makes the query FULFILLED, and only the handler of the *)
(* data leaves its first step.                                             *)
LEMMA FulfilledSteps ==
  ASSUME TypeOK, [Next]_vars
  PROVE  \/ Mark \/ HandleData
         \/ /\ query'.state = "FULFILLED" => query.state = "FULFILLED"
            /\ handling' # "no" => handling' = handling
<1> USE DEF views, wire, link
<1>0. QueryOK /\ due \in BOOLEAN /\ requests \in Seq({"connect", "disconnect"})
  BY DEF TypeOK, QueryOK
<1> DEFINE P == /\ query'.state = "FULFILLED" => query.state = "FULFILLED"
                /\ handling' # "no" => handling' = handling
<1>1. CASE ConnectQuery
  <2>1. handling' = handling
    BY <1>1 DEF ConnectQuery
  <2>2. query' = query \/ query' = [query EXCEPT !.state = "IN_FLIGHT", !.sent = TRUE]
    BY <1>1 DEF ConnectQuery
  <2> QED BY <1>0, <2>1, <2>2 DEF QueryOK
<1>2. CASE Lose
  BY <1>0, <1>2 DEF Lose, QueryOK, NoQuery
<1>3. CASE HandleError
  <2>1. query' = query \/ query' = NoQuery
    BY <1>3 DEF HandleError, Disconnected
  <2> QED BY <1>3, <2>1 DEF HandleError, NoQuery
<1>4. CASE Fulfill
  BY <1>4 DEF Fulfill
<1>5. ASSUME NEW s \in Subs, MountSub(s) PROVE P
  BY <1>0, <1>5, MountTyped DEF MountSub
<1>6. ASSUME NEW s \in Subs, LeaveRemote(s) PROVE P
  BY <1>0, <1>6, UnmountTyped DEF LeaveRemote
<1>7. ASSUME NEW f \in Fetches, Synced(f) PROVE P
  BY <1>0, <1>7, UnmountTyped DEF Synced
<1>8. ASSUME NEW f \in Fetches, Decide(f) PROVE P
  <2>1. CASE AsksServer(f)
    BY <1>0, <1>8, <2>1, MountTyped DEF Decide
  <2>2. CASE ~AsksServer(f)
    BY <1>8, <2>2 DEF Decide
  <2> QED BY <2>1, <2>2
<1>9. CASE query' = query /\ handling' = handling
  BY <1>9
<1>10. \/ Mark \/ HandleData \/ ConnectQuery \/ Lose \/ HandleError \/ Fulfill
       \/ \E s \in Subs : MountSub(s) \/ LeaveRemote(s)
       \/ \E f \in Fetches : Synced(f) \/ Decide(f)
       \/ query' = query /\ handling' = handling
  BY DEF vars, Next, Connecting, Updating, Handling, Subscribing, GoOn, Open, Ready,
         Reconnect, Serve, BeginUpdate, EndUpdate, FlushWrites, Write,
         Subscribe, FirstTime, Unsubscribe, Leave, Fetch, ReadFirst, Timeout, ReadLocal
<1> QED BY <1>1, <1>2, <1>3, <1>4, <1>5, <1>6, <1>7, <1>8, <1>9, <1>10

(* So what is marked as answered has its answer.                           *)
LEMMA AnsweredStep == ASSUME TypeOK, Answered, [Next]_vars PROVE Answered'
<1>1. local.answer => local'.answer
  BY AnswerStays
<1>2. CASE Mark
  BY <1>1, <1>2 DEF Mark, Answered
<1>3. CASE HandleData
  <2>1. local'.answer
    BY <1>3 DEF HandleData, TypeOK, RowsType
  <2> QED BY <2>1 DEF Answered
<1>4. CASE /\ query'.state = "FULFILLED" => query.state = "FULFILLED"
           /\ handling' # "no" => handling' = handling
  BY <1>1, <1>4 DEF Answered
<1> QED BY <1>2, <1>3, <1>4, FulfilledSteps

(* How a fetch goes on.                                                    *)
LEMMA FetchStep == ASSUME TypeOK, Answered, BegunPart, FetchPart, [Next]_vars PROVE FetchPart'
<1> USE DEF views, wire, link
<1>0. local.answer => local'.answer
  BY AnswerStays
<1> SUFFICES ASSUME NEW f \in Fetches
             PROVE  LET g == fetch'[f]
                    IN  /\ g.pc \in {"idle", "first", "decide"} => g.sync = "no"
                        /\ g.sync \in {"ending", "over"} => local'.answer
                        /\ g.policy # "local-and-remote" =>
                             /\ g.sync \in {"waiting", "ending"} => g.pc = "sync"
                             /\ g.pc = "done" /\ g.sync = "over" => g.result.answer
  BY DEF FetchPart
<1>1. fetch \in [Fetches -> FetchType] /\ fetch[f] \in FetchType
  BY DEF TypeOK
<1>2. /\ fetch[f].pc \in {"idle", "first", "decide"} => fetch[f].sync = "no"
      /\ fetch[f].sync \in {"ending", "over"} => local.answer
      /\ fetch[f].policy # "local-and-remote" =>
           /\ fetch[f].sync \in {"waiting", "ending"} => fetch[f].pc = "sync"
           /\ fetch[f].pc = "done" /\ fetch[f].sync = "over" => fetch[f].result.answer
  BY DEF FetchPart
<1>3. CASE fetch'[f] = fetch[f]
  BY <1>0, <1>2, <1>3
<1>4. CASE Fulfill
  <2>1. local.answer
    BY <1>4 DEF Fulfill, Flushed, Answered, BegunPart
  <2>2. CASE fetch[f].sync = "waiting"
    <3>1. fetch'[f] = fetch[f] \/ fetch'[f] = [fetch[f] EXCEPT !.sync = "ending"]
      BY <1>4 DEF Fulfill, Returning
    <3>2. \/ fetch'[f] = fetch[f]
          \/ /\ fetch'[f].pc = fetch[f].pc /\ fetch'[f].policy = fetch[f].policy
             /\ fetch'[f].sync = "ending" /\ fetch'[f].result = fetch[f].result
      BY <1>1, <3>1 DEF FetchType
    <3> QED BY <1>0, <1>2, <2>1, <2>2, <3>2
  <2>3. CASE fetch[f].sync # "waiting"
    BY <1>3, <1>4, <2>3 DEF Fulfill, Returning
  <2> QED BY <2>2, <2>3
<1>5. CASE \E policy \in Policies : Fetch(f, policy)
  <2>1. PICK policy \in Policies : Fetch(f, policy)
    BY <1>5
  <2>2. PICK t : t = [fetch[f] EXCEPT !.policy = policy,
                                      !.pc = IF policy = "local-first" THEN "first" ELSE "decide"]
    OBVIOUS
  <2>3. fetch' = [fetch EXCEPT ![f] = t]
    BY <1>1, <2>1, <2>2 DEF Fetch
  <2>4. t.pc \in {"first", "decide"} /\ t.sync = fetch[f].sync /\ fetch'[f] = t
    BY <1>1, <2>2, <2>3 DEF FetchType
  <2>5. fetch[f].sync = "no"
    BY <1>2, <2>1 DEF Fetch
  <2> QED BY <2>4, <2>5
<1>6. CASE ReadFirst(f)
  <2>1. PICK t : t = [fetch[f] EXCEPT !.first = ~seen, !.pc = "decide"]
    OBVIOUS
  <2>2. fetch' = [fetch EXCEPT ![f] = t]
    BY <1>1, <1>6, <2>1 DEF ReadFirst
  <2>3. t.pc = "decide" /\ t.sync = fetch[f].sync /\ fetch'[f] = t
    BY <1>1, <2>1, <2>2 DEF FetchType
  <2>4. fetch[f].sync = "no"
    BY <1>2, <1>6 DEF ReadFirst
  <2> QED BY <2>3, <2>4
<1>7. CASE Decide(f)
  <2>1. PICK t : \/ t = [fetch[f] EXCEPT !.pc = "sync", !.sync = "waiting"] /\ fetch' = [fetch EXCEPT ![f] = t]
                 \/ t = [fetch[f] EXCEPT !.pc = "read"] /\ fetch' = [fetch EXCEPT ![f] = t]
    <3>1. CASE AsksServer(f)
      <4>1. fetch' = [fetch EXCEPT ![f].pc = "sync", ![f].sync = "waiting"]
        BY <1>7, <3>1 DEF Decide
      <4>2. fetch' = [fetch EXCEPT ![f] = [fetch[f] EXCEPT !.pc = "sync", !.sync = "waiting"]]
        BY <1>1, <4>1
      <4> QED BY <4>2
    <3>2. CASE ~AsksServer(f)
      <4>1. fetch' = [fetch EXCEPT ![f].pc = "read"]
        BY <1>7, <3>2 DEF Decide
      <4> QED BY <4>1
    <3> QED BY <3>1, <3>2
  <2>2. fetch[f].sync = "no"
    BY <1>2, <1>7 DEF Decide
  <2>3. /\ fetch'[f] = t
        /\ (t.pc = "sync" /\ t.sync = "waiting") \/ (t.pc = "read" /\ t.sync = "no")
    BY <1>1, <2>1, <2>2 DEF FetchType
  <2> QED BY <2>3
<1>8. CASE Synced(f)
  <2>1. PICK t : t = [fetch[f] EXCEPT !.sync = "over",
                                      !.pc = IF fetch[f].pc = "sync" THEN "read" ELSE fetch[f].pc]
    OBVIOUS
  <2>2. fetch' = [fetch EXCEPT ![f] = t]
    BY <1>1, <1>8, <2>1 DEF Synced
  <2>3. /\ fetch'[f] = t /\ t.sync = "over" /\ t.policy = fetch[f].policy
        /\ t.pc = IF fetch[f].pc = "sync" THEN "read" ELSE fetch[f].pc
    BY <1>1, <2>1, <2>2 DEF FetchType
  <2>4. fetch[f].sync = "ending"
    BY <1>8 DEF Synced
  <2> QED BY <1>0, <1>2, <2>3, <2>4
<1>9. CASE Timeout(f)
  <2>1. /\ fetch'[f].pc = "read" /\ fetch'[f].sync = fetch[f].sync
        /\ fetch'[f].policy = "local-and-remote"
    BY <1>1, <1>9 DEF Timeout, FetchType
  <2> QED BY <1>0, <1>2, <2>1
<1>10. CASE ReadLocal(f)
  <2>1. PICK t : t = [fetch[f] EXCEPT !.pc = "done", !.result = local]
    OBVIOUS
  <2>2. fetch' = [fetch EXCEPT ![f] = t]
    BY <1>1, <1>10, <2>1 DEF ReadLocal
  <2>3. /\ fetch'[f] = t /\ t.sync = fetch[f].sync /\ t.policy = fetch[f].policy
        /\ t.pc = "done" /\ t.result = local
    BY <1>1, <2>1, <2>2 DEF FetchType
  <2>4. fetch[f].pc = "read"
    BY <1>10 DEF ReadLocal
  <2> QED BY <1>0, <1>2, <2>3, <2>4
<1>11. \/ fetch'[f] = fetch[f] \/ Fulfill \/ \E policy \in Policies : Fetch(f, policy)
       \/ ReadFirst(f) \/ Decide(f) \/ Synced(f) \/ Timeout(f) \/ ReadLocal(f)
  <2>1. ASSUME NEW g \in Fetches \ {f}, GoOn(g) \/ \E policy \in Policies : Fetch(g, policy)
        PROVE  fetch'[f] = fetch[f]
    BY <1>1, <2>1 DEF GoOn, Fetch, ReadFirst, Decide, Synced, Timeout, ReadLocal
  <2>2. \/ Fulfill \/ fetch' = fetch
        \/ \E g \in Fetches : GoOn(g) \/ \E policy \in Policies : Fetch(g, policy)
    BY DEF vars, Next, Connecting, Updating, Handling, Subscribing, ConnectQuery, Open, Ready,
           Lose, Reconnect, Serve, BeginUpdate, EndUpdate, FlushWrites, Mark, HandleError,
           HandleData, Write, Subscribe, FirstTime, MountSub, Unsubscribe, Leave, LeaveRemote
  <2> QED BY <2>1, <2>2 DEF GoOn
<1> QED BY <1>3, <1>4, <1>5, <1>6, <1>7, <1>8, <1>9, <1>10, <1>11

(* Who updates the views.                                                  *)
LEMMA BegunStep == ASSUME TypeOK, BegunPart, [Next]_vars PROVE BegunPart'
<1> USE DEF views, wire, link
<1>0. /\ sub \in [Subs -> SubType] /\ update \in [Callers -> {"no", "wait", "run", "flush"}]
      /\ "handler" \in Callers /\ "writer" \in Callers /\ "handler" # "writer" /\ Subs \subseteq Callers
      /\ "handler" \notin Subs /\ "writer" \notin Subs
  BY ReadsAssumption DEF TypeOK, Callers
<1>1. /\ update["handler"] # "no" => handling = "update"
      /\ \A s \in Subs : update[s] # "no" => sub[s].pc = "update"
  BY DEF BegunPart
<1>2. ASSUME NEW c \in Callers, update[c] # "no", update' = [update EXCEPT ![c] = update'[c]],
             sub' = sub, handling' = handling
      PROVE  BegunPart'
  BY <1>0, <1>1, <1>2 DEF BegunPart
<1>3. CASE \E c \in Callers : BeginUpdate(c) \/ EndUpdate(c)
  <2>1. PICK c \in Callers : BeginUpdate(c) \/ EndUpdate(c)
    BY <1>3
  <2>2. /\ update[c] # "no" /\ update' = [update EXCEPT ![c] = update'[c]]
        /\ sub' = sub /\ handling' = handling
    BY <1>0, <2>1 DEF BeginUpdate, EndUpdate
  <2> QED BY <1>2, <2>2
<1>4. CASE FlushWrites \/ Fulfill \/ \E o \in Subs : MountSub(o)
  <2>1. PICK c \in Callers :
          /\ update' = [update EXCEPT ![c] = "no"]
          /\ c = "handler" \/ handling' = handling
          /\ c \in Subs \/ \A s \in Subs : sub'[s].pc = sub[s].pc
          /\ \A s \in Subs : s # c => sub'[s].pc = sub[s].pc
    <3>1. CASE FlushWrites
      <4>1. \A s \in Subs : sub'[s].pc = sub[s].pc
        BY <3>1, BroadcastFacts DEF FlushWrites, Alike
      <4> QED BY <1>0, <3>1, <4>1 DEF FlushWrites, Flushed
    <3>2. CASE Fulfill
      <4>1. \A s \in Subs : sub'[s].pc = sub[s].pc
        <5>1. PICK m : m = Broadcast(sub)
          OBVIOUS
        <5>2. m \in [Subs -> SubType] /\ \A s \in Subs : m[s].pc = sub[s].pc
          BY <5>1, BroadcastFacts DEF Alike, Broadcast
        <5>3. sub' = Heard(m, "FULFILLED")
          BY <3>2, <5>1 DEF Fulfill
        <5>4. ASSUME NEW s \in Subs PROVE Heard(m, "FULFILLED")[s].pc = m[s].pc
          <6>1. Alike(m[s], Heard(m, "FULFILLED")[s])
            BY <5>2, HeardFacts
          <6> QED BY <6>1 DEF Alike
        <5> QED BY <5>2, <5>3, <5>4
      <4>2. update' = [update EXCEPT !["handler"] = "no"]
        BY <3>2 DEF Fulfill, Flushed
      <4>3. "handler" \in Callers
        BY <1>0
      <4> WITNESS "handler" \in Callers
      <4> QED BY <4>1, <4>2
    <3>3. ASSUME NEW o \in Subs, MountSub(o)
          PROVE  /\ update' = [update EXCEPT ![o] = "no"] /\ handling' = handling
                 /\ \A s \in Subs : s # o => sub'[s].pc = sub[s].pc
      <4>1. \A s \in Subs : Broadcast(sub)[s].pc = sub[s].pc
        BY BroadcastFacts DEF Alike
      <4>2. \A s \in Subs : s # o => sub'[s] = Broadcast(sub)[s]
        BY <3>3 DEF MountSub, Broadcast
      <4> QED BY <3>3, <4>1, <4>2 DEF MountSub, Flushed
    <3> QED BY <1>0, <1>4, <3>1, <3>2, <3>3
  <2> QED BY <1>0, <1>1, <2>1 DEF BegunPart
<1>5. CASE Write
  BY <1>0, <1>1, <1>5 DEF Write, BegunPart
<1>6. CASE Mark
  BY <1>0, <1>1, <1>6 DEF Mark, BegunPart
<1>7. CASE HandleData
  BY <1>1, <1>7 DEF HandleData, BegunPart
<1>8. ASSUME NEW o \in Subs, Subscribe(o) PROVE BegunPart'
  <2>1. sub'[o].pc = "update" /\ \A s \in Subs \ {o} : sub'[s] = sub[s]
    BY <1>0, <1>8, SubscribeFacts
  <2> QED BY <1>0, <1>1, <1>8, <2>1 DEF Subscribe, BegunPart
<1>9. ASSUME NEW o \in Subs, Leave(o) \/ LeaveRemote(o) PROVE BegunPart'
  <2>1. /\ sub[o].pc # "update" /\ update' = update /\ handling' = handling
        /\ \A s \in Subs \ {o} : sub'[s] = sub[s]
    BY <1>0, <1>9 DEF Leave, LeaveRemote
  <2> QED BY <1>0, <1>1, <2>1 DEF BegunPart
<1>10. CASE \/ ConnectQuery \/ Lose \/ HandleError
            \/ \E o \in Subs : FirstTime(o) \/ Unsubscribe(o)
  <2>1. \A s \in Subs : sub'[s].pc = sub[s].pc
    BY <1>10, QuietCalls DEF Alike
  <2>2. update' = update /\ (handling' = handling)
    BY <1>10 DEF ConnectQuery, Lose, HandleError, FirstTime, Unsubscribe
  <2> QED BY <1>1, <2>1, <2>2 DEF BegunPart
<1>11. CASE update' = update /\ sub' = sub /\ handling' = handling
  BY <1>1, <1>11 DEF BegunPart
<1>12. \/ \E c \in Callers : BeginUpdate(c) \/ EndUpdate(c)
       \/ FlushWrites \/ Fulfill \/ \E o \in Subs : MountSub(o)
       \/ Write \/ Mark \/ HandleData
       \/ \E o \in Subs : Subscribe(o) \/ Leave(o) \/ LeaveRemote(o)
       \/ ConnectQuery \/ Lose \/ HandleError
       \/ \E o \in Subs : FirstTime(o) \/ Unsubscribe(o)
       \/ update' = update /\ sub' = sub /\ handling' = handling
  BY DEF vars, Next, Connecting, Updating, Handling, Subscribing, GoOn, Open, Ready,
         Reconnect, Serve, Fetch, ReadFirst, Decide, Synced, Timeout, ReadLocal
<1> QED BY <1>3, <1>4, <1>5, <1>6, <1>7, <1>8, <1>9, <1>10, <1>11, <1>12

(* The variables have their types, however the steps of subscribers,       *)
(* fetches, the handler and the views interleave.                          *)
THEOREM TypeCorrect == Spec => []TypeOK
BY TypeInit, TypeStep, PTL DEF Spec

(* The invariant of fetch.                                                 *)
LEMMA FetchInvariant == Spec => []FInv
<1>1. Init => FInv
  <2> SUFFICES ASSUME Init PROVE FInv
    OBVIOUS
  <2>1. TypeOK
    BY TypeInit
  <2>2. Answered
    BY DEF Init, Answered, NoQuery
  <2>3. BegunPart
    BY DEF Init, BegunPart, Callers
  <2>4. FetchPart
    BY DEF Init, FetchPart, NewFetch
  <2> QED BY <2>1, <2>2, <2>3, <2>4 DEF FInv
<1>2. FInv /\ [Next]_vars => FInv'
  BY TypeStep, AnsweredStep, BegunStep, FetchStep DEF FInv
<1> QED BY <1>1, <1>2, PTL DEF Spec

(* A fetch that asked the server and was not cut off by its timeout reads  *)
(* what the server answered, whatever the connection and the server do     *)
(* meanwhile, and whatever other fetches and subscribers do to the query   *)
(* that it shares with them.                                               *)
THEOREM FetchReadsTheAnswer == Spec => []FetchComplete
<1>1. FInv => FetchComplete
  BY DEF FInv, FetchPart, FetchComplete
<1> QED BY <1>1, FetchInvariant, PTL

-----------------------------------------------------------------------------
(* The invariant of subscribeWithStatus, when no answer is stored between  *)
(* the steps of an update of the views.                                    *)

(* The parts of it that are about one subscriber.                          *)
SubOK(s) == /\ Says(sub[s])
            /\ sub[s].unsubscribed => sub[s].pc = "left"
            /\ sub[s].pc \in {"left", "gone"} => sub[s].leaving

GivenOK(s) == Active(s) /\ s \notin fresh =>
                /\ view # NoRows /\ ~sub[s].local
                /\ ~changed => sub[s].results = view

WaitOK(s) == Quiet /\ Active(s) =>
               /\ s \in fresh => sub[s].local
               /\ sub[s].waiting \/ local.answer
               /\ sub[s].waiting \/ sub[s].local \/ sub[s].results.answer

SubInv == \A s \in Subs : SubOK(s) /\ GivenOK(s) /\ WaitOK(s)

LEMMA SubInvParts == LInv <=> FInv /\ QuietPart /\ ViewPart /\ SubInv
BY DEF LInv, SubInv, SubOK, GivenOK, WaitOK, SubPart, GivenPart, WaitPart

(* What has gone wrong has gone wrong: the connection is lost by Lose, and *)
(* an error is answered by Serve.                                          *)
LEMMA QuietSteps ==
  ASSUME TypeOK, QuietPart, [Next]_vars
  PROVE  QuietPart' /\ (Quiet' => Quiet /\ ~Lose /\ ~HandleError)
<1> USE DEF views, wire, link
<1>0. /\ used \in [writes : Nat, losses : Nat, errors : Nat] /\ replies \in Seq({"data", "error"})
      /\ used.losses = 0 => status # "CLOSED"
      /\ used.errors = 0 => \A k \in DOMAIN replies : replies[k] # "error"
  BY DEF TypeOK, QuietPart
<1>1. CASE Serve
  <2>1. \/ used' = used /\ (replies' = replies \/ replies' = Append(replies, "data"))
        \/ used' = [used EXCEPT !.errors = @ + 1]
    BY <1>1 DEF Serve
  <2>2. CASE used' = used /\ (replies' = replies \/ replies' = Append(replies, "data"))
    <3>1. used.errors = 0 => \A k \in DOMAIN replies' : replies'[k] # "error"
      BY <1>0, <2>2
    <3> QED BY <1>0, <1>1, <2>2, <3>1 DEF Serve, Lose, HandleError, QuietPart, Quiet
  <2>3. CASE used' = [used EXCEPT !.errors = @ + 1]
    <3>1. used'.errors # 0 /\ used'.losses = used.losses
      BY <1>0, <2>3
    <3> QED BY <1>0, <1>1, <3>1 DEF Serve, QuietPart, Quiet
  <2> QED BY <2>1, <2>2, <2>3
<1>2. CASE Lose
  <2>1. used'.losses # 0 /\ used'.errors = used.errors /\ replies' = <<>>
    BY <1>0, <1>2 DEF Lose
  <2> QED BY <2>1 DEF QuietPart, Quiet
<1>3. CASE HandleError
  <2>1. used' = used /\ status' = status /\ replies # <<>> /\ Head(replies) = "error"
        /\ replies' = Tail(replies)
    BY <1>3 DEF HandleError
  <2>2. 1 \in DOMAIN replies /\ replies[1] = "error"
    BY <1>0, <2>1
  <2>3. used.errors # 0
    BY <1>0, <2>2
  <2> QED BY <1>0, <2>1, <2>3 DEF QuietPart, Quiet
<1>4. CASE HandleData
  <2>1. used' = used /\ status' = status /\ replies # <<>> /\ replies' = Tail(replies)
        /\ Head(replies) = "data"
    BY <1>4 DEF HandleData
  <2>2. used.errors = 0 => \A k \in DOMAIN replies' : replies'[k] # "error"
    BY <1>0, <2>1
  <2> QED BY <1>0, <1>3, <2>1, <2>2 DEF QuietPart, Quiet, HandleError, Lose
<1>5. CASE /\ used'.losses = used.losses /\ used'.errors = used.errors
           /\ replies' = replies /\ (status' = "CLOSED" => status = "CLOSED")
  <2>1. ~Lose /\ ~HandleError
    BY <1>0, <1>5 DEF Lose, HandleError
  <2> QED BY <1>0, <1>5, <2>1 DEF QuietPart, Quiet
<1>6. \/ Serve \/ Lose \/ HandleError \/ HandleData
      \/ /\ used'.losses = used.losses /\ used'.errors = used.errors
         /\ replies' = replies /\ (status' = "CLOSED" => status = "CLOSED")
  <2>1. CASE Write
    BY <1>0, <2>1 DEF Write
  <2>2. CASE ~Write /\ ~Serve /\ ~Lose /\ ~HandleError /\ ~HandleData
    BY <2>2 DEF vars, Next, Connecting, Updating, Handling, Subscribing, GoOn, ConnectQuery, Open,
           Ready, Reconnect, BeginUpdate, EndUpdate, FlushWrites, Mark, Fulfill,
           Subscribe, FirstTime, MountSub, Unsubscribe, Leave, LeaveRemote, Fetch, ReadFirst,
           Decide, Synced, Timeout, ReadLocal
  <2> QED BY <2>1, <2>2
<1> QED BY <1>1, <1>2, <1>3, <1>4, <1>5, <1>6

(* An update of the views that runs has the answer, if it is there.        *)
LEMMA ViewStep ==
  ASSUME ~Overlap, TypeOK, ViewPart, [Next]_vars
  PROVE  ViewPart'
<1> USE DEF views, wire, link
<1>0. /\ update \in [Callers -> {"no", "wait", "run", "flush"}] /\ local \in RowsType
      /\ local # NoRows
      /\ \A c \in Callers : update[c] = "run" => taken # NoRows /\ (local.answer => taken.answer)
      /\ \A c \in Callers : update[c] = "flush" /\ local.answer => view = NoRows \/ view.answer
      /\ "handler" \in Callers /\ "writer" \in Callers /\ Subs \subseteq Callers
  BY DEF TypeOK, ViewPart, Callers
<1> DEFINE Fewer == \A c \in Callers : update'[c] = "no" \/ update'[c] = "wait" \/ update'[c] = update[c]
<1>1. CASE Fewer /\ local' # NoRows /\ local'.answer = local.answer
           /\ taken' = taken /\ (view' = view \/ view' = NoRows)
  BY <1>0, <1>1 DEF ViewPart
<1>2. CASE HandleData
  <2>1. /\ \A c \in Callers : update'[c] \notin {"run", "flush"}
        /\ local' = [local EXCEPT !.answer = TRUE]
    BY <1>2 DEF HandleData, Calm
  <2>2. local'.answer
    BY <1>0, <2>1 DEF RowsType
  <2>3. local' # NoRows
    BY <2>2 DEF NoRows, Rows
  <2> QED BY <2>1, <2>3 DEF ViewPart
<1>3. CASE Write
  <2>1. /\ local' = [local EXCEPT !.writes = local.writes + 1]
        /\ update' = [update EXCEPT !["writer"] = "wait"] /\ taken' = taken /\ view' = view
    BY <1>3 DEF Write
  <2>2. local'.writes = local.writes + 1 /\ local.writes \in Nat /\ local'.answer = local.answer
    BY <1>0, <2>1 DEF RowsType
  <2>3. local'.writes # 0
    BY <2>2
  <2>4. local' # NoRows
    BY <2>3 DEF NoRows, Rows
  <2> QED BY <1>0, <1>1, <2>1, <2>2, <2>4
<1>4. ASSUME NEW c \in Callers, BeginUpdate(c) PROVE ViewPart'
  <2>1. /\ \A d \in Callers : update[d] # "run"
        /\ update' = [update EXCEPT ![c] = "run"] /\ taken' = local
        /\ local' = local /\ view' = view
    BY <1>4 DEF BeginUpdate
  <2> QED BY <1>0, <2>1 DEF ViewPart
<1>5. ASSUME NEW c \in Callers, EndUpdate(c) PROVE ViewPart'
  <2>1. /\ update[c] = "run" /\ update' = [update EXCEPT ![c] = "flush"]
        /\ local' = local /\ taken' = taken
        /\ view' \in {view, local, taken} /\ (view' = view => view = NoRows \/ view = taken \/ view = local)
    BY <1>5 DEF EndUpdate
  <2>2. local.answer => view' = NoRows \/ view'.answer
    BY <1>0, <2>1
  <2>3. \A d \in Callers : update'[d] = "run" => update[d] = "run"
    BY <1>0, <2>1
  <2> QED BY <1>0, <2>1, <2>2, <2>3 DEF ViewPart
<1>6. CASE FlushWrites \/ Fulfill \/ \E o \in Subs : MountSub(o)
  <2>1. Fewer /\ local' = local /\ taken' = taken /\ view' = view
    BY <1>0, <1>6 DEF FlushWrites, Fulfill, MountSub, Flushed
  <2> QED BY <1>0, <1>1, <2>1
<1>7. CASE Mark \/ \E o \in Subs : Subscribe(o)
  <2>1. Fewer /\ local' = local /\ taken' = taken /\ view' = view
    BY <1>0, <1>7 DEF Mark, Subscribe
  <2> QED BY <1>0, <1>1, <2>1
<1>8. CASE \E o \in Subs : Leave(o)
  <2>1. update' = update /\ local' = local /\ taken' = taken /\ (view' = view \/ view' = NoRows)
    BY <1>8 DEF Leave
  <2> QED BY <1>0, <1>1, <2>1
<1>9. CASE UNCHANGED <<update, local, taken, view>>
  BY <1>0, <1>1, <1>9
<1>10. \/ HandleData \/ Write \/ \E c \in Callers : BeginUpdate(c) \/ EndUpdate(c)
       \/ FlushWrites \/ Fulfill \/ \E o \in Subs : MountSub(o)
       \/ Mark \/ \E o \in Subs : Subscribe(o)
       \/ \E o \in Subs : Leave(o)
       \/ UNCHANGED <<update, local, taken, view>>
  BY DEF vars, Next, Connecting, Updating, Handling, Subscribing, GoOn, ConnectQuery, Open, Ready,
         Lose, Reconnect, Serve, HandleError, FirstTime, Unsubscribe, LeaveRemote, Fetch,
         ReadFirst, Decide, Synced, Timeout, ReadLocal
<1> QED BY <1>2, <1>3, <1>4, <1>5, <1>6, <1>7, <1>8, <1>9, <1>10

(* A step that leaves the views and the database as they are, and what a   *)
(* subscriber waits for, if all is quiet still.                            *)
LEMMA CalmSub ==
  ASSUME TypeOK, NEW s \in Subs, SubOK(s), GivenOK(s), WaitOK(s), Quiet' => Quiet,
         Alike(sub[s], sub'[s]), sub'[s].results = sub[s].results, sub'[s].local => sub[s].local,
         Quiet' => sub'[s].local = sub[s].local /\ sub'[s].waiting = sub[s].waiting,
         view' = view, changed' = changed, fresh' = fresh, local.answer => local'.answer
  PROVE  SubOK(s)' /\ GivenOK(s)' /\ WaitOK(s)'
<1>1. SubOK(s)'
  BY DEF SubOK, Alike, Says, Fetching
<1>2. GivenOK(s)'
  BY DEF GivenOK, Active, Alike
<1>3. WaitOK(s)'
  BY DEF WaitOK, Active, Alike
<1> QED BY <1>1, <1>2, <1>3

(* A flush of the views.                                                   *)
LEMMA FlushedSub ==
  ASSUME FInv, ViewPart, NEW s \in Subs, SubOK(s), GivenOK(s), WaitOK(s), Quiet' => Quiet,
         FlushWrites \/ Fulfill \/ \E o \in Subs : MountSub(o)
  PROVE  SubOK(s)' /\ GivenOK(s)' /\ WaitOK(s)'
<1> DEFINE b == Broadcast(sub)[s]
<1>0. /\ TypeOK /\ BegunPart /\ Answered
      /\ sub[s] \in SubType /\ view \in RowsType
  BY DEF FInv, TypeOK
<1>1. /\ sub'[s] \in SubType /\ sub'[s].results = b.results /\ sub'[s].local = b.local
      /\ Says(sub[s]) => Says(sub'[s])
      /\ sub'[s].unsubscribed = sub[s].unsubscribed
      /\ sub[s].leaving => sub'[s].leaving
      /\ sub'[s].waiting = b.waiting \/ (Fulfill /\ sub'[s].waiting = FALSE)
      /\ sub'[s].pc = sub[s].pc \/ (sub[s].pc = "update" /\ sub'[s].pc = "on")
  BY <1>0, FlushCalls
<1>2. /\ s \notin Listening => b = sub[s]
      /\ s \in Listening /\ ~sub[s].unsubscribed =>
           /\ b.results = view /\ b.local = FALSE
           /\ b.waiting = IF sub[s].remote THEN query.state # "FULFILLED" ELSE sub[s].waiting
  BY <1>0, BroadcastFacts
<1>3. PICK c \in Callers :
        /\ update[c] = "flush" /\ fresh' = IF view = NoRows THEN fresh ELSE {}
        /\ changed' = FALSE /\ view' = view /\ local' = local
        /\ Fulfill => local.answer
  <2>1. CASE FlushWrites /\ ~Fulfill
    BY <2>1 DEF FlushWrites, Flushed, Callers
  <2>2. CASE Fulfill
    <3>1. local.answer
      BY <1>0, <2>2 DEF Fulfill, Flushed, BegunPart, Answered
    <3> QED BY <2>2, <3>1 DEF Fulfill, Flushed, Callers
  <2>3. CASE (\E o \in Subs : MountSub(o)) /\ ~Fulfill
    BY <2>3 DEF MountSub, Flushed, Callers
  <2> QED BY <2>1, <2>2, <2>3
<1>4. local.answer => view = NoRows \/ view.answer
  BY <1>3 DEF ViewPart
<1>5. SubOK(s)'
  <2>1. SubOK(s) /\ (sub'[s].unsubscribed => sub'[s].pc = "left")
    BY <1>1 DEF SubOK
  <2> QED BY <1>1, <2>1 DEF SubOK, Says, Fetching
<1>6. CASE ~Active(s)
  <2>1. ~Active(s)'
    BY <1>1, <1>6 DEF Active
  <2> QED BY <1>5, <2>1 DEF GivenOK, WaitOK
<1>7. CASE Active(s) /\ view = NoRows
  <2>1. s \in fresh /\ s \notin Listening
    BY <1>7 DEF GivenOK, Listening
  <2>2. b = sub[s] /\ fresh' = fresh /\ local' = local
    BY <1>2, <1>3, <1>7, <2>1
  <2>3. GivenOK(s)'
    BY <2>1, <2>2 DEF GivenOK
  <2>4. WaitOK(s)'
    <3>1. Quiet' => sub[s].local /\ (sub[s].waiting \/ local.answer)
      BY <1>7, <2>1 DEF WaitOK
    <3> QED BY <1>1, <1>3, <2>2, <3>1 DEF WaitOK
  <2> QED BY <1>5, <2>3, <2>4
<1>8. CASE Active(s) /\ view # NoRows
  <2>1. b.results = view /\ b.local = FALSE
    <3>1. CASE s \in Listening
      <4>1. ~sub[s].unsubscribed
        BY <1>8 DEF SubOK, Active
      <4> QED BY <1>2, <3>1, <4>1
    <3>2. CASE s \notin Listening
      <4>1. ~changed /\ s \notin fresh
        BY <1>8, <3>2 DEF Listening, Active
      <4> QED BY <1>0, <1>2, <1>8, <3>2, <4>1 DEF GivenOK, SubType
    <3> QED BY <3>1, <3>2
  <2>2. fresh' = {} /\ changed' = FALSE /\ view' = view /\ local' = local
    BY <1>3, <1>8
  <2>3. GivenOK(s)'
    BY <1>1, <1>8, <2>1, <2>2 DEF GivenOK
  <2>4. Quiet => sub'[s].waiting \/ local.answer
    <3>1. Quiet => sub[s].waiting \/ local.answer
      BY <1>8 DEF WaitOK
    <3>2. query.state = "FULFILLED" => local.answer
      BY <1>0 DEF Answered
    <3>3. ~sub[s].unsubscribed
      BY <1>8 DEF SubOK, Active
    <3>4. Quiet => b.waiting \/ local.answer
      BY <1>2, <3>1, <3>2, <3>3
    <3> QED BY <1>1, <1>3, <3>4
  <2>5. WaitOK(s)'
    BY <1>1, <1>4, <1>8, <2>1, <2>2, <2>4 DEF WaitOK
  <2> QED BY <1>5, <2>3, <2>5
<1> QED BY <1>6, <1>7, <1>8

LEMMA SubStep ==
  ASSUME ~Overlap, FInv, QuietPart, ViewPart, SubInv, [Next]_vars
  PROVE  SubInv'
<1> USE DEF views, wire, link
<1>0. TypeOK /\ sub \in [Subs -> SubType] /\ (local.answer => local'.answer)
  BY AnswerStays DEF FInv, TypeOK
<1>1. Quiet' => Quiet /\ ~Lose /\ ~HandleError
  BY <1>0, QuietSteps
<1> SUFFICES ASSUME NEW s \in Subs PROVE SubOK(s)' /\ GivenOK(s)' /\ WaitOK(s)'
  BY DEF SubInv
<1>2. SubOK(s) /\ GivenOK(s) /\ WaitOK(s)
  BY DEF SubInv
<1>3. CASE sub'[s] = sub[s] /\ view' = view /\ changed' = changed /\ fresh' = fresh
  <2>1. Alike(sub[s], sub'[s])
    BY <1>0, <1>3 DEF Alike
  <2> QED BY <1>0, <1>1, <1>2, <1>3, <2>1, CalmSub
<1>4. CASE \/ ConnectQuery \/ Lose \/ HandleError
           \/ \E o \in Subs : FirstTime(o) \/ Unsubscribe(o)
  <2>1. /\ Alike(sub[s], sub'[s]) /\ sub'[s].results = sub[s].results
        /\ sub'[s].local => sub[s].local
        /\ Lose \/ HandleError \/ (sub'[s].local = sub[s].local /\ sub'[s].waiting = sub[s].waiting)
    BY <1>0, <1>4, QuietCalls
  <2>2. view' = view /\ changed' = changed /\ fresh' = fresh
    BY <1>4 DEF ConnectQuery, Lose, HandleError, FirstTime, Unsubscribe
  <2> QED BY <1>0, <1>1, <1>2, <2>1, <2>2, CalmSub
<1>5. CASE FlushWrites \/ Fulfill \/ \E o \in Subs : MountSub(o)
  BY <1>1, <1>2, <1>5, FlushedSub
<1>6. ASSUME NEW c \in Callers, EndUpdate(c) PROVE SubOK(s)' /\ GivenOK(s)' /\ WaitOK(s)'
  <2>1. /\ sub' = sub /\ fresh' = fresh /\ local' = local /\ used' = used /\ update[c] = "run"
        /\ \/ view' = view /\ changed' = changed
           \/ view = NoRows
           \/ view' = taken /\ changed' = (changed \/ taken # view)
    BY <1>6 DEF EndUpdate
  <2>2. taken # NoRows
    BY <2>1 DEF ViewPart
  <2>3. GivenOK(s)'
    BY <1>0, <1>2, <2>1, <2>2 DEF GivenOK, Active, TypeOK
  <2>4. SubOK(s)'
    BY <1>2, <2>1 DEF SubOK, Says, Fetching
  <2>5. WaitOK(s)'
    BY <1>2, <2>1 DEF WaitOK, Active, Quiet
  <2> QED BY <2>3, <2>4, <2>5
<1>7. CASE HandleData \/ Write
  <2>1. sub' = sub /\ view' = view /\ changed' = changed /\ fresh' = fresh
    BY <1>7 DEF HandleData, Write
  <2> QED BY <1>3, <2>1
<1>8. ASSUME NEW o \in Subs, Subscribe(o) PROVE SubOK(s)' /\ GivenOK(s)' /\ WaitOK(s)'
  <2>1. /\ \A p \in Subs \ {o} : sub'[p] = sub[p]
        /\ sub'[o].pc = "update" /\ Says(sub'[o]) /\ sub'[o].local /\ ~sub'[o].unsubscribed
        /\ status \in {"OPEN", "CONNECTING"} => sub'[o].waiting
    BY <1>0, <1>8, SubscribeFacts
  <2>2. /\ fresh' = fresh \union {o} /\ view' = view /\ changed' = changed /\ local' = local
        /\ used' = used
    BY <1>8 DEF Subscribe
  <2>3. CASE s = o
    <3>1. SubOK(s)'
      BY <2>1, <2>3 DEF SubOK, Says, Fetching
    <3>2. GivenOK(s)'
      BY <2>2, <2>3 DEF GivenOK
    <3>3. Quiet' => sub'[s].waiting
      BY <1>0, <2>1, <2>2, <2>3 DEF Quiet, QuietPart, TypeOK
    <3> QED BY <2>1, <2>3, <3>1, <3>2, <3>3 DEF WaitOK
  <2>4. CASE s # o
    <3>1. sub'[s] = sub[s] /\ (s \in fresh' <=> s \in fresh)
      BY <2>1, <2>2, <2>4
    <3>2. SubOK(s)'
      BY <1>2, <3>1 DEF SubOK, Says, Fetching
    <3>3. GivenOK(s)'
      BY <1>2, <2>2, <3>1 DEF GivenOK, Active
    <3>4. WaitOK(s)'
      BY <1>2, <2>2, <3>1 DEF WaitOK, Active, Quiet
    <3> QED BY <3>2, <3>3, <3>4
  <2> QED BY <2>3, <2>4
<1>9. ASSUME NEW o \in Subs, Leave(o) PROVE SubOK(s)' /\ GivenOK(s)' /\ WaitOK(s)'
  <2>1. PICK t : t = [sub[o] EXCEPT !.pc = "left", !.unsubscribed = TRUE]
    OBVIOUS
  <2>2. /\ sub' = [sub EXCEPT ![o] = t] /\ sub[o].leaving
        /\ fresh' = fresh \ {o} /\ local' = local /\ used' = used
        /\ \/ \A p \in Subs \ {o} : sub[p].pc \notin {"update", "on"}
           \/ view' = view /\ changed' = changed
    BY <1>0, <1>9, <2>1 DEF Leave
  <2>3. CASE s = o
    <3>1. sub[o] \in SubType
      BY <1>0
    <3>2. /\ t.pc = "left" /\ t.leaving = sub[o].leaving /\ t.told = sub[o].told
          /\ t.results = sub[o].results /\ t.local = sub[o].local
          /\ t.waiting = sub[o].waiting /\ t.initial = sub[o].initial
      BY <2>1, <3>1 DEF SubType
    <3>3. sub'[s] = t
      BY <1>0, <2>2, <2>3
    <3>4. SubOK(s)'
      BY <1>2, <2>2, <2>3, <3>2, <3>3 DEF SubOK, Says, Fetching
    <3> QED BY <3>2, <3>3, <3>4 DEF GivenOK, WaitOK, Active
  <2>4. CASE s # o
    <3>1. sub'[s] = sub[s] /\ (s \in fresh' <=> s \in fresh)
      BY <1>0, <2>2, <2>4
    <3>2. SubOK(s)'
      BY <1>2, <3>1 DEF SubOK, Says, Fetching
    <3>3. GivenOK(s)'
      BY <1>2, <2>2, <2>4, <3>1 DEF GivenOK, Active
    <3>4. WaitOK(s)'
      BY <1>2, <2>2, <3>1 DEF WaitOK, Active, Quiet
    <3> QED BY <3>2, <3>3, <3>4
  <2> QED BY <2>3, <2>4
<1>10. ASSUME NEW o \in Subs, LeaveRemote(o) PROVE SubOK(s)' /\ GivenOK(s)' /\ WaitOK(s)'
  <2>1. PICK t : t = [New EXCEPT !.pc = "gone", !.leaving = TRUE]
    OBVIOUS
  <2>2. sub' = [sub EXCEPT ![o] = t] /\ view' = view /\ changed' = changed /\ fresh' = fresh
    BY <1>10, <2>1 DEF LeaveRemote
  <2>3. CASE s = o
    <3>1. sub'[s] = t
      BY <1>0, <2>2, <2>3
    <3>2. New \in SubType /\ Says(New) /\ ~New.unsubscribed
      BY NewTyped DEF New
    <3>3. /\ t.pc = "gone" /\ t.leaving /\ t.told = New.told /\ ~t.unsubscribed
          /\ t.results = New.results /\ t.local = New.local
          /\ t.waiting = New.waiting /\ t.initial = New.initial
      BY <2>1, <3>2 DEF SubType
    <3>4. SubOK(s)'
      BY <3>1, <3>2, <3>3 DEF SubOK, Says, Fetching
    <3> QED BY <3>1, <3>3, <3>4 DEF GivenOK, WaitOK, Active
  <2>4. CASE s # o
    BY <1>0, <1>3, <2>2, <2>4
  <2> QED BY <2>3, <2>4
<1>11. CASE UNCHANGED <<sub, view, changed, fresh>>
  BY <1>3, <1>11
<1>12. \/ ConnectQuery \/ Lose \/ HandleError
       \/ \E o \in Subs : FirstTime(o) \/ Unsubscribe(o)
       \/ FlushWrites \/ Fulfill \/ \E o \in Subs : MountSub(o)
       \/ \E c \in Callers : EndUpdate(c)
       \/ HandleData \/ Write
       \/ \E o \in Subs : Subscribe(o) \/ Leave(o) \/ LeaveRemote(o)
       \/ UNCHANGED <<sub, view, changed, fresh>>
  BY DEF vars, Next, Connecting, Updating, Handling, Subscribing, GoOn, Open, Ready, Reconnect,
         Serve, BeginUpdate, Mark, Fetch, ReadFirst, Decide, Synced, Timeout, ReadLocal
<1> QED BY <1>4, <1>5, <1>6, <1>7, <1>8, <1>9, <1>10, <1>11, <1>12

(* The invariant, of the specification.                                    *)
LEMMA LoadedInvariant == ASSUME ~Overlap PROVE Spec => []LInv
<1>1. Init => QuietPart /\ ViewPart /\ SubInv
  <2> SUFFICES ASSUME Init PROVE QuietPart /\ ViewPart /\ SubInv
    OBVIOUS
  <2>1. QuietPart
    BY DEF Init, QuietPart
  <2>2. ViewPart
    BY DEF Init, ViewPart, NoRows, Rows
  <2>3. ASSUME NEW s \in Subs PROVE SubOK(s) /\ GivenOK(s) /\ WaitOK(s)
    <3>1. sub[s] = New /\ New.pc = "idle" /\ ~New.unsubscribed /\ Says(New)
      BY NewTyped DEF Init, New
    <3> QED BY <3>1 DEF SubOK, GivenOK, WaitOK, Active
  <2> QED BY <2>1, <2>2, <2>3 DEF SubInv
<1>2. QuietPart /\ ViewPart /\ SubInv /\ FInv /\ [Next]_vars => (QuietPart /\ ViewPart /\ SubInv)'
  BY QuietSteps, ViewStep, SubStep DEF FInv
<1> QED BY <1>1, <1>2, FetchInvariant, SubInvParts, PTL DEF Spec

(* Results that are shown as loaded hold the answer of the server, when    *)
(* the client had not seen the query before, the connection is not lost,   *)
(* the server does not fail, and no answer is stored between the steps of  *)
(* an update of the views (fetching.mdx on the loading states).            *)
THEOREM LoadedHasTheAnswer == ASSUME ~Overlap PROVE Spec => []LoadedHonest
<1>1. ASSUME LInv PROVE LoadedHonest
  <2> SUFFICES ASSUME NEW s \in Subs, sub[s].pc # "idle", ~sub[s].leaving, sub[s].initial,
                      used.losses + used.errors = 0, ~sub[s].told.fetching
               PROVE  sub[s].told.results.answer
    BY DEF LoadedHonest
  <2>1. TypeOK /\ SubPart /\ WaitPart
    BY <1>1 DEF LInv, FInv
  <2>2. sub[s].told.fetching = Fetching(sub[s]) /\ sub[s].told.results = sub[s].results
    BY <2>1 DEF SubPart, Says
  <2>3. Quiet
    BY <2>1 DEF TypeOK, Quiet
  <2>4. Active(s)
    BY <2>1 DEF TypeOK, SubPart, Active, SubType
  <2>5. sub[s].waiting \/ sub[s].local \/ sub[s].results.answer
    BY <2>1, <2>3, <2>4 DEF WaitPart
  <2> QED BY <2>2, <2>5 DEF Fetching
<1> QED BY <1>1, LoadedInvariant, PTL

-----------------------------------------------------------------------------
(* Pages.  The places of rows.                                             *)

(* The rows before a row, and its place: the first is 1.                   *)
Behind(S, r) == {s \in S : Before(s, r)}
Place(S, r) == Cardinality(Behind(S, r)) + 1

(* In a finite set with a strict total order, whose lower[r] is the set of *)
(* what is below r, each element has a rank of its own and each rank up to *)
(* the size of the set is of an element.                                   *)
LEMMA Ranks ==
  ASSUME NEW S, IsFiniteSet(S), NEW lower \in [S -> SUBSET S],
         \A r \in S : r \notin lower[r],
         \A r, s \in S : s \in lower[r] => lower[s] \subseteq lower[r],
         \A r, s \in S : r # s => s \in lower[r] \/ r \in lower[s]
  PROVE  /\ Cardinality(S) \in Nat
         /\ \A r \in S : Cardinality(lower[r]) \in 0..(Cardinality(S) - 1)
         /\ \A r, s \in S : Cardinality(lower[r]) = Cardinality(lower[s]) => r = s
         /\ \A n \in 1..Cardinality(S) : \E r \in S : Cardinality(lower[r]) = n - 1
<1>1. Cardinality(S) \in Nat
  BY FS_CardinalityType
<1>2. ASSUME NEW r \in S PROVE Cardinality(lower[r]) \in 0..(Cardinality(S) - 1)
  <2>1. lower[r] \in SUBSET S /\ lower[r] # S
    OBVIOUS
  <2>2. /\ IsFiniteSet(lower[r]) /\ Cardinality(lower[r]) <= Cardinality(S)
        /\ Cardinality(S) = Cardinality(lower[r]) => S = lower[r]
    BY <2>1, FS_Subset
  <2>3. Cardinality(lower[r]) \in Nat
    BY <2>2, FS_CardinalityType
  <2>4. QED
    BY <1>1, <2>1, <2>2, <2>3
<1>3. ASSUME NEW r \in S, NEW s \in S, s \in lower[r]
      PROVE  Cardinality(lower[s]) # Cardinality(lower[r])
  <2>1. lower[s] \in SUBSET lower[r] /\ lower[s] # lower[r]
    BY <1>3
  <2>2. IsFiniteSet(lower[r])
    BY FS_Subset
  <2>3. Cardinality(lower[r]) = Cardinality(lower[s]) => lower[r] = lower[s]
    BY <2>1, <2>2, FS_Subset
  <2>4. QED
    BY <2>1, <2>3
<1>4. \A r, s \in S : Cardinality(lower[r]) = Cardinality(lower[s]) => r = s
  BY <1>3
<1> DEFINE f == [r \in S |-> Cardinality(lower[r]) + 1]
<1>5. f \in Injection(S, 1..Cardinality(S))
  <2>1. f \in [S -> 1..Cardinality(S)]
    BY <1>1, <1>2
  <2>2. \A r, s \in S : f[r] = f[s] => r = s
    BY <1>2, <1>4
  <2>3. QED
    BY <2>1, <2>2 DEF Injection, IsInjective
<1>6. IsFiniteSet(1..Cardinality(S)) /\ Cardinality(1..Cardinality(S)) = Cardinality(S)
  <2>1. /\ IsFiniteSet(1..Cardinality(S))
        /\ Cardinality(1..Cardinality(S)) =
             IF 1 > Cardinality(S) THEN 0 ELSE Cardinality(S) - 1 + 1
    BY <1>1, FS_Interval
  <2>2. QED
    BY <1>1, <2>1
<1>7. f \in Surjection(S, 1..Cardinality(S))
  BY <1>5, <1>6, FS_Injection
<1>8. ASSUME NEW n \in 1..Cardinality(S) PROVE \E r \in S : Cardinality(lower[r]) = n - 1
  <2>1. PICK r \in S : f[r] = n
    BY <1>7 DEF Surjection
  <2>2. Cardinality(lower[r]) = n - 1
    BY <1>1, <1>2, <2>1
  <2>3. QED
    BY <2>2
<1>9. QED
  BY <1>1, <1>2, <1>4, <1>8

(* The order of the caller is a strict total order of rows.                *)
LEMMA BeforeOrders ==
  /\ \A r \in PageRows : ~Before(r, r)
  /\ \A r, s \in PageRows : Before(r, s) => ~Before(s, r)
  /\ \A r, s \in PageRows : r = s \/ Before(r, s) \/ Before(s, r)
  /\ \A r, s, t \in PageRows : Before(r, s) /\ Before(s, t) => Before(r, t)
<1>1. Keys \subseteq Nat /\ Ids \subseteq Nat
  BY PagesAssumption
<1>2. \A r \in PageRows : r.key \in Nat /\ r.id \in Nat
  BY <1>1 DEF PageRows
<1>3. \A r, s \in PageRows : r.key = s.key /\ r.id = s.id => r = s
  BY DEF PageRows
<1>4. QED
  BY <1>2, <1>3 DEF Before

(* Sorted puts each row at its place.                                      *)
LEMMA SortedPlaces ==
  ASSUME NEW S \in SUBSET PageRows, IsFiniteSet(S)
  PROVE  LET all == Sorted(S, Before)
         IN  /\ Cardinality(S) \in Nat
             /\ all \in [1..Cardinality(S) -> S]
             /\ \A n \in 1..Cardinality(S) : Place(S, all[n]) = n
             /\ \A r \in S : Place(S, r) \in 1..Cardinality(S) /\ all[Place(S, r)] = r
<1> DEFINE lower == [r \in S |-> Behind(S, r)]
<1>1. /\ lower \in [S -> SUBSET S]
      /\ \A r \in S : lower[r] = Behind(S, r)
  BY DEF Behind
<1>2. /\ \A r \in S : r \notin lower[r]
      /\ \A r, s \in S : s \in lower[r] => lower[s] \subseteq lower[r]
      /\ \A r, s \in S : r # s => s \in lower[r] \/ r \in lower[s]
  BY BeforeOrders DEF Behind
<1> HIDE DEF lower
<1>3. /\ Cardinality(S) \in Nat
      /\ \A r \in S : Cardinality(lower[r]) \in 0..(Cardinality(S) - 1)
      /\ \A r, s \in S : Cardinality(lower[r]) = Cardinality(lower[s]) => r = s
      /\ \A n \in 1..Cardinality(S) : \E r \in S : Cardinality(lower[r]) = n - 1
  BY <1>1, <1>2, Ranks
<1> DEFINE all == Sorted(S, Before)
<1>4. all = [n \in 1..Cardinality(S) |-> CHOOSE r \in S : Cardinality(lower[r]) = n - 1]
  <2>1. \A r \in S : Cardinality({s \in S : Before(s, r)}) = Cardinality(lower[r])
    BY <1>1 DEF Behind
  <2>2. QED
    BY <2>1 DEF Sorted
<1>5. ASSUME NEW n \in 1..Cardinality(S)
      PROVE  all[n] \in S /\ Cardinality(lower[all[n]]) = n - 1
  BY <1>3, <1>4
<1> HIDE DEF all
<1>6. all \in [1..Cardinality(S) -> S]
  BY <1>4, <1>5
<1>7. \A r \in S : Place(S, r) = Cardinality(lower[r]) + 1
  BY <1>1 DEF Place
<1>8. \A n \in 1..Cardinality(S) : Place(S, all[n]) = n
  BY <1>3, <1>5, <1>7
<1>9. ASSUME NEW r \in S
      PROVE  Place(S, r) \in 1..Cardinality(S) /\ all[Place(S, r)] = r
  <2>1. Place(S, r) \in 1..Cardinality(S) /\ Cardinality(lower[r]) = Place(S, r) - 1
    BY <1>3, <1>7
  <2>2. QED
    BY <1>3, <1>5, <2>1
<1>10. QED
  BY <1>3, <1>6, <1>8, <1>9 DEF all

From(S, a) == {r \in S : r = a \/ Before(a, r)}
UpTo(S, a) == {r \in S : r = a \/ Before(r, a)}

(* From a row on, and up to a row, the places of a set are those of the    *)
(* whole: they start at the row's, or at the first.                        *)
LEMMA SuffixPlaces ==
  ASSUME NEW S \in SUBSET PageRows, IsFiniteSet(S), NEW a \in S
  PROVE  LET all == Sorted(S, Before)
             k == Place(S, a)
         IN  /\ Cardinality(From(S, a)) = Cardinality(S) - k + 1
             /\ Sorted(From(S, a), Before) =
                  [n \in 1..(Cardinality(S) - k + 1) |-> all[n + k - 1]]
<1> DEFINE all == Sorted(S, Before)
           k == Place(S, a)
           B == Behind(S, a)
           T == From(S, a)
           part == Sorted(T, Before)
<1>0. T = {r \in S : r = a \/ Before(a, r)}
  BY DEF From
<1> HIDE DEF T
<1>1. IsFiniteSet(B) /\ IsFiniteSet(T) /\ T \in SUBSET PageRows /\ T \in SUBSET S /\ B \in SUBSET S
  BY <1>0, FS_Subset DEF Behind
<1>2. /\ Cardinality(S) \in Nat /\ k \in 1..Cardinality(S)
      /\ all \in [1..Cardinality(S) -> S]
      /\ \A r \in S : Place(S, r) \in 1..Cardinality(S) /\ all[Place(S, r)] = r
  BY SortedPlaces
<1>3. Cardinality(B) = k - 1 /\ Cardinality(B) \in Nat
  BY <1>1, FS_CardinalityType DEF Place
<1>4. Cardinality(T) = Cardinality(S) - k + 1
  <2>1. S = B \cup T /\ B \cap T = {}
    BY <1>0, BeforeOrders DEF Behind
  <2>2. Cardinality(B \cup T) = Cardinality(B) + Cardinality(T) - Cardinality(B \cap T)
    BY <1>1, FS_Union
  <2>3. Cardinality(T) \in Nat /\ Cardinality({}) = 0
    BY <1>1, FS_CardinalityType, FS_EmptySet
  <2> HIDE DEF B, k
  <2>4. Cardinality(B \cup T) = Cardinality(S) /\ Cardinality(B \cap T) = 0
    BY <2>1, <2>3
  <2>5. Cardinality(S) = Cardinality(B) + Cardinality(T)
    BY <1>3, <2>2, <2>3, <2>4
  <2>6. QED
    BY <1>2, <1>3, <2>3, <2>5
<1>5. ASSUME NEW r \in T PROVE Place(S, r) = Place(T, r) + k - 1
  <2> DEFINE C == Behind(T, r)
             D == Behind(S, r)
  <2>1. D = B \cup C /\ B \cap C = {}
    BY <1>0, <1>1, BeforeOrders DEF Behind
  <2>2. IsFiniteSet(C)
    BY <1>1, FS_Subset DEF Behind
  <2>3. Cardinality(B \cup C) = Cardinality(B) + Cardinality(C) - Cardinality(B \cap C)
    BY <1>1, <2>2, FS_Union
  <2>4. Cardinality(C) \in Nat /\ Cardinality({}) = 0
    BY <2>2, FS_CardinalityType, FS_EmptySet
  <2>5. Place(S, r) = Cardinality(D) + 1 /\ Place(T, r) = Cardinality(C) + 1
    BY DEF Place
  <2> HIDE DEF B, C, D, k
  <2>6. Cardinality(B \cup C) = Cardinality(D) /\ Cardinality(B \cap C) = 0
    BY <2>1, <2>4
  <2>7. Cardinality(D) = Cardinality(B) + Cardinality(C)
    BY <1>3, <2>3, <2>4, <2>6
  <2>8. QED
    BY <1>2, <1>3, <2>4, <2>5, <2>7
<1>6. /\ part \in [1..Cardinality(T) -> T]
      /\ \A n \in 1..Cardinality(T) : Place(T, part[n]) = n
  BY <1>1, SortedPlaces
<1> HIDE DEF part, k, B, all
<1>7. ASSUME NEW n \in 1..Cardinality(T) PROVE part[n] = all[n + k - 1]
  <2>1. part[n] \in T /\ Place(T, part[n]) = n
    BY <1>6
  <2>2. Place(S, part[n]) = n + k - 1
    BY <1>5, <2>1
  <2>3. QED
    BY <1>1, <1>2, <2>1, <2>2
<1>8. QED
  BY <1>4, <1>6, <1>7 DEF part, k, T, all

(* The same for the rows up to one.                                        *)
LEMMA PrefixPlaces ==
  ASSUME NEW S \in SUBSET PageRows, IsFiniteSet(S), NEW a \in S
  PROVE  LET all == Sorted(S, Before)
             k == Place(S, a)
         IN  /\ Cardinality(UpTo(S, a)) = k
             /\ Sorted(UpTo(S, a), Before) = [n \in 1..k |-> all[n]]
<1> DEFINE all == Sorted(S, Before)
           k == Place(S, a)
           B == Behind(S, a)
           T == UpTo(S, a)
           part == Sorted(T, Before)
<1>0. T = {r \in S : r = a \/ Before(r, a)}
  BY DEF UpTo
<1> HIDE DEF T
<1>1. IsFiniteSet(B) /\ IsFiniteSet(T) /\ T \in SUBSET PageRows /\ T \in SUBSET S
  BY <1>0, FS_Subset DEF Behind
<1>2. /\ Cardinality(S) \in Nat /\ k \in 1..Cardinality(S)
      /\ all \in [1..Cardinality(S) -> S]
      /\ \A r \in S : Place(S, r) \in 1..Cardinality(S) /\ all[Place(S, r)] = r
  BY SortedPlaces
<1>3. Cardinality(B) = k - 1 /\ Cardinality(B) \in Nat
  BY <1>1, FS_CardinalityType DEF Place
<1>4. Cardinality(T) = k
  <2>1. T = B \cup {a} /\ a \notin B
    BY <1>0, BeforeOrders DEF Behind
  <2>2. Cardinality(B \cup {a}) = Cardinality(B) + 1
    BY <1>1, <2>1, FS_AddElement
  <2> HIDE DEF B, k
  <2>3. Cardinality(T) = Cardinality(B) + 1
    BY <2>1, <2>2
  <2>4. QED
    BY <1>2, <1>3, <2>3
<1>5. ASSUME NEW r \in T PROVE Place(S, r) = Place(T, r)
  <2>1. Behind(S, r) = Behind(T, r)
    BY <1>0, <1>1, BeforeOrders DEF Behind
  <2>2. QED
    BY <2>1 DEF Place
<1>6. /\ part \in [1..Cardinality(T) -> T]
      /\ \A n \in 1..Cardinality(T) : Place(T, part[n]) = n
  BY <1>1, SortedPlaces
<1> HIDE DEF part, k, B, all
<1>7. ASSUME NEW n \in 1..Cardinality(T) PROVE part[n] = all[n]
  <2>1. part[n] \in T /\ Place(T, part[n]) = n
    BY <1>6
  <2>2. QED
    BY <1>1, <1>2, <1>5, <2>1
<1>8. QED
  BY <1>4, <1>6, <1>7 DEF part, k, T, all

(* In the direction that the query is paged in, the rows are sorted as the *)
(* caller has them, or the other way round.                                *)
LEMMA SortedAhead ==
  ASSUME NEW S \in SUBSET PageRows, IsFiniteSet(S)
  PROVE  LET all == Sorted(S, Before)
             ahead == Sorted(S, Ahead)
             n == Cardinality(S)
         IN  /\ ~Reversed => ahead = all
             /\ Reversed => ahead = [m \in 1..n |-> all[n + 1 - m]]
<1> DEFINE all == Sorted(S, Before)
           ahead == Sorted(S, Ahead)
           n == Cardinality(S)
<1>1. /\ n \in Nat
      /\ all \in [1..n -> S]
      /\ \A m \in 1..n : Place(S, all[m]) = m
      /\ \A r \in S : Place(S, r) \in 1..n /\ all[Place(S, r)] = r
  BY SortedPlaces
<1>2. ahead = [m \in 1..n |->
                 CHOOSE r \in S : Cardinality({s \in S : Ahead(s, r)}) = m - 1]
  BY SMTT(30) DEF Sorted
<1>3. all = [m \in 1..n |->
               CHOOSE r \in S : Cardinality({s \in S : Before(s, r)}) = m - 1]
  BY SMTT(30) DEF Sorted
<1>4. CASE ~Reversed
  <2>1. \A r, s \in S : Ahead(s, r) = Before(s, r)
    BY <1>4 DEF Ahead
  <2>2. \A r \in S : {s \in S : Ahead(s, r)} = {s \in S : Before(s, r)}
    BY <2>1
  <2>3. QED
    BY <1>2, <1>3, <1>4, <2>2, ZenonT(30)
<1>5. CASE Reversed
  <2>1. ASSUME NEW r \in S
        PROVE  Cardinality({s \in S : Ahead(s, r)}) = n - Place(S, r)
    <3> DEFINE A == {s \in S : Ahead(s, r)}
               B == Behind(S, r)
    <3>1. A = {s \in S : Before(r, s)}
      BY <1>5 DEF Ahead
    <3>2. S = (A \cup B) \cup {r} /\ A \cap B = {} /\ r \notin A \cup B
      BY <3>1, BeforeOrders DEF Behind
    <3>3. IsFiniteSet(A) /\ IsFiniteSet(B)
      BY FS_Subset DEF Behind
    <3>4. Place(S, r) = Cardinality(B) + 1
      BY DEF Place
    <3> HIDE DEF A, B, n
    <3>5. /\ IsFiniteSet(A \cup B)
          /\ Cardinality(A \cup B) = Cardinality(A) + Cardinality(B) - Cardinality(A \cap B)
      BY <3>3, FS_Union
    <3>6. Cardinality((A \cup B) \cup {r}) = Cardinality(A \cup B) + 1
      BY <3>2, <3>5, FS_AddElement
    <3>7. Cardinality(A) \in Nat /\ Cardinality(B) \in Nat /\ Cardinality({}) = 0
      BY <3>3, FS_CardinalityType, FS_EmptySet
    <3>8. /\ Cardinality((A \cup B) \cup {r}) = Cardinality(S)
          /\ Cardinality(A \cap B) = 0
      BY <3>2, <3>7
    <3>9. n = Cardinality(A) + Cardinality(B) + 1
      BY <3>5, <3>6, <3>7, <3>8 DEF n
    <3>10. Cardinality(A) = n - Place(S, r)
      BY <3>4, <3>7, <3>9
    <3>11. QED
      BY <3>10 DEF A
  <2> HIDE DEF n, all, ahead
  <2>2. ASSUME NEW m \in 1..n PROVE ahead[m] = all[n + 1 - m]
    <3>1. n + 1 - m \in 1..n
      BY <1>1
    <3>2. \A r \in S : Cardinality({s \in S : Ahead(s, r)}) = m - 1
                         <=> r = all[n + 1 - m]
      BY <1>1, <2>1, <3>1
    <3>3. all[n + 1 - m] \in S
      BY <1>1, <3>1
    <3>4. ahead[m] = CHOOSE r \in S : Cardinality({s \in S : Ahead(s, r)}) = m - 1
      BY <1>2
    <3>5. QED
      BY <3>2, <3>3, <3>4
  <2>3. QED
    BY <1>2, <1>5, <2>2 DEF n, all, ahead
<1>6. QED
  BY <1>4, <1>5

-----------------------------------------------------------------------------
(* The invariant of the pages.                                             *)

PageTypes ==
  /\ rows \in SUBSET PageRows /\ IsFiniteSet(rows)
  /\ descending \in BOOLEAN /\ pageDue \in BOOLEAN
  /\ direction \in {"forward", "reversed"}
  /\ rangeStart \in PageRows \union {NoRow}
  /\ rangeEnd \in PageRows \union {NoRow}
  /\ shown \in [page : Seq(PageRows), hasNext : BOOLEAN, hasPrevious : BOOLEAN]
  /\ turn \in [to : {"start", "next", "previous"}, from : Seq(PageRows), quiet : BOOLEAN]

(* A query that has a cursor asks for a row on each side of the page: the  *)
(* cursor is a row, and there is one on its other side.                    *)
PageCursor ==
  /\ after = NoRow => limit = PageSize + 1 /\ direction = "forward"
  /\ after # NoRow =>
       /\ limit = PageSize + 2
       /\ after \in rows /\ \E r \in rows : Ahead(after, r)

(* The rows at the ends of the page in the order of the caller.            *)
First == IF Reversed THEN rangeEnd ELSE rangeStart
Final == IF Reversed THEN rangeStart ELSE rangeEnd

(* A call of onResults shows the rows i + 1 to j of all of them, as it     *)
(* says; and the ends of the page are known as far as it can be turned.    *)
Shows(all, s, first, final, i, j) ==
  /\ i \in 0..Len(all) /\ j \in i..Len(all) /\ j <= i + PageSize
  /\ s.page = SubSeq(all, i + 1, j)
  /\ s.hasPrevious = (i > 0) /\ s.hasNext = (j < Len(all))
  /\ s.hasNext => j = i + PageSize /\ final = all[j]
  /\ s.hasPrevious => i < j /\ first = all[i + 1]

PageSettled ==
  ~pageDue =>
    /\ shown.hasPrevious => after # NoRow
    /\ \E i, j \in Nat : Shows(All, shown, First, Final, i, j)

(* After a move that no write followed, the query starts from the end of   *)
(* the page that was left, or was reset when that page was the second.     *)
PageTurn ==
  turn.quiet =>
    /\ turn.to = "next" =>
         direction = "forward" /\ after # NoRow /\ after = Last(turn.from)
    /\ turn.to = "previous" =>
         /\ turn.from[1] \in rows
         /\ \/ direction = "reversed" /\ after = turn.from[1]
            \/ after = NoRow /\ Place(rows, turn.from[1]) <= PageSize + 1

(* TurnsTile, in places.                                                   *)
PageTiles ==
  ~pageDue /\ turn.quiet /\ turn.from # <<>> /\ shown.page # <<>> =>
    /\ turn.to = "next" =>
         Place(rows, shown.page[1]) = Place(rows, Last(turn.from)) + 1
    /\ turn.to = "previous" =>
         \/ Place(rows, Last(shown.page)) = Place(rows, turn.from[1]) - 1
         \/ Place(rows, shown.page[1]) = 1 /\ Place(rows, turn.from[1]) <= PageSize

PageInv == PageTypes /\ PageCursor /\ PageSettled /\ PageTurn /\ PageTiles

-----------------------------------------------------------------------------
(* The results of the query.                                               *)

Least(m, n) == IF m < n THEN m ELSE n

(* The first n of a sequence are as many as there are, up to n.            *)
LEMMA FirstOfIs ==
  ASSUME NEW T, NEW seq \in Seq(T), NEW n \in Nat
  PROVE  FirstOf(seq, n) = [m \in 1..Least(n, Len(seq)) |-> seq[m]]
<1>1. Len(seq) \in Nat
  OBVIOUS
<1>2. PICK c \in Nat : c = Least(n, Len(seq))
  BY <1>1 DEF Least
<1>3. FirstOf(seq, n) = SubSeq(seq, 1, c)
  BY <1>2 DEF FirstOf, Least
<1>4. c <= Len(seq)
  BY <1>1, <1>2 DEF Least
<1>5. /\ SubSeq(seq, 1, c) \in Seq(T) /\ Len(SubSeq(seq, 1, c)) = c
      /\ \A m \in 1..c : SubSeq(seq, 1, c)[m] = seq[m]
  BY <1>1, <1>4
<1>6. SubSeq(seq, 1, c) = [m \in 1..c |-> seq[m]]
  BY <1>5
<1>7. QED
  BY <1>2, <1>3, <1>6

(* They are the rows from the cursor on, in the direction of the query.    *)
LEMMA ResultsAre ==
  ASSUME PageTypes, PageCursor, NEW all, all = All
  PROVE  LET n == Cardinality(rows)
             k == Place(rows, after)
         IN  /\ n \in Nat /\ all \in Seq(rows) /\ Len(all) = n
             /\ \A m \in 1..n : Place(rows, all[m]) = m
             /\ \A r \in rows : Place(rows, r) \in 1..n /\ all[Place(rows, r)] = r
             /\ after = NoRow =>
                  Results = [m \in 1..Least(PageSize + 1, n) |-> all[m]]
             /\ after # NoRow /\ ~Reversed =>
                  /\ k \in 1..(n - 1)
                  /\ Results = [m \in 1..Least(PageSize + 2, n - k + 1) |-> all[m + k - 1]]
             /\ after # NoRow /\ Reversed =>
                  /\ k \in 2..n
                  /\ Results = [m \in 1..Least(PageSize + 2, k) |-> all[k + 1 - m]]
<1> DEFINE n == Cardinality(rows)
           k == Place(rows, after)
           T == {r \in rows : SatisfiesAfter(r)}
           part == Sorted(T, Ahead)
<1>1. /\ rows \in SUBSET PageRows /\ IsFiniteSet(rows)
      /\ T \in SUBSET rows /\ T \in SUBSET PageRows /\ IsFiniteSet(T)
      /\ PageSize \in Nat \ {0}
  BY FS_Subset, PagesAssumption DEF PageTypes
<1>2. /\ n \in Nat /\ all \in [1..n -> rows]
      /\ \A m \in 1..n : Place(rows, all[m]) = m
      /\ \A r \in rows : Place(rows, r) \in 1..n /\ all[Place(rows, r)] = r
  BY <1>1, SortedPlaces DEF All
<1>3. all \in Seq(rows) /\ Len(all) = n
  BY <1>2
<1>4. Results = FirstOf(part, limit)
  BY DEF Results
<1>5. CASE after = NoRow
  <2>1. T = rows
    BY <1>5 DEF SatisfiesAfter
  <2>2. ~Reversed /\ limit = PageSize + 1
    BY <1>5 DEF PageCursor, Reversed
  <2>3. part = all
    BY <1>1, <2>1, <2>2, SortedAhead DEF All
  <2>4. FirstOf(all, limit) = [m \in 1..Least(limit, Len(all)) |-> all[m]]
    <3>1. limit \in Nat
      BY <1>1, <2>2
    <3>2. QED
      BY <1>3, <3>1, FirstOfIs
  <2>5. QED
    BY <1>2, <1>3, <1>4, <1>5, <2>2, <2>3, <2>4
<1>6. CASE after # NoRow /\ ~Reversed
  <2>1. limit = PageSize + 2 /\ after \in rows /\ k \in 1..n
    BY <1>2, <1>6 DEF PageCursor
  <2>2. PICK r \in rows : Before(after, r)
    BY <1>6 DEF PageCursor, Ahead
  <2>3. T = From(rows, after)
    BY <1>6 DEF From, SatisfiesAfter, Ahead
  <2>4. after \in rows /\ all = Sorted(rows, Before)
    BY <2>1 DEF All
  <2> HIDE DEF T
  <2>5. Sorted(T, Before) = [m \in 1..(n - k + 1) |-> all[m + k - 1]]
    BY <1>1, <2>3, <2>4, SuffixPlaces
  <2>6. part = Sorted(T, Before)
    BY <1>1, <1>6, SortedAhead
  <2>7. k # n
    <3>1. Behind(rows, after) \in SUBSET Behind(rows, r) /\ Behind(rows, after) # Behind(rows, r)
      BY <1>1, <2>1, <2>2, BeforeOrders DEF Behind
    <3>2. IsFiniteSet(Behind(rows, r))
      BY <1>1, FS_Subset DEF Behind
    <3>3. Cardinality(Behind(rows, after)) # Cardinality(Behind(rows, r))
      BY <3>1, <3>2, FS_Subset
    <3>4. Cardinality(Behind(rows, after)) <= Cardinality(Behind(rows, r))
      BY <3>1, <3>2, FS_Subset
    <3>5. Place(rows, r) \in 1..n
      BY <1>2
    <3>6. Cardinality(Behind(rows, after)) \in Nat /\ Cardinality(Behind(rows, r)) \in Nat
      BY <3>1, <3>2, FS_Subset, FS_CardinalityType
    <3>7. QED
      BY <1>2, <3>3, <3>4, <3>5, <3>6 DEF Place
  <2> HIDE DEF n, k, T, part
  <2>8. part \in Seq(rows) /\ Len(part) = n - k + 1
    BY <1>2, <2>1, <2>5, <2>6
  <2>9. FirstOf(part, limit) = [m \in 1..Least(limit, Len(part)) |-> part[m]]
    <3>1. limit \in Nat
      BY <1>1, <2>1
    <3>2. QED
      BY <2>8, <3>1, FirstOfIs
  <2>10. Least(limit, Len(part)) <= n - k + 1
    BY <1>1, <1>2, <2>1, <2>8 DEF Least
  <2>11. Results = [m \in 1..Least(PageSize + 2, n - k + 1) |-> all[m + k - 1]]
    <3>1. PICK c : c = Least(limit, Len(part))
      OBVIOUS
    <3>2. c \in Nat /\ c = Least(PageSize + 2, n - k + 1) /\ c <= n - k + 1
      BY <1>1, <1>2, <2>1, <2>8, <2>10, <3>1 DEF Least
    <3>3. \A m \in 1..c : part[m] = all[m + k - 1]
      BY <1>2, <2>1, <2>5, <2>6, <3>2
    <3>4. Results = [m \in 1..c |-> part[m]]
      BY <1>4, <2>9, <3>1
    <3>5. QED
      BY <3>2, <3>3, <3>4
  <2>12. QED
    BY <1>2, <1>3, <1>6, <2>1, <2>7, <2>11 DEF n, k
<1>7. CASE after # NoRow /\ Reversed
  <2>1. limit = PageSize + 2 /\ after \in rows /\ k \in 1..n
    BY <1>2, <1>7 DEF PageCursor
  <2>2. PICK r \in rows : Before(r, after)
    BY <1>7 DEF PageCursor, Ahead
  <2>3. T = UpTo(rows, after)
    BY <1>7 DEF UpTo, SatisfiesAfter, Ahead
  <2>4. after \in rows /\ all = Sorted(rows, Before)
    BY <2>1 DEF All
  <2> HIDE DEF T
  <2>5. Cardinality(T) = k /\ Sorted(T, Before) = [m \in 1..k |-> all[m]]
    BY <1>1, <2>3, <2>4, PrefixPlaces
  <2>6. part = [m \in 1..Cardinality(T) |-> Sorted(T, Before)[Cardinality(T) + 1 - m]]
    BY <1>1, <1>7, SortedAhead
  <2>7. k # 1
    <3>1. Behind(rows, after) # {} /\ IsFiniteSet(Behind(rows, after))
      BY <1>1, <2>2, FS_Subset DEF Behind
    <3>2. Cardinality(Behind(rows, after)) # 0 /\ Cardinality(Behind(rows, after)) \in Nat
      BY <3>1, FS_EmptySet, FS_CardinalityType
    <3>3. QED
      BY <3>2 DEF Place
  <2> HIDE DEF n, k, T, part
  <2>8. part = [m \in 1..k |-> all[k + 1 - m]]
    BY <1>2, <2>1, <2>5, <2>6
  <2>9. part \in Seq(rows) /\ Len(part) = k
    BY <1>2, <2>1, <2>8
  <2>10. FirstOf(part, limit) = [m \in 1..Least(limit, Len(part)) |-> part[m]]
    <3>1. limit \in Nat
      BY <1>1, <2>1
    <3>2. QED
      BY <2>9, <3>1, FirstOfIs
  <2>11. Least(limit, Len(part)) <= k
    BY <1>1, <1>2, <2>1, <2>9 DEF Least
  <2>12. Results = [m \in 1..Least(PageSize + 2, k) |-> all[k + 1 - m]]
    <3>1. PICK c : c = Least(limit, Len(part))
      OBVIOUS
    <3>2. c \in Nat /\ c = Least(PageSize + 2, k) /\ c <= k
      BY <1>1, <1>2, <2>1, <2>9, <2>11, <3>1 DEF Least
    <3>3. \A m \in 1..c : part[m] = all[k + 1 - m]
      BY <1>2, <2>1, <2>8, <3>2, SMTT(30)
    <3>4. Results = [m \in 1..c |-> part[m]]
      BY <1>4, <2>10, <3>1
    <3>5. QED
      BY <3>2, <3>3, <3>4
  <2>13. QED
    BY <1>2, <1>3, <1>7, <2>1, <2>7, <2>12 DEF n, k
<1>8. QED
  BY <1>5, <1>6, <1>7

(* A part of a sequence, as a function.                                    *)
LEMMA PartIs ==
  ASSUME NEW T, NEW seq \in Seq(T), NEW a \in Nat \ {0}, NEW b \in Nat, b <= Len(seq)
  PROVE  SubSeq(seq, a, b) = [m \in 1..(b - a + 1) |-> seq[m + a - 1]]
<1>1. Len(seq) \in Nat
  OBVIOUS
<1>2. /\ SubSeq(seq, a, b) \in Seq(T)
      /\ Len(SubSeq(seq, a, b)) = IF a <= b THEN b - a + 1 ELSE 0
      /\ \A m \in 1..(b - a + 1) : SubSeq(seq, a, b)[m] = seq[m + a - 1]
  BY <1>1
<1>3. 1..Len(SubSeq(seq, a, b)) = 1..(b - a + 1)
  BY <1>2
<1>4. QED
  BY <1>2, <1>3

-----------------------------------------------------------------------------
(* The handler of the results.                                             *)

(* Forward it shows the rows after the cursor.                             *)
LEMMA HandledForward ==
  ASSUME PageTypes, PageCursor, HandleResults, ~Reversed,
         NEW all, all = All
  PROVE  LET n == Len(all)
             i == IF after = NoRow THEN 0 ELSE Place(rows, after)
             j == Least(i + PageSize, n)
             page == SubSeq(all, i + 1, j)
         IN  /\ i \in 0..n /\ (after # NoRow => i \in 1..(n - 1) /\ after = all[i])
             /\ shown' = [page |-> page, hasNext |-> i + PageSize < n, hasPrevious |-> i > 0]
             /\ rangeStart' = RowAt(page, 1) /\ rangeEnd' = RowAt(page, PageSize)
             /\ pageDue' = FALSE /\ UNCHANGED <<after, limit, direction>>
<1> DEFINE n == Len(all)
           k == Place(rows, after)
           i == IF after = NoRow THEN 0 ELSE k
           j == Least(i + PageSize, n)
           results == Results
           back == after # NoRow /\ results # <<>> /\ ReachesCursor(results[1])
           ahead == Len(results) >= limit
           page == SubSeq(results, IF back THEN 2 ELSE 1, Len(results) - IF ahead THEN 1 ELSE 0)
<1>1. /\ rangeStart' = RowAt(page, 1) /\ rangeEnd' = RowAt(page, PageSize)
      /\ back \/ after = NoRow =>
           /\ shown' = [page |-> page, hasNext |-> ahead, hasPrevious |-> back]
           /\ pageDue' = FALSE /\ UNCHANGED <<after, limit, direction>>
  BY DEF HandleResults
<1>2. PageSize \in Nat \ {0} /\ rows \in SUBSET PageRows /\ Keys \subseteq Nat
  BY PagesAssumption DEF PageTypes
<1>3. /\ n \in Nat /\ all \in Seq(rows) /\ n = Cardinality(rows)
      /\ \A r \in rows : Place(rows, r) \in 1..n /\ all[Place(rows, r)] = r
  BY ResultsAre
<1>4. CASE after = NoRow
  <2>1. limit = PageSize + 1
    BY <1>4 DEF PageCursor
  <2>2. results = [m \in 1..Least(PageSize + 1, n) |-> all[m]]
    BY <1>3, <1>4, ResultsAre
  <2>3. ~back /\ i = 0
    BY <1>4
  <2> HIDE DEF results, back
  <2>4. PICK c : c = Least(PageSize + 1, n)
    OBVIOUS
  <2>5. c \in 0..n /\ c \in Nat
    BY <1>2, <1>3, <2>4 DEF Least
  <2>6. results = [m \in 1..c |-> all[m]]
    BY <2>2, <2>4
  <2>7. results \in Seq(rows) /\ Len(results) = c
    <3>1. \A m \in 1..c : all[m] \in rows
      BY <1>3, <2>5
    <3>2. QED
      BY <2>5, <2>6, <3>1
  <2>8. /\ ahead <=> PageSize < n
        /\ Len(results) - (IF ahead THEN 1 ELSE 0) = j
        /\ j \in 0..n /\ j <= Len(results)
    BY <1>2, <1>3, <2>1, <2>3, <2>7, <2>4, <2>5, SMTT(30) DEF Least
  <2>9. page = SubSeq(results, 1, j)
    BY <2>3, <2>8
  <2> HIDE DEF n, i, j, ahead, page
  <2>10. SubSeq(results, 1, j) = [m \in 1..(j - 1 + 1) |-> results[m + 1 - 1]]
    BY <2>7, <2>8, PartIs
  <2>11. SubSeq(all, 1, j) = [m \in 1..(j - 1 + 1) |-> all[m + 1 - 1]]
    BY <1>3, <2>8, PartIs DEF n
  <2>12. \A m \in 1..(j - 1 + 1) : results[m + 1 - 1] = all[m + 1 - 1]
    <3>1. j \in Nat /\ j <= c
      BY <2>5, <2>7, <2>8
    <3>2. \A m \in 1..(j - 1 + 1) : m \in 1..c /\ m + 1 - 1 = m
      BY <2>5, <3>1
    <3>3. QED
      BY <2>6, <3>2
  <2>13. page = SubSeq(all, i + 1, j)
    <3>1. SubSeq(results, 1, j) = SubSeq(all, 1, j)
      BY <2>10, <2>11, <2>12
    <3>2. i + 1 = 1
      BY <2>3
    <3>3. QED
      BY <2>9, <3>1, <3>2
  <2>14. shown' = [page |-> page, hasNext |-> i + PageSize < n, hasPrevious |-> i > 0]
    <3>1. ahead = (i + PageSize < n) /\ back = (i > 0)
      BY <1>2, <2>3, <2>8 DEF ahead, back
    <3>2. QED
      BY <1>1, <1>4, <3>1 DEF page, ahead, back, results
  <2>15. /\ rangeStart' = RowAt(page, 1) /\ rangeEnd' = RowAt(page, PageSize)
         /\ pageDue' = FALSE /\ UNCHANGED <<after, limit, direction>>
    BY <1>1, <1>4 DEF page, ahead, back, results
  <2>16. i \in 0..n
    BY <1>3, <2>3
  <2>17. QED
    BY <1>4, <2>13, <2>14, <2>15, <2>16 DEF i, j, n
<1>5. CASE after # NoRow
  <2>1. k \in 1..(n - 1) /\ limit = PageSize + 2 /\ after \in rows /\ after = all[k]
    BY <1>3, <1>5, ResultsAre DEF PageCursor
  <2>2. results = [m \in 1..Least(PageSize + 2, n - k + 1) |-> all[m + k - 1]]
    BY <1>3, <1>5, ResultsAre, SMTT(30)
  <2>3. i = k
    BY <1>5
  <2> HIDE DEF results, k
  <2>4. PICK c : c = Least(PageSize + 2, n - k + 1)
    OBVIOUS
  <2>5. c \in 1..(n - k + 1) /\ c \in Nat /\ k \in Nat
    BY <1>2, <1>3, <2>1, <2>4 DEF Least
  <2>6. results = [m \in 1..c |-> all[m + k - 1]]
    BY <2>2, <2>4
  <2>7. results \in Seq(rows) /\ Len(results) = c
    <3>1. \A m \in 1..c : all[m + k - 1] \in rows
      BY <1>3, <2>1, <2>5, SMTT(30)
    <3>2. QED
      BY <2>5, <2>6, <3>1
  <2>8. back
    <3>1. results # <<>> /\ results[1] = after
      <4>1. 1 \in 1..c /\ 1 + k - 1 = k /\ Len(results) # 0
        BY <2>5, <2>7
      <4>2. results[1] = all[1 + k - 1]
        BY <2>6, <4>1
      <4>3. QED
        BY <2>1, <2>7, <4>1, <4>2
    <3>2. after.key \in Nat
      BY <1>2, <2>1 DEF PageRows
    <3>3. QED
      BY <1>5, <3>1, <3>2 DEF ReachesCursor
  <2>9. /\ ahead <=> k + PageSize < n
        /\ Len(results) - (IF ahead THEN 1 ELSE 0) = j - k + 1
        /\ j \in k..n /\ j - k + 1 \in Nat /\ j - k + 1 <= Len(results)
    <3>1. j = IF k + PageSize < n THEN k + PageSize ELSE n
      BY <2>3 DEF Least
    <3>2. ahead <=> c >= PageSize + 2
      BY <2>1, <2>7
    <3>3. c = IF PageSize + 2 < n - k + 1 THEN PageSize + 2 ELSE n - k + 1
      BY <2>4 DEF Least
    <3> HIDE DEF n, i, j, ahead
    <3>4. k \in Nat /\ n \in Nat /\ k <= n - 1 /\ PageSize \in Nat
      BY <1>2, <1>3, <2>1, <2>5 DEF n
    <3>5. /\ ahead <=> k + PageSize < n
          /\ c - (IF ahead THEN 1 ELSE 0) = j - k + 1
          /\ j \in k..n /\ j - k + 1 \in Nat /\ j - k + 1 <= c
      BY <3>1, <3>2, <3>3, <3>4
    <3>6. QED
      BY <2>7, <3>5
  <2> HIDE DEF back
  <2>10. PICK b : b = j - k + 1
    OBVIOUS
  <2>11. page = SubSeq(results, 2, b)
    BY <2>8, <2>9, <2>10
  <2> HIDE DEF n, i, j, ahead, page
  <2>12. SubSeq(results, 2, b) = [m \in 1..(b - 2 + 1) |-> results[m + 2 - 1]]
    <3>1. b \in Nat /\ b <= Len(results) /\ 2 \in Nat \ {0}
      BY <2>9, <2>10
    <3>2. QED
      BY <2>7, <3>1, PartIs
  <2>13. SubSeq(all, k + 1, j) = [m \in 1..(j - (k + 1) + 1) |-> all[m + (k + 1) - 1]]
    <3>1. k + 1 \in Nat \ {0} /\ j \in Nat /\ j <= Len(all)
      BY <1>3, <2>1, <2>9 DEF n
    <3>2. QED
      BY <1>3, <3>1, PartIs
  <2>14. b - 2 + 1 = j - (k + 1) + 1
    BY <2>5, <2>9, <2>10
  <2>15. \A m \in 1..(j - (k + 1) + 1) : results[m + 2 - 1] = all[m + (k + 1) - 1]
    <3>1. \A m \in 1..(j - (k + 1) + 1) :
            m + 2 - 1 \in 1..c /\ m + 2 - 1 + k - 1 = m + (k + 1) - 1
      BY <2>5, <2>7, <2>9
    <3>2. QED
      BY <2>6, <3>1
  <2>16. page = SubSeq(all, i + 1, j)
    BY <2>3, <2>11, <2>12, <2>13, <2>14, <2>15
  <2>17. shown' = [page |-> page, hasNext |-> i + PageSize < n, hasPrevious |-> i > 0]
    <3>1. ahead = (i + PageSize < n) /\ back = (i > 0)
      <4>1. k > 0 /\ back = TRUE /\ ahead = (k + PageSize < n)
        BY <1>3, <2>1, <2>8, <2>9 DEF back, ahead
      <4>2. QED
        BY <2>3, <4>1
    <3>2. shown' = [page |-> page, hasNext |-> ahead, hasPrevious |-> back]
      BY <1>1, <2>8 DEF page, ahead, back, results
    <3>3. QED
      BY <3>1, <3>2
  <2>18. /\ rangeStart' = RowAt(page, 1) /\ rangeEnd' = RowAt(page, PageSize)
         /\ pageDue' = FALSE /\ UNCHANGED <<after, limit, direction>>
    BY <1>1, <2>8 DEF page, ahead, back, results
  <2>19. i \in 0..n /\ i \in 1..(n - 1) /\ after = all[i]
    BY <1>3, <2>1, <2>3
  <2>20. QED
    BY <2>16, <2>17, <2>18, <2>19 DEF i, j, n, k
<1>6. QED
  BY <1>4, <1>5

(* Backward it shows the rows before the cursor when there are a page of   *)
(* them and one more; else the query is reset to run from the start.       *)
LEMMA HandledReversed ==
  ASSUME PageTypes, PageCursor, HandleResults, Reversed,
         NEW all, all = All
  PROVE  LET n == Len(all)
             k == Place(rows, after)
         IN  /\ k \in 2..n /\ after = all[k]
             /\ k < PageSize + 2 =>
                  /\ after' = NoRow /\ limit' = PageSize + 1 /\ direction' = "forward"
                  /\ UNCHANGED <<pageDue, shown>>
             /\ k >= PageSize + 2 =>
                  /\ shown' = [page |-> SubSeq(all, k - PageSize, k - 1),
                               hasNext |-> TRUE, hasPrevious |-> TRUE]
                  /\ rangeStart' = all[k - 1] /\ rangeEnd' = all[k - PageSize]
                  /\ pageDue' = FALSE /\ UNCHANGED <<after, limit, direction>>
<1> DEFINE n == Len(all)
           k == Place(rows, after)
           results == Results
           back == after # NoRow /\ results # <<>> /\ ReachesCursor(results[1])
           ahead == Len(results) >= limit
           page == SubSeq(results, IF back THEN 2 ELSE 1, Len(results) - IF ahead THEN 1 ELSE 0)
<1>1. after # NoRow
  BY DEF PageCursor, Reversed
<1>2. /\ rangeStart' = RowAt(page, 1) /\ rangeEnd' = RowAt(page, PageSize)
      /\ ~ahead => /\ after' = NoRow /\ limit' = PageSize + 1 /\ direction' = "forward"
                   /\ UNCHANGED <<pageDue, shown>>
      /\ ahead =>
           /\ shown' = [page |-> Reverse(page), hasNext |-> back, hasPrevious |-> ahead]
           /\ pageDue' = FALSE /\ UNCHANGED <<after, limit, direction>>
  BY <1>1 DEF HandleResults
<1>3. PageSize \in Nat \ {0} /\ rows \in SUBSET PageRows /\ Keys \subseteq Nat
  BY PagesAssumption DEF PageTypes
<1>4. /\ n \in Nat /\ all \in Seq(rows) /\ n = Cardinality(rows)
      /\ \A r \in rows : Place(rows, r) \in 1..n /\ all[Place(rows, r)] = r
  BY ResultsAre
<1>5. k \in 2..n /\ limit = PageSize + 2 /\ after \in rows /\ after = all[k]
  BY <1>1, <1>4, ResultsAre DEF PageCursor
<1>6. results = [m \in 1..Least(PageSize + 2, k) |-> all[k + 1 - m]]
  BY <1>1, <1>4, ResultsAre
<1> HIDE DEF results, k
<1>7. PICK c : c = Least(PageSize + 2, k)
  OBVIOUS
<1>8. c \in 2..k /\ c \in Nat /\ k \in Nat
  BY <1>3, <1>4, <1>5, <1>7 DEF Least
<1>9. results = [m \in 1..c |-> all[k + 1 - m]]
  BY <1>6, <1>7
<1>10. results \in Seq(rows) /\ Len(results) = c
  <2>1. \A m \in 1..c : all[k + 1 - m] \in rows
    BY <1>4, <1>5, <1>8
  <2>2. QED
    BY <1>8, <1>9, <2>1
<1>11. ahead <=> k >= PageSize + 2
  <2>1. ahead <=> c >= PageSize + 2
    BY <1>5, <1>10
  <2>2. QED
    BY <1>3, <1>7, <1>8, <2>1 DEF Least
<1>12. back
  <2>1. results # <<>> /\ results[1] = after
    <3>1. 1 \in 1..c /\ k + 1 - 1 = k /\ Len(results) # 0
      BY <1>8, <1>10
    <3>2. results[1] = all[k + 1 - 1]
      BY <1>9, <3>1
    <3>3. QED
      BY <1>5, <1>10, <3>1, <3>2
  <2>2. after.key \in Nat
    BY <1>3, <1>5 DEF PageRows
  <2>3. QED
    BY <1>1, <2>1, <2>2 DEF ReachesCursor
<1> HIDE DEF back
<1>13. CASE k < PageSize + 2
  <2>1. ~ahead
    BY <1>3, <1>8, <1>11, <1>13
  <2>2. ~(k >= PageSize + 2)
    BY <1>3, <1>8, <1>13
  <2> HIDE DEF ahead, page
  <2>3. QED
    BY <1>2, <1>5, <2>1, <2>2 DEF n, k
<1>14. CASE k >= PageSize + 2
  <2>1. ahead /\ c = PageSize + 2 /\ ~(k < PageSize + 2)
    BY <1>3, <1>7, <1>8, <1>11, <1>14 DEF Least
  <2>2. Len(results) - (IF ahead THEN 1 ELSE 0) = PageSize + 1
    BY <1>3, <1>10, <2>1
  <2>3. page = SubSeq(results, 2, PageSize + 1)
    BY <1>12, <2>2
  <2> HIDE DEF ahead, page
  <2>4. PICK b : b = PageSize + 1
    OBVIOUS
  <2>5. SubSeq(results, 2, b) = [m \in 1..(b - 2 + 1) |-> results[m + 2 - 1]]
    <3>1. b \in Nat /\ b <= Len(results) /\ 2 \in Nat \ {0}
      BY <1>3, <1>10, <2>1, <2>4
    <3>2. QED
      BY <1>10, <3>1, PartIs
  <2>6. /\ page = [m \in 1..PageSize |-> all[k - m]]
        /\ \A m \in 1..PageSize : all[k - m] \in rows
    <3>1. b - 2 + 1 = PageSize
      BY <1>3, <2>4
    <3>2. \A m \in 1..PageSize :
            m + 2 - 1 \in 1..c /\ k + 1 - (m + 2 - 1) = k - m /\ k - m \in 1..n
      BY <1>3, <1>4, <1>5, <1>8, <2>1
    <3>3. \A m \in 1..PageSize : results[m + 2 - 1] = all[k - m]
      BY <1>9, <3>2
    <3>4. \A m \in 1..PageSize : all[k - m] \in rows
      BY <1>4, <3>2
    <3>5. QED
      BY <2>3, <2>4, <2>5, <3>1, <3>3, <3>4
  <2>7. page \in Seq(rows) /\ Len(page) = PageSize
    BY <1>3, <2>6
  <2>8. rangeStart' = all[k - 1] /\ rangeEnd' = all[k - PageSize]
    BY <1>2, <1>3, <2>6, <2>7 DEF RowAt
  <2>9. Reverse(page) = SubSeq(all, k - PageSize, k - 1)
    <3>1. PICK a : a = k - PageSize
      OBVIOUS
    <3>2. a \in Nat \ {0} /\ k - 1 \in Nat /\ k - 1 <= Len(all)
      BY <1>3, <1>4, <1>5, <1>8, <1>14, <3>1
    <3>3. SubSeq(all, a, k - 1) = [m \in 1..(k - 1 - a + 1) |-> all[m + a - 1]]
      BY <1>4, <3>2, PartIs
    <3>4. k - 1 - a + 1 = PageSize
      BY <1>3, <1>8, <3>1
    <3>5. Reverse(page) = [m \in 1..PageSize |-> page[(PageSize - m) + 1]]
      BY <2>7 DEF Reverse
    <3>6. \A m \in 1..PageSize :
            (PageSize - m) + 1 \in 1..PageSize /\ k - ((PageSize - m) + 1) = m + a - 1
      BY <1>3, <1>8, <3>1
    <3>7. \A m \in 1..PageSize : page[(PageSize - m) + 1] = all[m + a - 1]
      BY <2>6, <3>6
    <3>8. SubSeq(all, a, k - 1) = Reverse(page)
      BY <3>3, <3>4, <3>5, <3>7
    <3>9. QED
      BY <3>1, <3>8
  <2>10. /\ shown' = [page |-> Reverse(page), hasNext |-> TRUE, hasPrevious |-> TRUE]
         /\ pageDue' = FALSE /\ UNCHANGED <<after, limit, direction>>
    <3>1. back = TRUE /\ ahead = TRUE
      BY <1>12, <2>1 DEF back
    <3>2. QED
      BY <1>2, <2>1, <3>1 DEF page, ahead, back
  <2>11. QED
    BY <1>5, <2>1, <2>8, <2>9, <2>10 DEF n, k
<1>15. k < PageSize + 2 \/ k >= PageSize + 2
  BY <1>3, <1>8
<1>16. QED
  BY <1>13, <1>14, <1>15

-----------------------------------------------------------------------------
(* The invariant is one.                                                   *)

(* A row whose place is lower is before.                                   *)
LEMMA PlacesOrder ==
  ASSUME NEW S \in SUBSET PageRows, IsFiniteSet(S),
         NEW r \in S, NEW s \in S, Place(S, r) < Place(S, s)
  PROVE  Before(r, s)
<1>1. r # s
  <2>1. Place(S, r) \in Nat /\ Place(S, s) \in Nat
    BY SortedPlaces
  <2>2. QED
    BY <2>1
<1>2. ASSUME Before(s, r) PROVE FALSE
  <2>1. Behind(S, s) \in SUBSET Behind(S, r) /\ IsFiniteSet(Behind(S, r))
    BY <1>2, BeforeOrders, FS_Subset DEF Behind
  <2>2. Cardinality(Behind(S, s)) <= Cardinality(Behind(S, r))
    BY <2>1, FS_Subset
  <2>3. Cardinality(Behind(S, s)) \in Nat /\ Cardinality(Behind(S, r)) \in Nat
    BY <2>1, FS_Subset, FS_CardinalityType
  <2>4. QED
    BY <2>2, <2>3 DEF Place
<1>3. QED
  BY <1>1, <1>2, BeforeOrders

(* The places stay while the rows do.                                      *)
LEMMA PlacesKept ==
  ASSUME rows' = rows, descending' = descending
  PROVE  /\ (All)' = All
         /\ \A r : Place(rows, r)' = Place(rows, r)
         /\ \A r, s : Before(r, s)' = Before(r, s)
<1>1. \A r, s : Before(r, s)' = Before(r, s)
  BY DEF Before
<1>2. \A r : Place(rows, r)' = Place(rows, r)
  BY DEF Place, Behind, Before
<1>3. (All)' = All
  BY DEF All, Sorted, Before
<1>4. QED
  BY <1>1, <1>2, <1>3

(* TurnsTile says so of the turn that was made last.                       *)
LEMMA TilesIs == TurnsTile <=> PageTiles
<1>1. \A r : Cardinality({s \in rows : Before(s, r)}) + 1 = Place(rows, r)
  BY DEF Place, Behind
<1>2. QED
  BY <1>1 DEF TurnsTile, PageTiles

(* The invariant holds before the first page is shown.                     *)
LEMMA PageInit ==
  ASSUME PagesInit
  PROVE  PageInv
<1>1. PICK ids \in SUBSET Ids : \E key \in [ids -> Keys] :
        rows = {[key |-> key[i], id |-> i] : i \in ids}
  BY DEF PagesInit
<1>2. PICK key \in [ids -> Keys] : rows = {[key |-> key[i], id |-> i] : i \in ids}
  BY <1>1
<1>3. IsFiniteSet(ids)
  BY FS_Subset, PagesAssumption
<1> DEFINE f == [i \in ids |-> [key |-> key[i], id |-> i]]
<1>4. f \in Surjection(ids, rows)
  BY <1>2 DEF Surjection
<1>5. IsFiniteSet(rows)
  BY <1>3, <1>4, FS_Surjection
<1>6. rows \in SUBSET PageRows
  BY <1>2 DEF PageRows
<1>7. PageTypes
  BY <1>5, <1>6 DEF PagesInit, PageTypes, NoPage
<1>8. PageCursor /\ PageSettled /\ PageTurn /\ PageTiles
  BY DEF PagesInit, PageCursor, PageSettled, PageTurn, PageTiles
<1>9. QED
  BY <1>7, <1>8 DEF PageInv

(* What PageSettled says of the rows at the ends of the page.              *)
LEMMA PageEnds ==
  ASSUME PageTypes,
         NEW s \in [page : Seq(PageRows), hasNext : BOOLEAN, hasPrevious : BOOLEAN],
         NEW first, NEW final, NEW i \in Nat, NEW j \in Nat, Shows(All, s, first, final, i, j)
  PROVE  LET all == All IN
         /\ Len(all) \in Nat /\ all \in Seq(rows) /\ j <= Len(all) /\ i <= j
         /\ Len(s.page) = j - i
         /\ \A m \in 1..(j - i) : s.page[m] = all[m + i]
         /\ i < j => s.page[1] = all[i + 1] /\ Last(s.page) = all[j]
<1> DEFINE all == All
<1>1. /\ all \in Seq(rows) /\ Len(all) = Cardinality(rows) /\ Cardinality(rows) \in Nat
  <2>1. /\ all \in [1..Cardinality(rows) -> rows] /\ Cardinality(rows) \in Nat
    BY SortedPlaces DEF PageTypes, All
  <2>2. QED
    BY <2>1
<1>2. i \in 0..Len(all) /\ j \in i..Len(all) /\ s.page = SubSeq(all, i + 1, j)
  BY DEF Shows
<1> HIDE DEF all
<1>3. SubSeq(all, i + 1, j) = [m \in 1..(j - (i + 1) + 1) |-> all[m + (i + 1) - 1]]
  <2>1. i + 1 \in Nat \ {0} /\ j <= Len(all)
    BY <1>1, <1>2
  <2>2. QED
    BY <1>1, <2>1, PartIs
<1>4. j - (i + 1) + 1 = j - i /\ \A m \in 1..(j - i) : m + (i + 1) - 1 = m + i
  OBVIOUS
<1>5. s.page = [m \in 1..(j - i) |-> all[m + i]]
  BY <1>2, <1>3, <1>4
<1>6. Len(s.page) = j - i
  <2>1. j - i \in Nat
    BY <1>1, <1>2
  <2>2. QED
    BY <1>5, <2>1
<1>7. ASSUME i < j PROVE s.page[1] = all[i + 1] /\ Last(s.page) = all[j]
  <2>1. 1 \in 1..(j - i) /\ j - i \in 1..(j - i) /\ 1 + i = i + 1 /\ (j - i) + i = j
    BY <1>7
  <2>2. QED
    BY <1>5, <1>6, <2>1 DEF Last
<1>8. QED
  BY <1>1, <1>2, <1>5, <1>6, <1>7 DEF all

(* handleResults after moves forward: the page is shown as it came, and    *)
(* continues the one that was left.                                        *)
LEMMA PageHandledForward ==
  ASSUME PageInv, HandleResults, ~Reversed
  PROVE  PageInv'
<1> DEFINE all == All
           n == Len(all)
           i == IF after = NoRow THEN 0 ELSE Place(rows, after)
           j == Least(i + PageSize, n)
           page == SubSeq(all, i + 1, j)
<1>1. PageTypes /\ PageCursor /\ PageTurn /\ PageSize \in Nat \ {0}
  BY PagesAssumption DEF PageInv
<1>2. /\ i \in 0..n /\ (after # NoRow => i \in 1..(n - 1) /\ after = all[i])
      /\ shown' = [page |-> page, hasNext |-> i + PageSize < n, hasPrevious |-> i > 0]
      /\ rangeStart' = RowAt(page, 1) /\ rangeEnd' = RowAt(page, PageSize)
      /\ pageDue' = FALSE /\ UNCHANGED <<after, limit, direction>>
  BY <1>1, HandledForward
<1>3. rows' = rows /\ descending' = descending /\ turn' = turn
  BY DEF HandleResults
<1>4. /\ (All)' = all
      /\ \A r : Place(rows, r)' = Place(rows, r)
      /\ \A r, s : Before(r, s)' = Before(r, s)
  BY <1>3, PlacesKept
<1>5. /\ n \in Nat /\ all \in Seq(rows) /\ n = Cardinality(rows)
      /\ \A m \in 1..n : Place(rows, all[m]) = m
      /\ \A r \in rows : Place(rows, r) \in 1..n /\ all[Place(rows, r)] = r
  BY <1>1, ResultsAre
<1>6. rows \in SUBSET PageRows
  BY <1>1 DEF PageTypes
<1>7. /\ i \in Nat /\ j \in i..n /\ j <= i + PageSize /\ j \in Nat
      /\ i + PageSize < n => j = i + PageSize
      /\ i + PageSize < n <=> j < n
      /\ i < n => i < j
  <2>1. i \in Nat /\ n \in Nat /\ i <= n
    BY <1>2, <1>5
  <2>2. j = IF i + PageSize < n THEN i + PageSize ELSE n
    BY DEF Least
  <2> HIDE DEF i, j, n, all
  <2>3. QED
    BY <1>1, <2>1, <2>2
<1>8. i > 0 => after # NoRow
  OBVIOUS
<1> HIDE DEF all, i, j, n
<1>9. /\ page = [m \in 1..(j - i) |-> all[m + i]] /\ page \in Seq(rows) /\ Len(page) = j - i
      /\ DOMAIN page = 1..(j - i) /\ \A m \in 1..(j - i) : page[m] \in rows
  <2>1. page = [m \in 1..(j - (i + 1) + 1) |-> all[m + (i + 1) - 1]]
    <3>1. i + 1 \in Nat \ {0} /\ j <= Len(all)
      BY <1>7 DEF n
    <3>2. QED
      BY <1>5, <1>7, <3>1, PartIs
  <2>2. j - (i + 1) + 1 = j - i /\ \A m \in 1..(j - i) : m + (i + 1) - 1 = m + i /\ m + i \in 1..n
    BY <1>5, <1>7
  <2>3. page = [m \in 1..(j - i) |-> all[m + i]]
    BY <2>1, <2>2
  <2>4. \A m \in 1..(j - i) : all[m + i] \in rows
    BY <1>5, <2>2 DEF n
  <2>5. j - i \in Nat
    BY <1>5, <1>7
  <2> HIDE DEF page
  <2>6. QED
    BY <2>3, <2>4, <2>5
<1> HIDE DEF page
<1>10. \A m : RowAt(page, m) \in PageRows \union {NoRow}
  <2>1. \A m \in DOMAIN page : page[m] \in rows
    BY <1>9
  <2>2. QED
    BY <1>6, <2>1 DEF RowAt
<1>11. PageTypes'
  <2>1. page \in Seq(PageRows)
    BY <1>6, <1>9
  <2>2. shown' \in [page : Seq(PageRows), hasNext : BOOLEAN, hasPrevious : BOOLEAN]
    BY <1>2, <2>1
  <2>3. rangeStart' \in PageRows \union {NoRow} /\ rangeEnd' \in PageRows \union {NoRow}
    BY <1>2, <1>10
  <2>4. QED
    BY <1>1, <1>2, <1>3, <2>2, <2>3 DEF PageTypes, PageRows, NoRow
<1>12. PageCursor'
  BY <1>1, <1>2, <1>3, <1>4 DEF PageCursor, Ahead, Reversed, NoRow
<1>13. First' = rangeStart' /\ Final' = rangeEnd'
  BY <1>2 DEF First, Final, Reversed
<1>14. i < j => rangeStart' = all[i + 1]
  <2>1. ASSUME i < j PROVE 1 \in 1..(j - i) /\ DOMAIN page = 1..(j - i) /\ 1 + i = i + 1
    BY <1>7, <1>9, <2>1
  <2>2. QED
    BY <1>2, <1>9, <2>1 DEF RowAt
<1>15. i + PageSize < n => rangeEnd' = all[j]
  <2>1. ASSUME i + PageSize < n
        PROVE  PageSize \in 1..(j - i) /\ DOMAIN page = 1..(j - i) /\ PageSize + i = j
    BY <1>1, <1>7, <1>9, <2>1
  <2>2. QED
    BY <1>2, <1>9, <2>1 DEF RowAt
<1>16. Shows((All)', shown', First', Final', i, j)
  <2>1. /\ i \in 0..Len(all) /\ j \in i..Len(all) /\ j <= i + PageSize
        /\ shown'.page = SubSeq(all, i + 1, j)
    BY <1>2, <1>7 DEF n, page
  <2>2. /\ shown'.hasPrevious = (i > 0) /\ shown'.hasNext = (i + PageSize < n)
        /\ (i + PageSize < n) = (j < Len(all))
    BY <1>2, <1>7 DEF n
  <2>3. i > 0 => i < j
    BY <1>2, <1>5, <1>7, <1>8
  <2>4. QED
    BY <1>4, <1>7, <1>13, <1>14, <1>15, <2>1, <2>2, <2>3 DEF Shows
<1>17. PageSettled'
  <2>1. shown'.hasPrevious => after' # NoRow
    BY <1>2, <1>8
  <2>2. \E x, y \in Nat : Shows((All)', shown', First', Final', x, y)
    BY <1>7, <1>16
  <2>3. QED
    BY <2>1, <2>2 DEF PageSettled, NoRow
<1>18. PageTurn'
  BY <1>1, <1>2, <1>3, <1>4 DEF PageTurn, NoRow, Last
<1>19. PageTiles'
  <2> SUFFICES ASSUME turn.quiet, turn.from # <<>>, page # <<>>
               PROVE  /\ turn.to = "next" =>
                           Place(rows, page[1]) = Place(rows, Last(turn.from)) + 1
                      /\ turn.to = "previous" =>
                           \/ Place(rows, Last(page)) = Place(rows, turn.from[1]) - 1
                           \/ Place(rows, page[1]) = 1 /\ Place(rows, turn.from[1]) <= PageSize
    BY <1>2, <1>3, <1>4 DEF PageTiles, Last
  <2>1. i < j /\ 1 \in 1..(j - i) /\ j - i \in 1..(j - i)
    BY <1>7, <1>9
  <2>2. page[1] = all[i + 1] /\ Last(page) = all[j]
    <3>1. 1 + i = i + 1 /\ (j - i) + i = j
      BY <1>7
    <3>2. QED
      BY <1>9, <2>1, <3>1 DEF Last
  <2>3. Place(rows, page[1]) = i + 1 /\ Place(rows, Last(page)) = j
    BY <1>5, <1>7, <2>1, <2>2
  <2>4. CASE turn.to = "next"
    <3>1. after # NoRow /\ after = Last(turn.from)
      BY <1>1, <2>4 DEF PageTurn
    <3>2. Place(rows, after) = i
      BY <3>1 DEF i
    <3>3. QED
      BY <2>3, <2>4, <3>1, <3>2
  <2>5. CASE turn.to = "previous"
    <3>1. turn.from[1] \in rows /\ after = NoRow /\ Place(rows, turn.from[1]) <= PageSize + 1
      BY <1>1, <2>5 DEF PageTurn, Reversed
    <3>2. i = 0
      BY <3>1 DEF i
    <3>3. Place(rows, turn.from[1]) \in 1..n
      BY <1>5, <3>1 DEF n
    <3>4. j = IF PageSize < n THEN PageSize ELSE n
      BY <1>1, <3>2 DEF j, Least
    <3>5. QED
      BY <1>1, <1>5, <1>7, <2>3, <2>5, <3>1, <3>2, <3>3, <3>4
  <2>6. QED
    BY <2>4, <2>5
<1>20. QED
  BY <1>11, <1>12, <1>17, <1>18, <1>19 DEF PageInv

(* handleResults after a move backward: the page comes reversed, and ends  *)
(* where the one that was left began.                                      *)
LEMMA PageHandledReversed ==
  ASSUME PageInv, HandleResults, Reversed
  PROVE  PageInv'
<1> DEFINE all == All
           n == Len(all)
           k == Place(rows, after)
           page == SubSeq(all, k - PageSize, k - 1)
<1>1. PageTypes /\ PageCursor /\ PageTurn /\ PageSize \in Nat \ {0}
  BY PagesAssumption DEF PageInv
<1>2. /\ k \in 2..n /\ after = all[k]
      /\ k < PageSize + 2 =>
           /\ after' = NoRow /\ limit' = PageSize + 1 /\ direction' = "forward"
           /\ UNCHANGED <<pageDue, shown>>
      /\ k >= PageSize + 2 =>
           /\ shown' = [page |-> page, hasNext |-> TRUE, hasPrevious |-> TRUE]
           /\ rangeStart' = all[k - 1] /\ rangeEnd' = all[k - PageSize]
           /\ pageDue' = FALSE /\ UNCHANGED <<after, limit, direction>>
  BY <1>1, HandledReversed
<1>3. rows' = rows /\ descending' = descending /\ turn' = turn /\ pageDue
  BY DEF HandleResults
<1>4. /\ (All)' = all
      /\ \A r : Place(rows, r)' = Place(rows, r)
      /\ \A r, s : Before(r, s)' = Before(r, s)
  BY <1>3, PlacesKept
<1>5. /\ n \in Nat /\ all \in Seq(rows) /\ n = Cardinality(rows)
      /\ \A m \in 1..n : Place(rows, all[m]) = m
      /\ \A r \in rows : Place(rows, r) \in 1..n /\ all[Place(rows, r)] = r
  BY <1>1, ResultsAre
<1>6. rows \in SUBSET PageRows
  BY <1>1 DEF PageTypes
<1>7. turn.quiet => turn.to # "next"
  BY <1>1 DEF PageTurn, Reversed
<1>8. turn.quiet /\ turn.to = "previous" => turn.from[1] \in rows /\ after = turn.from[1]
  BY <1>1 DEF PageTurn, PageCursor, Reversed
<1>9. CASE k < PageSize + 2
  <2>1. /\ after' = NoRow /\ limit' = PageSize + 1 /\ direction' = "forward"
        /\ UNCHANGED <<pageDue, shown>>
    BY <1>2, <1>9
  <2>2. /\ rangeStart' \in PageRows \union {NoRow}
        /\ rangeEnd' \in PageRows \union {NoRow}
    <3> DEFINE results == Results
    <3>1. results \in Seq(rows)
      <4>1. after # NoRow
        BY <1>1 DEF PageCursor, Reversed
      <4>2. results = [m \in 1..Least(PageSize + 2, k) |-> all[k + 1 - m]]
        BY <1>1, <1>5, <4>1, ResultsAre
      <4> HIDE DEF k, n, all, results
      <4>3. PICK c : c = Least(PageSize + 2, k)
        OBVIOUS
      <4>4. c \in Nat /\ \A m \in 1..c : k + 1 - m \in 1..n
        BY <1>1, <1>2, <1>5, <4>3 DEF Least
      <4>5. \A m \in 1..c : all[k + 1 - m] \in rows
        BY <1>5, <4>4 DEF n
      <4>6. results = [m \in 1..c |-> all[k + 1 - m]]
        BY <4>2, <4>3
      <4>7. QED
        BY <4>4, <4>5, <4>6
    <3>2. PICK a \in {1, 2}, b \in Int :
            b <= Len(results)
            /\ rangeStart' = RowAt(SubSeq(results, a, b), 1)
            /\ rangeEnd' = RowAt(SubSeq(results, a, b), PageSize)
      <4> DEFINE back == after # NoRow /\ results # <<>> /\ ReachesCursor(results[1])
                 ahead == Len(results) >= limit
      <4>1. /\ rangeStart' = RowAt(SubSeq(results, IF back THEN 2 ELSE 1,
                                           Len(results) - IF ahead THEN 1 ELSE 0), 1)
            /\ rangeEnd' = RowAt(SubSeq(results, IF back THEN 2 ELSE 1,
                                         Len(results) - IF ahead THEN 1 ELSE 0), PageSize)
        BY DEF HandleResults
      <4>2. PICK a \in {1, 2} : a = IF back THEN 2 ELSE 1
        OBVIOUS
      <4> HIDE DEF results
      <4>3. PICK e \in {0, 1} : e = IF ahead THEN 1 ELSE 0
        OBVIOUS
      <4> HIDE DEF back, ahead
      <4>4. /\ rangeStart' = RowAt(SubSeq(results, a, Len(results) - e), 1)
            /\ rangeEnd' = RowAt(SubSeq(results, a, Len(results) - e), PageSize)
        BY <4>1, <4>2, <4>3
      <4>5. Len(results) - e \in Int /\ Len(results) - e <= Len(results)
        BY <3>1
      <4>6. QED
        BY <4>4, <4>5
    <3> HIDE DEF results
    <3>3. SubSeq(results, a, b) \in Seq(rows)
      BY <3>1, <3>2
    <3>4. \A m \in DOMAIN SubSeq(results, a, b) : SubSeq(results, a, b)[m] \in rows
      BY <3>3
    <3>5. QED
      BY <1>6, <3>2, <3>4 DEF RowAt
  <2>3. PageTypes'
    BY <1>1, <1>3, <2>1, <2>2 DEF PageTypes, PageRows, NoRow
  <2>4. PageCursor'
    BY <2>1 DEF PageCursor, NoRow
  <2>5. PageSettled' /\ PageTiles'
    BY <1>3, <2>1 DEF PageSettled, PageTiles
  <2>6. PageTurn'
    <3>1. turn.quiet /\ turn.to = "previous" =>
            turn.from[1] \in rows /\ Place(rows, turn.from[1]) <= PageSize + 1
      BY <1>1, <1>2, <1>5, <1>8, <1>9
    <3> HIDE DEF all, k, n
    <3>2. QED
      BY <1>3, <1>4, <1>7, <2>1, <3>1 DEF PageTurn, NoRow, Last
  <2>7. QED
    BY <2>3, <2>4, <2>5, <2>6 DEF PageInv
<1>10. CASE k >= PageSize + 2
  <2>1. /\ shown' = [page |-> page, hasNext |-> TRUE, hasPrevious |-> TRUE]
        /\ rangeStart' = all[k - 1] /\ rangeEnd' = all[k - PageSize]
        /\ pageDue' = FALSE /\ UNCHANGED <<after, limit, direction>>
    BY <1>2, <1>10
  <2>2. after # NoRow
    BY <1>1 DEF PageCursor, Reversed
  <2> HIDE DEF k, n, all
  <2>3. PICK i : i = k - PageSize - 1
    OBVIOUS
  <2>4. PICK j : j = k - 1
    OBVIOUS
  <2>5. /\ i \in Nat /\ j \in Nat /\ i \in 0..n /\ j \in i..n /\ i > 0 /\ i < j /\ j < n
        /\ j = i + PageSize /\ k - PageSize = i + 1 /\ k - PageSize \in 1..n /\ k - 1 \in 1..n
    BY <1>1, <1>2, <1>5, <1>10, <2>3, <2>4
  <2>6. page = SubSeq(all, i + 1, j)
    BY <2>4, <2>5
  <2>7. SubSeq(all, i + 1, j) \in Seq(rows)
    BY <1>5, <2>5 DEF n
  <2> HIDE DEF page
  <2>8. First' = all[i + 1] /\ Final' = all[j]
    BY <2>1, <2>4, <2>5 DEF First, Final, Reversed
  <2>9. Shows((All)', shown', First', Final', i, j)
    <3>1. /\ i \in 0..Len(all) /\ j \in i..Len(all) /\ j <= i + PageSize /\ j < Len(all)
      BY <2>5 DEF n
    <3>2. /\ shown'.page = SubSeq(all, i + 1, j)
          /\ shown'.hasPrevious = (i > 0) /\ shown'.hasNext = (j < Len(all))
      BY <2>1, <2>5, <2>6, <3>1
    <3>3. QED
      BY <1>4, <2>5, <2>8, <3>1, <3>2 DEF Shows
  <2>10. PageTypes'
    <3>1. page \in Seq(PageRows)
      BY <1>6, <2>6, <2>7
    <3>2. shown' \in [page : Seq(PageRows), hasNext : BOOLEAN, hasPrevious : BOOLEAN]
      BY <2>1, <3>1
    <3>3. rangeStart' \in PageRows /\ rangeEnd' \in PageRows
      BY <1>5, <1>6, <2>1, <2>5 DEF n
    <3>4. QED
      BY <1>1, <1>3, <2>1, <3>2, <3>3 DEF PageTypes, PageRows, NoRow
  <2>11. PageCursor'
    BY <1>1, <1>3, <1>4, <2>1 DEF PageCursor, Ahead, Reversed, NoRow
  <2>12. PageSettled'
    <3>1. after' # NoRow
      BY <2>1, <2>2
    <3>2. \E x, y \in Nat : Shows((All)', shown', First', Final', x, y)
      BY <2>5, <2>9
    <3>3. QED
      BY <3>1, <3>2 DEF PageSettled, NoRow
  <2>13. PageTurn'
    BY <1>1, <1>3, <1>4, <2>1 DEF PageTurn, NoRow, Last
  <2>14. PageTiles'
    <3> SUFFICES ASSUME turn.quiet, turn.from # <<>>, page # <<>>, turn.to = "previous"
                 PROVE  Place(rows, Last(page)) = Place(rows, turn.from[1]) - 1
      BY <1>3, <1>4, <1>7, <2>1 DEF PageTiles, Last
    <3>1. turn.from[1] = after
      BY <1>8
    <3>2. SubSeq(all, i + 1, j) = [m \in 1..(j - (i + 1) + 1) |-> all[m + (i + 1) - 1]]
      <4>1. i + 1 \in Nat \ {0} /\ j <= Len(all)
        BY <2>5 DEF n
      <4>2. QED
        BY <1>5, <2>5, <4>1, PartIs, SMTT(30)
    <3>3. /\ j - (i + 1) + 1 = PageSize /\ PageSize \in 1..PageSize
          /\ PageSize + (i + 1) - 1 = j
      BY <1>1, <2>5
    <3>4. page = [m \in 1..PageSize |-> all[m + (i + 1) - 1]]
      BY <2>6, <3>2, <3>3
    <3>5. Len(page) = PageSize
      BY <1>1, <3>4
    <3>6. Last(page) = all[j]
      BY <3>3, <3>4, <3>5 DEF Last
    <3>7. Place(rows, all[j]) = j
      BY <1>5, <2>5
    <3>8. QED
      BY <1>2, <2>4, <3>1, <3>6, <3>7 DEF k
  <2>15. QED
    BY <2>10, <2>11, <2>12, <2>13, <2>14 DEF PageInv
<1>11. k < PageSize + 2 \/ k >= PageSize + 2
  BY <1>1, <1>2, <1>5
<1>12. QED
  BY <1>9, <1>10, <1>11

(* The caller turns the page once its results are in; it leaves a page     *)
(* that has an end, with a row past that.                                  *)
LEMMA PageNextPage ==
  ASSUME ~Hasty, PageInv, NextPage
  PROVE  PageInv'
<1> DEFINE all == All
<1>1. PageTypes /\ PageCursor /\ PageSettled /\ PageSize \in Nat \ {0}
  BY PagesAssumption DEF PageInv
<1>2. /\ shown.hasNext /\ ~pageDue
      /\ IF Reversed THEN after' = rangeStart /\ limit' = limit
                           ELSE limit' = Limit /\ after' = rangeEnd
      /\ direction' = "forward" /\ pageDue' = TRUE
      /\ turn' = [to |-> "next", from |-> shown.page, quiet |-> TRUE]
      /\ UNCHANGED <<rows, descending, rangeStart, rangeEnd, shown>>
  <2>1. pageDue \in BOOLEAN
    BY <1>1 DEF PageTypes
  <2>2. ~pageDue
    BY DEF NextPage, Move
  <2>3. QED
    BY <2>1, <2>2 DEF NextPage, Move, Cursor
<1>3. PICK i \in Nat, j \in Nat : Shows(all, shown, First, Final, i, j)
  BY <1>1, <1>2 DEF PageSettled
<1>4. shown \in [page : Seq(PageRows), hasNext : BOOLEAN, hasPrevious : BOOLEAN]
  BY <1>1 DEF PageTypes
<1>5. /\ Len(all) \in Nat /\ all \in Seq(rows) /\ j <= Len(all)
      /\ Len(shown.page) = j - i
      /\ i < j => shown.page[1] = all[i + 1] /\ Last(shown.page) = all[j]
  BY <1>1, <1>3, <1>4, PageEnds
<1>6. /\ all = Sorted(rows, Before) /\ rows \in SUBSET PageRows /\ IsFiniteSet(rows)
  BY <1>1 DEF All, PageTypes
<1>7. \A m \in 1..Len(all) : Place(rows, all[m]) = m
  <2>1. /\ \A m \in 1..Cardinality(rows) : Place(rows, all[m]) = m
        /\ all \in [1..Cardinality(rows) -> rows] /\ Cardinality(rows) \in Nat
    BY <1>6, SortedPlaces
  <2>2. QED
    BY <2>1
<1> HIDE DEF all
<1>8. j < Len(all) /\ j = i + PageSize /\ Final = all[j] /\ i < j
  BY <1>1, <1>2, <1>3, <1>4, <1>5 DEF Shows
<1>9. after' = all[j]
  BY <1>2, <1>8 DEF Final
<1>10. j \in 1..Len(all) /\ j + 1 \in 1..Len(all)
  BY <1>5, <1>8
<1>11. all[j] \in rows /\ all[j + 1] \in rows
  BY <1>5, <1>10
<1>12. Before(all[j], all[j + 1])
  <2>1. Place(rows, all[j]) < Place(rows, all[j + 1])
    BY <1>5, <1>7, <1>8, <1>10, SMTT(30)
  <2>2. QED
    BY <1>6, <1>11, <2>1, PlacesOrder
<1>13. after' # NoRow
  <2>1. all[j] \in PageRows
    BY <1>6, <1>11
  <2>2. all[j].key \in Nat
    BY <2>1, PagesAssumption DEF PageRows
  <2>3. QED
    BY <1>9, <2>2 DEF NoRow
<1>14. limit' = PageSize + 2
  <2>1. CASE Reversed
    BY <1>1, <1>2, <2>1 DEF PageCursor, Reversed
  <2>2. CASE ~Reversed
    BY <1>1, <1>2, <2>2 DEF PageCursor, Limit
  <2>3. QED
    BY <2>1, <2>2
<1>15. PageCursor'
  <2>1. (\E r \in rows : Ahead(after, r))'
    <3>1. \A r, s : Ahead(r, s)' = Before(r, s)
      BY <1>2 DEF Ahead, Reversed, Before
    <3>2. QED
      BY <1>2, <1>9, <1>11, <1>12, <3>1
  <2>2. QED
    BY <1>2, <1>9, <1>11, <1>13, <1>14, <2>1 DEF PageCursor, NoRow
<1>16. PageTypes'
  <2>1. turn' \in [to : {"start", "next", "previous"}, from : Seq(PageRows), quiet : BOOLEAN]
    BY <1>2, <1>4
  <2>2. QED
    BY <1>1, <1>2, <2>1 DEF PageTypes, PageRows, NoRow
<1>17. PageSettled' /\ PageTiles'
  BY <1>2 DEF PageSettled, PageTiles
<1>18. PageTurn'
  <2>1. turn'.to = "next" /\ turn'.from = shown.page
    BY <1>2
  <2>2. after' = Last(turn'.from)
    BY <1>5, <1>8, <1>9, <2>1
  <2>3. QED
    BY <1>2, <1>13, <2>1, <2>2 DEF PageTurn, NoRow, Last
<1>19. QED
  BY <1>15, <1>16, <1>17, <1>18 DEF PageInv

(* The same for prevPage.                                                  *)
LEMMA PagePrevPage ==
  ASSUME ~Hasty, PageInv, PrevPage
  PROVE  PageInv'
<1> DEFINE all == All
<1>1. PageTypes /\ PageCursor /\ PageSettled /\ PageSize \in Nat \ {0}
  BY PagesAssumption DEF PageInv
<1>2. /\ shown.hasPrevious /\ ~pageDue
      /\ after' = IF Reversed THEN rangeEnd ELSE rangeStart
      /\ direction' = "reversed" /\ pageDue' = TRUE /\ limit' = limit
      /\ turn' = [to |-> "previous", from |-> shown.page, quiet |-> TRUE]
      /\ UNCHANGED <<rows, descending, rangeStart, rangeEnd, shown>>
  <2>1. pageDue \in BOOLEAN
    BY <1>1 DEF PageTypes
  <2>2. ~pageDue
    BY DEF PrevPage, Move
  <2>3. QED
    BY <2>1, <2>2 DEF PrevPage, Move, Cursor
<1>3. PICK i \in Nat, j \in Nat : Shows(all, shown, First, Final, i, j)
  BY <1>1, <1>2 DEF PageSettled
<1>4. shown \in [page : Seq(PageRows), hasNext : BOOLEAN, hasPrevious : BOOLEAN]
  BY <1>1 DEF PageTypes
<1>5. /\ Len(all) \in Nat /\ all \in Seq(rows) /\ j <= Len(all)
      /\ Len(shown.page) = j - i
      /\ i < j => shown.page[1] = all[i + 1] /\ Last(shown.page) = all[j]
  BY <1>1, <1>3, <1>4, PageEnds
<1>6. /\ all = Sorted(rows, Before) /\ rows \in SUBSET PageRows /\ IsFiniteSet(rows)
  BY <1>1 DEF All, PageTypes
<1>7. \A m \in 1..Len(all) : Place(rows, all[m]) = m
  <2>1. /\ \A m \in 1..Cardinality(rows) : Place(rows, all[m]) = m
        /\ all \in [1..Cardinality(rows) -> rows] /\ Cardinality(rows) \in Nat
    BY <1>6, SortedPlaces
  <2>2. QED
    BY <2>1
<1> HIDE DEF all
<1>8. i > 0 /\ i < j /\ First = all[i + 1] /\ after # NoRow
  BY <1>1, <1>2, <1>3 DEF Shows, PageSettled
<1>9. after' = all[i + 1]
  BY <1>2, <1>8 DEF First
<1>10. i \in 1..Len(all) /\ i + 1 \in 1..Len(all)
  BY <1>5, <1>8
<1>11. all[i] \in rows /\ all[i + 1] \in rows
  BY <1>5, <1>10
<1>12. Before(all[i], all[i + 1])
  <2>1. Place(rows, all[i]) < Place(rows, all[i + 1])
    BY <1>5, <1>7, <1>8, <1>10
  <2>2. QED
    BY <1>6, <1>11, <2>1, PlacesOrder
<1>13. after' # NoRow
  <2>1. all[i + 1] \in PageRows
    BY <1>6, <1>11
  <2>2. all[i + 1].key \in Nat
    BY <2>1, PagesAssumption DEF PageRows
  <2>3. QED
    BY <1>9, <2>2 DEF NoRow
<1>14. limit' = PageSize + 2
  BY <1>1, <1>2, <1>8 DEF PageCursor
<1>15. PageCursor'
  <2>1. (\E r \in rows : Ahead(after, r))'
    <3>1. \A r, s : Ahead(r, s)' = Before(s, r)
      BY <1>2 DEF Ahead, Reversed, Before
    <3>2. QED
      BY <1>2, <1>9, <1>11, <1>12, <3>1
  <2>2. QED
    BY <1>2, <1>9, <1>11, <1>13, <1>14, <2>1 DEF PageCursor, NoRow
<1>16. PageTypes'
  <2>1. turn' \in [to : {"start", "next", "previous"}, from : Seq(PageRows), quiet : BOOLEAN]
    BY <1>2, <1>4
  <2>2. QED
    BY <1>1, <1>2, <2>1 DEF PageTypes, PageRows, NoRow
<1>17. PageSettled' /\ PageTiles'
  BY <1>2 DEF PageSettled, PageTiles
<1>18. PageTurn'
  <2>1. turn'.to = "previous" /\ turn'.from[1] = all[i + 1]
    BY <1>2, <1>5, <1>8
  <2>2. turn'.from[1] \in rows' /\ after' = turn'.from[1]
    BY <1>2, <1>9, <1>11, <2>1
  <2>3. QED
    BY <1>2, <2>1, <2>2 DEF PageTurn, NoRow, Last
<1>19. QED
  BY <1>15, <1>16, <1>17, <1>18 DEF PageInv

(* What is written to other rows than those from the cursor on leaves the  *)
(* cursor and the row on its other side.                                   *)
LEMMA PageWritten ==
  ASSUME PageInv, NEW new, Written(new),
         new \in SUBSET PageRows, IsFiniteSet(new),
         after = NoRow \/ \A r \in rows : ~Ahead(r, after) => r \in new
  PROVE  PageInv'
<1>1. PageTypes /\ PageCursor
  BY DEF PageInv
<1>2. /\ rows' = new /\ pageDue' = TRUE /\ turn' = [turn EXCEPT !.quiet = FALSE]
      /\ UNCHANGED <<descending, after, limit, direction, rangeStart, rangeEnd, shown>>
  BY DEF Written
<1>3. /\ turn' \in [to : {"start", "next", "previous"}, from : Seq(PageRows), quiet : BOOLEAN]
      /\ turn'.quiet = FALSE
  BY <1>1, <1>2 DEF PageTypes
<1>4. PageTypes'
  BY <1>1, <1>2, <1>3 DEF PageTypes, PageRows, NoRow
<1>5. PageCursor'
  <2>1. \A r, s : Ahead(r, s)' = Ahead(r, s)
    BY <1>2 DEF Ahead, Reversed, Before
  <2>2. ASSUME after # NoRow PROVE after \in new /\ \E r \in new : Ahead(after, r)
    <3>1. PICK r \in rows : Ahead(after, r)
      BY <1>1, <2>2 DEF PageCursor
    <3>2. after \in rows /\ rows \subseteq PageRows
      BY <1>1, <2>2 DEF PageCursor, PageTypes
    <3>3. ~Ahead(after, after) /\ ~Ahead(r, after)
      BY <3>1, <3>2, BeforeOrders DEF Ahead
    <3>4. QED
      BY <2>2, <3>1, <3>2, <3>3
  <2>3. QED
    BY <1>1, <1>2, <2>1, <2>2 DEF PageCursor, NoRow
<1>6. PageSettled' /\ PageTiles' /\ PageTurn'
  BY <1>2, <1>3 DEF PageSettled, PageTiles, PageTurn
<1>7. QED
  BY <1>4, <1>5, <1>6 DEF PageInv

(* Each of the three writes keeps the invariant.                           *)
LEMMA PageWrites ==
  ASSUME ~Adrift, PageInv,
         \/ \E r \in PageRows : Insert(r)
         \/ \E r \in rows : Delete(r) \/ \E key \in Keys : Update(r, key)
  PROVE  PageInv'
<1>1. rows \in SUBSET PageRows /\ IsFiniteSet(rows)
  BY DEF PageInv, PageTypes
<1>2. ASSUME NEW r \in PageRows, Insert(r) PROVE PageInv'
  <2>1. Written(rows \union {r})
    BY <1>2 DEF Insert
  <2>2. rows \union {r} \in SUBSET PageRows /\ IsFiniteSet(rows \union {r})
    BY <1>1, FS_AddElement
  <2>3. \A s \in rows : s \in rows \union {r}
    OBVIOUS
  <2>4. QED
    BY <2>1, <2>2, <2>3, PageWritten
<1>3. ASSUME NEW r \in rows, Delete(r) PROVE PageInv'
  <2>1. Written(rows \ {r}) /\ (after = NoRow \/ Ahead(r, after))
    BY <1>3 DEF Delete, MayMove
  <2>2. rows \ {r} \in SUBSET PageRows /\ IsFiniteSet(rows \ {r})
    BY <1>1, FS_RemoveElement
  <2>3. after = NoRow \/ \A s \in rows : ~Ahead(s, after) => s \in rows \ {r}
    BY <2>1
  <2>4. QED
    BY <2>1, <2>2, <2>3, PageWritten
<1>4. ASSUME NEW r \in rows, NEW key \in Keys, Update(r, key) PROVE PageInv'
  <2>1. PICK s : s = [r EXCEPT !.key = key]
    OBVIOUS
  <2>2. /\ Written((rows \ {r}) \union {s})
        /\ after = NoRow \/ Ahead(r, after)
    BY <1>4, <2>1 DEF Update, MayMove
  <2>3. s \in PageRows
    BY <1>1, <2>1 DEF PageRows
  <2>4. IsFiniteSet(rows \ {r})
    BY <1>1, FS_RemoveElement
  <2>5. (rows \ {r}) \union {s} \in SUBSET PageRows /\ IsFiniteSet((rows \ {r}) \union {s})
    BY <1>1, <2>3, <2>4, FS_AddElement
  <2>6. after = NoRow \/ \A t \in rows : ~Ahead(t, after) => t \in (rows \ {r}) \union {s}
    BY <2>2
  <2>7. QED
    BY <2>2, <2>5, <2>6, PageWritten
<1>5. QED
  BY <1>2, <1>3, <1>4

(* A step that changes nothing keeps it.                                   *)
LEMMA PageStutter ==
  ASSUME PageInv, UNCHANGED pagesVars
  PROVE  PageInv'
<1>1. /\ UNCHANGED <<rows, descending, after, limit, direction, rangeStart, rangeEnd, pageDue>>
      /\ UNCHANGED <<shown, turn>>
  BY DEF pagesVars
<1>2. /\ (All)' = All
      /\ \A r : Place(rows, r)' = Place(rows, r)
      /\ \A r, s : Before(r, s)' = Before(r, s)
  BY <1>1, PlacesKept
<1>3. PageTypes'
  BY <1>1 DEF PageInv, PageTypes, PageRows, NoRow
<1>4. PageCursor'
  BY <1>1, <1>2 DEF PageInv, PageCursor, Ahead, Reversed, NoRow
<1>5. PageSettled'
  <2>1. First' = First /\ Final' = Final
    BY <1>1 DEF First, Final, Reversed
  <2>2. QED
    BY <1>1, <1>2, <2>1 DEF PageInv, PageSettled, NoRow
<1>6. PageTurn'
  BY <1>1, <1>2 DEF PageInv, PageTurn, NoRow, Last
<1>7. PageTiles'
  BY <1>1, <1>2 DEF PageInv, PageTiles, Last
<1>8. QED
  BY <1>3, <1>4, <1>5, <1>6, <1>7 DEF PageInv

(* The page is the one that PageHonest asks for.                           *)
LEMMA PageHonestHolds ==
  ASSUME PageInv
  PROVE  PageHonest
<1> DEFINE all == All
<1> SUFFICES ASSUME ~pageDue
             PROVE  \E i \in 0..Len(all) : \E j \in i..Len(all) :
                      /\ shown.page = SubSeq(all, i + 1, j)
                      /\ shown.hasPrevious = (i > 0) /\ shown.hasNext = (j < Len(all))
                      /\ Len(shown.page) <= PageSize
                      /\ shown.hasNext => Len(shown.page) = PageSize
  BY DEF PageHonest
<1>1. PageTypes /\ PageSettled /\ PageSize \in Nat \ {0}
  BY PagesAssumption DEF PageInv
<1>2. PICK i \in Nat, j \in Nat : Shows(all, shown, First, Final, i, j)
  BY <1>1 DEF PageSettled
<1>3. shown \in [page : Seq(PageRows), hasNext : BOOLEAN, hasPrevious : BOOLEAN]
  BY <1>1 DEF PageTypes
<1>4. Len(shown.page) = j - i
  BY <1>1, <1>2, <1>3, PageEnds
<1> HIDE DEF all
<1>5. /\ i \in 0..Len(all) /\ j \in i..Len(all) /\ j <= i + PageSize
      /\ shown.page = SubSeq(all, i + 1, j)
      /\ shown.hasPrevious = (i > 0) /\ shown.hasNext = (j < Len(all))
      /\ shown.hasNext => j = i + PageSize
  BY <1>2 DEF Shows
<1>6. Len(shown.page) <= PageSize /\ (shown.hasNext => Len(shown.page) = PageSize)
  BY <1>1, <1>4, <1>5
<1>7. QED
  BY <1>5, <1>6

(* And a flag is set just when there are rows past the page on its side.   *)
LEMMA FlagsHonestHold ==
  ASSUME PageInv
  PROVE  FlagsHonest
<1> DEFINE all == All
<1> SUFFICES ASSUME ~pageDue, shown.page # <<>>
             PROVE  /\ shown.hasPrevious <=> \E r \in rows : Before(r, shown.page[1])
                    /\ shown.hasNext <=> \E r \in rows : Before(Last(shown.page), r)
  BY DEF FlagsHonest
<1>1. PageTypes /\ PageSettled
  BY DEF PageInv
<1>2. PICK i \in Nat, j \in Nat : Shows(all, shown, First, Final, i, j)
  BY <1>1 DEF PageSettled
<1>3. shown \in [page : Seq(PageRows), hasNext : BOOLEAN, hasPrevious : BOOLEAN]
  BY <1>1 DEF PageTypes
<1>4. /\ Len(all) \in Nat /\ all \in Seq(rows) /\ j <= Len(all) /\ i <= j
      /\ Len(shown.page) = j - i
      /\ i < j => shown.page[1] = all[i + 1] /\ Last(shown.page) = all[j]
  BY <1>1, <1>2, <1>3, PageEnds
<1>5. rows \in SUBSET PageRows /\ IsFiniteSet(rows)
  BY <1>1 DEF PageTypes
<1>6. /\ \A m \in 1..Len(all) : Place(rows, all[m]) = m
      /\ \A r \in rows : Place(rows, r) \in 1..Len(all) /\ all[Place(rows, r)] = r
  <2>1. /\ \A m \in 1..Cardinality(rows) : Place(rows, all[m]) = m
        /\ \A r \in rows : Place(rows, r) \in 1..Cardinality(rows) /\ all[Place(rows, r)] = r
        /\ all \in [1..Cardinality(rows) -> rows] /\ Cardinality(rows) \in Nat
    BY <1>5, SortedPlaces DEF All
  <2>2. QED
    BY <2>1
<1> HIDE DEF all
<1>7. shown.hasPrevious = (i > 0) /\ shown.hasNext = (j < Len(all))
  BY <1>2 DEF Shows
<1>8. i < j /\ i + 1 \in 1..Len(all) /\ j \in 1..Len(all)
  <2>1. Len(shown.page) # 0
    BY <1>3
  <2>2. QED
    BY <1>4, <2>1
<1>9. ASSUME NEW r \in rows, NEW s \in rows
      PROVE  Before(r, s) <=> Place(rows, r) < Place(rows, s)
  <2>1. Place(rows, r) \in Nat /\ Place(rows, s) \in Nat
    BY <1>4, <1>6, SMTT(30)
  <2>2. CASE Place(rows, r) < Place(rows, s)
    BY <1>5, <2>2, PlacesOrder
  <2>3. CASE Place(rows, s) < Place(rows, r)
    <3>1. Before(s, r)
      BY <1>5, <2>3, PlacesOrder
    <3>2. ~Before(r, s)
      BY <1>5, <3>1, BeforeOrders
    <3>3. QED
      BY <2>1, <2>3, <3>2
  <2>4. CASE Place(rows, r) = Place(rows, s)
    <3>1. r = s
      BY <1>6, <2>4
    <3>2. ~Before(r, s)
      BY <1>5, <3>1, BeforeOrders
    <3>3. QED
      BY <2>1, <2>4, <3>2
  <2>5. QED
    BY <2>1, <2>2, <2>3, <2>4
<1>10. all[i + 1] \in rows /\ all[j] \in rows
  BY <1>4, <1>8
<1>11. i > 0 <=> \E r \in rows : Before(r, all[i + 1])
  <2>1. ASSUME i > 0 PROVE \E r \in rows : Before(r, all[i + 1])
    <3>1. i \in 1..Len(all) /\ all[i] \in rows
      BY <1>4, <1>8, <2>1
    <3>2. Place(rows, all[i]) < Place(rows, all[i + 1])
      BY <1>6, <1>8, <3>1
    <3>3. QED
      BY <1>9, <1>10, <3>1, <3>2
  <2>2. ASSUME NEW r \in rows, Before(r, all[i + 1]) PROVE i > 0
    <3>1. Place(rows, r) < Place(rows, all[i + 1])
      BY <1>9, <1>10, <2>2
    <3>2. QED
      BY <1>4, <1>6, <1>8, <3>1
  <2>3. QED
    BY <2>1, <2>2
<1>12. j < Len(all) <=> \E r \in rows : Before(all[j], r)
  <2>1. ASSUME j < Len(all) PROVE \E r \in rows : Before(all[j], r)
    <3>1. j + 1 \in 1..Len(all) /\ all[j + 1] \in rows
      BY <1>4, <1>8, <2>1
    <3>2. Place(rows, all[j]) < Place(rows, all[j + 1])
      BY <1>6, <1>8, <3>1
    <3>3. QED
      BY <1>9, <1>10, <3>1, <3>2
  <2>2. ASSUME NEW r \in rows, Before(all[j], r) PROVE j < Len(all)
    <3>1. Place(rows, all[j]) < Place(rows, r)
      BY <1>9, <1>10, <2>2
    <3>2. QED
      BY <1>4, <1>6, <1>8, <3>1
  <2>3. QED
    BY <2>1, <2>2
<1>13. QED
  BY <1>3, <1>4, <1>7, <1>8, <1>11, <1>12

(* The invariant implies the types.                                        *)
LEMMA PageTypesCorrect ==
  ASSUME PageInv
  PROVE  PagesTypeOK
<1>1. PageTypes /\ PageCursor /\ PageSize \in Nat
  BY PagesAssumption DEF PageInv
<1>2. after \in PageRows \union {NoRow}
  BY <1>1 DEF PageTypes, PageCursor
<1>3. limit \in PageSize + 1 .. PageSize + 2
  BY <1>1 DEF PageCursor
<1>4. shown.page \in Seq(PageRows) /\ shown.hasNext \in BOOLEAN /\ shown.hasPrevious \in BOOLEAN
  BY <1>1 DEF PageTypes
<1>5. QED
  BY <1>1, <1>2, <1>3, <1>4 DEF PageTypes, PagesTypeOK

-----------------------------------------------------------------------------
(* Theorems about the pages.  The caller waits for the results of its last *)
(* move, and no row from the cursor on is deleted or changes its key.      *)

LEMMA PagesInvariant ==
  ASSUME ~Hasty, ~Adrift
  PROVE  PagesSpec => []PageInv
<1>1. PagesInit => PageInv
  BY PageInit
<1>2. PageInv /\ [PagesNext]_(pagesVars) => PageInv'
  <2> SUFFICES ASSUME PageInv, [PagesNext]_(pagesVars) PROVE PageInv'
    OBVIOUS
  <2>1. CASE HandleResults
    BY <2>1, PageHandledForward, PageHandledReversed
  <2>2. CASE NextPage
    BY <2>2, PageNextPage
  <2>3. CASE PrevPage
    BY <2>3, PagePrevPage
  <2>4. CASE \/ \E r \in PageRows : Insert(r)
             \/ \E r \in rows : Delete(r) \/ \E key \in Keys : Update(r, key)
    BY <2>4, PageWrites
  <2>5. CASE UNCHANGED pagesVars
    BY <2>5, PageStutter
  <2>6. QED
    BY <2>1, <2>2, <2>3, <2>4, <2>5 DEF PagesNext
<1>3. QED
  BY <1>1, <1>2, PTL DEF PagesSpec

(* Cursors are rows or undefined, and a query asks for a row more than the *)
(* page has, or two.                                                       *)
THEOREM PagesTypeCorrect ==
  ASSUME ~Hasty, ~Adrift
  PROVE  PagesSpec => []PagesTypeOK
<1>1. PageInv => PagesTypeOK
  BY PageTypesCorrect
<1>2. QED
  BY <1>1, PagesInvariant, PTL

(* What the callback of subscribeWithPagination was given last is a page   *)
(* of the rows there are, in their order and with no row missing, and it   *)
(* was told truly whether there are rows before it and after it.           *)
THEOREM PagesAreHonest ==
  ASSUME ~Hasty, ~Adrift
  PROVE  PagesSpec => []PageHonest
<1>1. PageInv => PageHonest
  BY PageHonestHolds
<1>2. QED
  BY <1>1, PagesInvariant, PTL

(* hasPreviousPage and hasNextPage are true just when a row is before the  *)
(* page, or after it.                                                      *)
THEOREM PageFlagsHonest ==
  ASSUME ~Hasty, ~Adrift
  PROVE  PagesSpec => []FlagsHonest
<1>1. PageInv => FlagsHonest
  BY FlagsHonestHold
<1>2. QED
  BY <1>1, PagesInvariant, PTL

(* nextPage shows the rows that follow the page that was shown, and        *)
(* prevPage those before it, or the first page: with no write in between,  *)
(* to turn pages skips no row and shows none twice.                        *)
THEOREM PagesTurnsTile ==
  ASSUME ~Hasty, ~Adrift
  PROVE  PagesSpec => []TurnsTile
<1>1. PageInv => TurnsTile
  BY TilesIs DEF PageInv
<1>2. QED
  BY <1>1, PagesInvariant, PTL

============================================================================
