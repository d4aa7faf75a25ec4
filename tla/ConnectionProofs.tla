-------------------------- MODULE ConnectionProofs --------------------------
(***************************************************************************)
(* Theorems about Connection, for any number of sessions, calls and        *)
(* faults: types; and, for an application that lets sockets open and close *)
(* and timers fire before it calls again, that there is one connection,    *)
(* that its status is told, and that a client which disconnected stays so. *)
(***************************************************************************)
EXTENDS Connection, TLAPS

SocketType == [session : Sessions, token : Nat, state : Statuses \ {"UNINITIALIZED"},
               reason : {"none", "manual"}, closer : {"no", "none", "manual"},
               greeted : BOOLEAN]

Reasons == {"none", "manual"}

Counts == [sessions : 0..MaxSessions, calls : Nat, losses : Nat, refusals : Nat]

-----------------------------------------------------------------------------
(* Closing sockets: they stay the sockets they are, whatever their number. *)

LEMMA ShutType ==
  ASSUME NEW socks \in Seq(SocketType), NEW k \in 0..Len(socks), NEW reason \in Reasons
  PROVE  /\ Shut(socks, k, reason) \in Seq(SocketType)
         /\ Len(Shut(socks, k, reason)) = Len(socks)
<1>1. CASE k = 0
  BY <1>1 DEF Shut
<1>2. CASE k # 0
  <2>1. k \in DOMAIN socks /\ socks[k] \in SocketType
    BY <1>2
  <2>2. [socks[k] EXCEPT !.state = "CLOSING", !.reason = reason] \in SocketType
        /\ [socks[k] EXCEPT !.state = "CLOSING"] \in SocketType
    BY <2>1 DEF SocketType, Statuses, Reasons
  <2>3. [socks EXCEPT ![k] = [socks[k] EXCEPT !.state = "CLOSING", !.reason = reason]]
          \in Seq(SocketType)
        /\ [socks EXCEPT ![k] = [socks[k] EXCEPT !.state = "CLOSING"]] \in Seq(SocketType)
    BY <2>1, <2>2
  <2> QED BY <2>1, <2>3 DEF Shut
<1> QED BY <1>1, <1>2

LEMMA CloseWsType ==
  ASSUME NEW socks \in Seq(SocketType), ws \in 0..Len(socks), NEW reason \in Reasons
  PROVE  /\ CloseWs(socks, reason) \in Seq(SocketType)
         /\ Len(CloseWs(socks, reason)) = Len(socks)
<1>1. CASE ws # 0 /\ socks[ws].state = "CONNECTING"
  <2>1. ws \in DOMAIN socks /\ socks[ws] \in SocketType
    BY <1>1
  <2> DEFINE closer == IF socks[ws].closer = "no" THEN reason ELSE socks[ws].closer
  <2>2. [socks[ws] EXCEPT !.closer = closer] \in SocketType
    BY <2>1 DEF SocketType, Reasons
  <2>3. CloseWs(socks, reason) = [socks EXCEPT ![ws] = [socks[ws] EXCEPT !.closer = closer]]
    BY <1>1, <2>1 DEF CloseWs
  <2> QED BY <2>1, <2>2, <2>3
<1>2. CASE ~(ws # 0 /\ socks[ws].state = "CONNECTING")
  BY <1>2, ShutType DEF CloseWs
<1> QED BY <1>1, <1>2

LEMMA CreatedType ==
  ASSUME TypeOK, NEW s \in 0..MaxSessions, NEW socks \in Seq(SocketType),
         Len(socks) = Len(sockets), NEW stat \in [Sessions -> Statuses],
         Created(s, socks, stat)
  PROVE  /\ sockets' \in Seq(SocketType) /\ ws' \in 0..Len(sockets')
         /\ Len(sockets) <= Len(sockets')
         /\ status' \in [Sessions -> Statuses]
<1> ws \in 0..Len(socks) /\ token \in [Sessions -> Nat]
  BY DEF TypeOK
<1>1. CASE s = 0 \/ Refused(stat[s])
  BY <1>1 DEF Created
<1>2. CASE ~(s = 0 \/ Refused(stat[s]))
  <2>1. s \in Sessions
    BY <1>2, ConnectionAssumption DEF Sessions
  <2>2. Socket(s) \in SocketType
    BY <2>1 DEF Socket, SocketType, Statuses
  <2> DEFINE closed == CloseWs(socks, "none")
  <2>3. closed \in Seq(SocketType) /\ Len(closed) = Len(socks)
    BY CloseWsType DEF Reasons
  <2> HIDE DEF closed
  <2>4. sockets' = Append(closed, Socket(s)) /\ ws' = Len(sockets')
        /\ status' = [stat EXCEPT ![s] = "CONNECTING"]
    BY <1>2 DEF Created, closed
  <2>5. Append(closed, Socket(s)) \in Seq(SocketType)
        /\ Len(Append(closed, Socket(s))) = Len(closed) + 1
    BY <2>2, <2>3
  <2>6. status' \in [Sessions -> Statuses]
    BY <2>1, <2>4 DEF Statuses
  <2>7. Len(sockets) \in Nat /\ Len(sockets) = Len(closed)
    BY <2>3 DEF TypeOK
  <2> QED BY <2>4, <2>5, <2>6, <2>7
<1> QED BY <1>1, <1>2

-----------------------------------------------------------------------------
(* Types.                                                                  *)

LEMMA TypeInit == Init => TypeOK
<1>1. MaxSessions \in Nat
  BY ConnectionAssumption
<1> SUFFICES ASSUME Init PROVE TypeOK
  OBVIOUS
<1>2. sockets = <<>> /\ ws = 0 /\ synced = 0 /\ current = 0 /\ leaked = 0
      /\ armed = FALSE /\ serverReady = FALSE /\ wanted = FALSE
      /\ used = [sessions |-> 0, calls |-> 0, losses |-> 0, refusals |-> 0]
  BY DEF Init
<1>3. sockets \in Seq(SocketType) /\ Len(sockets) = 0
  BY <1>2
<1>4. status \in [Sessions -> Statuses] /\ token \in [Sessions -> Nat]
  BY DEF Init, Statuses
<1>5. used \in Counts
  BY <1>1, <1>2 DEF Counts
<1>6. ws \in 0..Len(sockets) /\ synced \in 0..Len(sockets) /\ current \in 0..MaxSessions
      /\ leaked \in Nat
  BY <1>1, <1>2, <1>3
<1> QED BY <1>2, <1>3, <1>4, <1>5, <1>6 DEF TypeOK, SocketType, Counts

LEMMA TeardownType ==
  ASSUME TypeOK
  PROVE  /\ Teardown("manual") \in Seq(SocketType)
         /\ Len(Teardown("manual")) = Len(sockets)
         /\ Disconnected \in [Sessions -> Statuses]
<1>1. Disconnected \in [Sessions -> Statuses]
  BY DEF TypeOK, Disconnected, Statuses
<1>2. sockets \in Seq(SocketType) /\ ws \in 0..Len(sockets)
  BY DEF TypeOK, SocketType
<1> QED BY <1>1, <1>2, CloseWsType DEF Teardown, Reasons

(* What onCloseHandler leaves of the sockets it is given.                  *)
LEMMA OnCloseType ==
  ASSUME TypeOK, NEW k \in DOMAIN sockets,
         NEW socks \in Seq(SocketType), Len(socks) = Len(sockets),
         NEW reason \in Reasons, OnClose(k, socks, reason)
  PROVE  /\ sockets' \in Seq(SocketType) /\ Len(sockets') = Len(sockets)
         /\ status' \in [Sessions -> Statuses]
         /\ serverReady' \in BOOLEAN /\ synced' = 0
         /\ armed' \in BOOLEAN /\ leaked' \in Nat
<1>1. k \in DOMAIN socks /\ socks[k] \in SocketType
  BY DEF TypeOK
<1>2. [socks[k] EXCEPT !.state = "CLOSED"] \in SocketType
  BY <1>1 DEF SocketType, Statuses
<1>3. sockets' = [socks EXCEPT ![k] = [socks[k] EXCEPT !.state = "CLOSED"]]
  BY <1>1 DEF OnClose
<1>4. sockets' \in Seq(SocketType) /\ Len(sockets') = Len(sockets)
  BY <1>1, <1>2, <1>3
<1>5. status' \in [Sessions -> Statuses]
  BY DEF OnClose, TypeOK, Statuses
<1>6. armed' \in BOOLEAN /\ leaked' \in Nat
  <2>1. armed \in BOOLEAN /\ leaked \in Nat
    BY DEF TypeOK
  <2>2. \/ armed' = armed /\ leaked' = leaked
        \/ armed' = TRUE /\ leaked' \in {leaked, leaked + 1}
    BY DEF OnClose
  <2>3. leaked' \in Nat
    BY <2>1, <2>2
  <2> QED BY <2>1, <2>2, <2>3
<1> QED BY <1>4, <1>5, <1>6 DEF OnClose, Forgotten

LEMMA TypeStep == TypeOK /\ [Next]_vars => TypeOK'
<1> SUFFICES ASSUME TypeOK, [Next]_vars PROVE TypeOK'
  OBVIOUS
<1>t. /\ sockets \in Seq(SocketType) /\ ws \in 0..Len(sockets) /\ synced \in 0..Len(sockets)
      /\ Len(sockets) \in Nat /\ MaxSessions \in Nat
      /\ status \in [Sessions -> Statuses] /\ token \in [Sessions -> Nat]
      /\ current \in 0..MaxSessions /\ armed \in BOOLEAN /\ leaked \in Nat
      /\ serverReady \in BOOLEAN /\ wanted \in BOOLEAN /\ used \in Counts
  BY ConnectionAssumption DEF TypeOK, SocketType, Counts
<1>s. \A k \in DOMAIN sockets : sockets[k] \in SocketType /\ k \in 0..Len(sockets)
  BY <1>t
<1>d. ASSUME sockets' \in Seq(SocketType), ws' \in 0..Len(sockets'), synced' \in 0..Len(sockets'),
             status' \in [Sessions -> Statuses], token' \in [Sessions -> Nat],
             current' \in 0..MaxSessions, armed' \in BOOLEAN, leaked' \in Nat,
             serverReady' \in BOOLEAN, wanted' \in BOOLEAN, used' \in Counts
      PROVE  TypeOK'
  BY <1>d DEF TypeOK, SocketType, Counts
<1>u. used \in Counts
  BY <1>t
<1>c. Called => used' \in Counts
  BY <1>u DEF Called, Counts
<1>x. /\ Teardown("manual") \in Seq(SocketType)
      /\ Len(Teardown("manual")) = Len(sockets)
      /\ Disconnected \in [Sessions -> Statuses]
  BY TeardownType
<1>1. ASSUME NEW connect \in BOOLEAN, StartSession(connect) PROVE TypeOK'
  <2> DEFINE s == used.sessions + 1
             socks == IF current = 0 THEN sockets ELSE Teardown("manual")
  <2>1. s \in 0..MaxSessions
    <3>1. used.sessions \in 0..MaxSessions /\ used.sessions < MaxSessions
      BY <1>1, <1>u DEF StartSession, Counts
    <3> QED BY <3>1, <1>t
  <2>2. socks \in Seq(SocketType) /\ Len(socks) = Len(sockets)
        /\ Disconnected \in [Sessions -> Statuses]
    BY <1>t, <1>x
  <2>3. current' = s /\ used' = [used EXCEPT !.sessions = s] /\ wanted' = connect
        /\ synced' \in {synced, 0} /\ UNCHANGED <<token, armed, leaked, serverReady>>
    BY <1>1 DEF StartSession
  <2>4. CASE connect
    <3>1. Created(s, socks, Disconnected)
      BY <1>1, <2>4 DEF StartSession
    <3>2. /\ sockets' \in Seq(SocketType) /\ ws' \in 0..Len(sockets')
          /\ Len(sockets) <= Len(sockets') /\ status' \in [Sessions -> Statuses]
      BY <2>1, <2>2, <3>1, CreatedType
    <3>3. synced' \in 0..Len(sockets')
      BY <1>t, <2>3, <3>2
    <3>4. used' \in Counts
      BY <1>t, <2>1, <2>3 DEF Counts
    <3> HIDE DEF s
    <3> QED BY <1>d, <1>t, <2>1, <2>3, <3>2, <3>3, <3>4
  <2>5. CASE ~connect
    <3>1. sockets' = socks /\ status' = Disconnected /\ ws' = ws
      BY <1>1, <2>5 DEF StartSession
    <3>2. used' \in Counts
      BY <1>t, <2>1, <2>3 DEF Counts
    <3>3. synced' \in 0..Len(sockets') /\ ws' \in 0..Len(sockets')
      BY <1>t, <2>2, <2>3, <3>1
    <3> HIDE DEF s, socks
    <3> QED BY <1>d, <1>t, <2>1, <2>2, <2>3, <3>1, <3>2, <3>3
  <2> QED BY <2>4, <2>5
<1>2. CASE EndSession
  <2>1. 0 \in 0..MaxSessions /\ 0 \in 0..Len(sockets)
    BY <1>t
  <2> QED BY <1>2, <1>c, <1>d, <1>t, <1>x, <2>1 DEF EndSession
<1>3. CASE Connect
  <2>1. Created(current, sockets, status)
    BY <1>3 DEF Connect
  <2>2. /\ sockets' \in Seq(SocketType) /\ ws' \in 0..Len(sockets')
        /\ Len(sockets) <= Len(sockets') /\ status' \in [Sessions -> Statuses]
    BY <1>t, <2>1, CreatedType
  <2>3. synced' \in 0..Len(sockets')
    BY <1>3, <1>t, <2>2 DEF Connect
  <2> QED BY <1>3, <1>c, <1>d, <1>t, <2>2, <2>3 DEF Connect
<1>4. CASE Disconnect
  BY <1>4, <1>c, <1>d, <1>t, <1>x DEF Disconnect
<1>5. CASE UpdateToken
  <2>1. token' \in [Sessions -> Nat] /\ token'[current] \in Nat
    BY <1>5, <1>t DEF UpdateToken, Sessions
  <2>2. \A k \in DOMAIN sockets : [sockets[k] EXCEPT !.token = token'[current]] \in SocketType
    BY <1>s, <2>1 DEF SocketType
  <2>3. sockets' = [k \in 1..Len(sockets) |->
                      IF Named(k) THEN [sockets[k] EXCEPT !.token = token'[current]]
                      ELSE sockets[k]]
    BY <1>5, <1>t DEF UpdateToken
  <2>4. sockets' \in Seq(SocketType) /\ Len(sockets') = Len(sockets)
    BY <1>t, <2>2, <2>3
  <2> QED BY <1>5, <1>c, <1>d, <1>t, <2>1, <2>4 DEF UpdateToken
<1>6. ASSUME NEW k \in DOMAIN sockets, SocketOpens(k) PROVE TypeOK'
  <2> DEFINE opened == [sockets EXCEPT ![k] = [sockets[k] EXCEPT !.state = "OPEN"]]
  <2>1. sockets[k] \in SocketType
    BY <1>t
  <2>2. [sockets[k] EXCEPT !.state = "OPEN"] \in SocketType /\ sockets[k].session \in Sessions
        /\ sockets[k].closer \in {"no", "none", "manual"}
    BY <2>1 DEF SocketType, Statuses
  <2>3. opened \in Seq(SocketType) /\ Len(opened) = Len(sockets)
    BY <1>t, <2>2
  <2>4. sockets' = IF sockets[k].closer = "no" THEN opened
                   ELSE Shut(opened, ws, sockets[k].closer)
    BY <1>6, <2>1 DEF SocketOpens
  <2> HIDE DEF opened
  <2>5. sockets' \in Seq(SocketType) /\ Len(sockets') = Len(sockets)
    BY <1>t, <2>2, <2>3, <2>4, ShutType DEF Reasons
  <2>6. status' \in [Sessions -> Statuses]
    BY <1>6, <1>t, <2>2 DEF SocketOpens, Statuses
  <2> QED BY <1>6, <1>d, <1>t, <2>5, <2>6 DEF SocketOpens
<1>7. ASSUME NEW k \in DOMAIN sockets, ServerReady(k) PROVE TypeOK'
  <2>1. [sockets[k] EXCEPT !.greeted = TRUE] \in SocketType
    BY <1>s DEF SocketType
  <2>2. sockets' = [sockets EXCEPT ![k] = [sockets[k] EXCEPT !.greeted = TRUE]]
    BY <1>7 DEF ServerReady
  <2>3. sockets' \in Seq(SocketType) /\ Len(sockets') = Len(sockets)
    BY <1>t, <2>1, <2>2
  <2> QED BY <1>7, <1>d, <1>t, <2>3 DEF ServerReady
<1>8. ASSUME NEW k \in DOMAIN sockets, SocketCloses(k) PROVE TypeOK'
  <2>1. sockets[k].reason \in Reasons
    BY <1>s DEF SocketType, Reasons
  <2>2. PICK reason \in Reasons : OnClose(k, sockets, reason)
    BY <1>8, <2>1 DEF SocketCloses, Reasons
  <2> QED BY <1>8, <1>d, <1>t, <2>2, OnCloseType DEF SocketCloses
<1>9. ASSUME NEW k \in DOMAIN sockets, SocketFails(k) PROVE TypeOK'
  <2> DEFINE closed == [sockets EXCEPT ![k] = [sockets[k] EXCEPT !.state = "CLOSED"]]
             socks == CloseWs(closed, "none")
  <2>1. [sockets[k] EXCEPT !.state = "CLOSED"] \in SocketType
    BY <1>s DEF SocketType, Statuses
  <2>2. closed \in Seq(SocketType) /\ Len(closed) = Len(sockets)
    BY <1>t, <2>1
  <2> HIDE DEF closed
  <2>3. socks \in Seq(SocketType) /\ Len(socks) = Len(sockets)
    BY <1>t, <2>2, CloseWsType DEF Reasons
  <2>4. OnClose(k, socks, "none")
    BY <1>9 DEF SocketFails, closed
  <2> HIDE DEF socks
  <2>5. /\ sockets' \in Seq(SocketType) /\ Len(sockets') = Len(sockets)
        /\ status' \in [Sessions -> Statuses]
        /\ serverReady' \in BOOLEAN /\ synced' = 0
        /\ armed' \in BOOLEAN /\ leaked' \in Nat
    BY <2>3, <2>4, OnCloseType DEF Reasons
  <2>6. used' \in Counts
    BY <1>9, <1>u DEF SocketFails, Counts
  <2>7. 0 \in 0..Len(sockets')
    BY <1>t, <2>5
  <2> QED BY <1>9, <1>d, <1>t, <2>5, <2>6, <2>7 DEF SocketFails
<1>10. ASSUME NEW k \in DOMAIN sockets, ServerCloses(k) PROVE TypeOK'
  <2> DEFINE socks == CloseWs(sockets, "manual")
  <2>1. socks \in Seq(SocketType) /\ Len(socks) = Len(sockets) /\ k \in 0..Len(sockets)
    BY <1>s, <1>t, CloseWsType DEF Reasons
  <2> HIDE DEF socks
  <2>2. sockets' \in Seq(SocketType) /\ Len(sockets') = Len(sockets)
    BY <1>10, <2>1, ShutType DEF ServerCloses, Reasons, socks
  <2>3. used' \in Counts
    BY <1>10, <1>u DEF ServerCloses, Counts
  <2>4. wanted' \in BOOLEAN
    BY <1>10, <1>t DEF ServerCloses
  <2> QED BY <1>10, <1>d, <1>t, <2>2, <2>3, <2>4 DEF ServerCloses
<1>11. ASSUME NEW last \in BOOLEAN, Reconnect(last) PROVE TypeOK'
  <2>1. Created(current, sockets, status)
    BY <1>11 DEF Reconnect
  <2>2. /\ sockets' \in Seq(SocketType) /\ ws' \in 0..Len(sockets')
        /\ Len(sockets) <= Len(sockets') /\ status' \in [Sessions -> Statuses]
    BY <1>t, <2>1, CreatedType
  <2>3. synced' \in 0..Len(sockets')
    BY <1>11, <1>t, <2>2 DEF Reconnect
  <2>4. armed' \in BOOLEAN
    BY <1>11, <1>t DEF Reconnect
  <2>5. leaked' \in Nat
    <3>1. leaked' = leaked \/ (leaked > 0 /\ leaked' = leaked - 1)
      BY <1>11 DEF Reconnect
    <3> QED BY <1>t, <3>1
  <2> QED BY <1>11, <1>d, <1>t, <2>2, <2>3, <2>4, <2>5 DEF Reconnect
<1>12. CASE UNCHANGED vars
  BY <1>12, <1>d, <1>t DEF vars
<1> QED BY <1>1, <1>2, <1>3, <1>4, <1>5, <1>6, <1>7, <1>8, <1>9, <1>10, <1>11, <1>12
        DEF Next, Application

(* Every variable keeps its type, whatever the application and the         *)
(* sockets do.                                                             *)
THEOREM TypeCorrect == Spec => []TypeOK
BY TypeInit, TypeStep, PTL DEF Spec
-----------------------------------------------------------------------------
(* One connection, for a patient and quiet application over sockets that   *)
(* close in order.  A live socket is the newest and belongs to the current *)
(* session; what is closing closes for good; no timer is set beside a live *)
(* socket, or without a connection being wanted.                           *)

Calm == ~Impatient /\ ~Offline /\ ~SlowCloses

Newest == ws = Len(sockets)

OneLive ==
  \A k \in DOMAIN sockets : Live(k) =>
    /\ k = ws /\ sockets[k].session = current /\ sockets[k].token = token[current]
    /\ sockets[k].state = status[current] /\ sockets[k].closer = "no"
    /\ wanted /\ ~armed

ClosesForGood ==
  \A k \in DOMAIN sockets : In(k, {"CLOSING"}) =>
    /\ sockets[k].reason = "manual"
    /\ sockets[k].session = current => ~armed /\ \A m \in DOMAIN sockets : ~Live(m)

StatusKept ==
  current # 0 /\ status[current] \in {"OPEN", "CONNECTING"} =>
    ws # 0 /\ sockets[ws].session = current /\ In(ws, {status[current], "CLOSING"})

Timers == leaked = 0 /\ (armed => wanted)

Numbered ==
  /\ current <= used.sessions
  /\ \A k \in DOMAIN sockets : sockets[k].session <= used.sessions
  /\ \A s \in Sessions : s > used.sessions => status[s] = "UNINITIALIZED"

CInv == Newest /\ OneLive /\ ClosesForGood /\ StatusKept /\ Timers /\ Numbered

LEMMA CInit == Init => CInv
<1> SUFFICES ASSUME Init PROVE CInv
  OBVIOUS
<1>1. sockets = <<>> /\ Len(sockets) = 0 /\ DOMAIN sockets = {} /\ ws = 0 /\ current = 0
      /\ leaked = 0 /\ armed = FALSE /\ used.sessions = 0
  BY DEF Init
<1>2. \A s \in Sessions : status[s] = "UNINITIALIZED"
  BY DEF Init
<1> QED BY <1>1, <1>2 DEF CInv, Newest, OneLive, ClosesForGood, StatusKept, Timers, Numbered

(* The sockets of a sequence that is on its way to be closed.              *)
Asleep(socks) ==
  \A k \in DOMAIN socks :
    /\ socks[k].state \in {"CLOSED", "CLOSING"}
    /\ socks[k].state = "CLOSING" => socks[k].reason = "manual"

SameSessions(socks) ==
  /\ socks \in Seq(SocketType) /\ Len(socks) = Len(sockets)
  /\ \A k \in DOMAIN sockets : socks[k].session = sockets[k].session

(* What an application that is calm closes are all the sockets there are.  *)
LEMMA CalmTeardown ==
  ASSUME TypeOK, CInv, Calm, Calls
  PROVE  Asleep(Teardown("manual")) /\ SameSessions(Teardown("manual"))
<1>1. sockets \in Seq(SocketType) /\ ws \in 0..Len(sockets) /\ Len(sockets) \in Nat
  BY DEF TypeOK, SocketType
<1>2. \A k \in DOMAIN sockets : sockets[k].state \in {"CLOSED", "OPEN"}
  BY DEF Calm, Calls, In
<1>3. \A k \in DOMAIN sockets : sockets[k].state = "OPEN" => k = ws
  BY DEF CInv, OneLive, Live, In
<1>4. CASE ws = 0
  <2>1. Teardown("manual") = sockets
    BY <1>4 DEF Teardown, CloseWs, Shut
  <2>2. \A k \in DOMAIN sockets : sockets[k].state = "CLOSED"
    BY <1>1, <1>2, <1>3, <1>4
  <2> QED BY <1>1, <2>1, <2>2 DEF Asleep, SameSessions
<1>5. CASE ws # 0
  <2>1. ws \in DOMAIN sockets /\ sockets[ws] \in SocketType
    BY <1>1, <1>5
  <2>2. CASE sockets[ws].state = "CLOSED"
    <3>1. Teardown("manual") = sockets
      BY <2>2 DEF Teardown, CloseWs, Shut
    <3>2. \A k \in DOMAIN sockets : sockets[k].state = "CLOSED"
      BY <1>2, <1>3, <2>2
    <3> QED BY <1>1, <3>1, <3>2 DEF Asleep, SameSessions
  <2>3. CASE sockets[ws].state = "OPEN"
    <3> DEFINE shut == [sockets[ws] EXCEPT !.state = "CLOSING", !.reason = "manual"]
    <3>1. Teardown("manual") = [sockets EXCEPT ![ws] = shut]
      BY <1>5, <2>1, <2>3 DEF Teardown, CloseWs, Shut
    <3>2. /\ shut \in SocketType /\ shut.state = "CLOSING" /\ shut.reason = "manual"
          /\ shut.session = sockets[ws].session
      BY <2>1 DEF SocketType, Statuses
    <3> HIDE DEF shut
    <3>3. \A k \in DOMAIN sockets : k # ws => sockets[k].state = "CLOSED"
      BY <1>2, <1>3
    <3> QED BY <1>1, <2>1, <3>1, <3>2, <3>3 DEF Asleep, SameSessions
  <2> QED BY <1>2, <2>1, <2>2, <2>3
<1> QED BY <1>4, <1>5

(* A connection that ends.                                                 *)
LEMMA Ended ==
  ASSUME TypeOK, CInv,
         NEW socks, Asleep(socks), SameSessions(socks),
         sockets' = socks, ws' = ws, armed' = FALSE, leaked' = 0,
         current' # 0 => status'[current'] \notin {"OPEN", "CONNECTING"},
         Numbered'
  PROVE  CInv'
<1>1. DOMAIN sockets' = DOMAIN sockets /\ Len(sockets') = Len(sockets)
  BY DEF SameSessions, TypeOK
<1>2. Newest'
  BY <1>1 DEF CInv, Newest
<1>3. \A k \in DOMAIN sockets' : sockets'[k].state \in {"CLOSED", "CLOSING"}
                                 /\ (sockets'[k].state = "CLOSING" => sockets'[k].reason = "manual")
  BY DEF Asleep
<1>4. OneLive' /\ ClosesForGood'
  BY <1>3 DEF OneLive, ClosesForGood, Live, In
<1> QED BY <1>2, <1>4 DEF CInv, StatusKept, Timers

(* One that begins, for session s.                                         *)
LEMMA Begun ==
  ASSUME TypeOK, CInv, NEW s \in Sessions,
         NEW socks, Asleep(socks), SameSessions(socks),
         \A k \in DOMAIN sockets : sockets[k].session = s => socks[k].state = "CLOSED",
         NEW stat \in [Sessions -> Statuses], ~Refused(stat[s]),
         Created(s, socks, stat),
         current' = s, token' = token, wanted' = TRUE, armed' = FALSE, leaked' = 0,
         used'.sessions \in Nat, s <= used'.sessions, used.sessions <= used'.sessions,
         \A z \in Sessions : z > used'.sessions => stat[z] = "UNINITIALIZED"
  PROVE  CInv'
<1>1. socks \in Seq(SocketType) /\ Len(socks) = Len(sockets) /\ Len(socks) \in Nat
      /\ ws = Len(socks) /\ DOMAIN socks = 1..Len(socks) /\ DOMAIN socks = DOMAIN sockets
  BY DEF SameSessions, CInv, Newest, TypeOK
<1>2. CloseWs(socks, "none") = socks
  <2>1. ws # 0 => socks[ws].state \in {"CLOSED", "CLOSING"}
    BY <1>1 DEF Asleep
  <2> QED BY <2>1 DEF CloseWs, Shut
<1>3. sockets' = Append(socks, Socket(s)) /\ ws' = Len(sockets')
      /\ status' = [stat EXCEPT ![s] = "CONNECTING"]
  <2>1. s # 0
    BY DEF Sessions
  <2> QED BY <1>2, <2>1 DEF Created
<1>4. /\ Socket(s).session = s /\ Socket(s).token = token[s] /\ Socket(s).state = "CONNECTING"
      /\ Socket(s).closer = "no"
  BY DEF Socket
<1>5. /\ Len(sockets') = Len(socks) + 1 /\ DOMAIN sockets' = 1..(Len(socks) + 1)
      /\ sockets'[Len(socks) + 1] = Socket(s)
      /\ \A k \in DOMAIN socks : sockets'[k] = socks[k]
  BY <1>1, <1>3
<1>6. status'[s] = "CONNECTING" /\ \A z \in Sessions : z # s => status'[z] = stat[z]
  BY <1>3
<1>7. Newest'
  BY <1>3 DEF Newest
<1>8. ASSUME NEW k \in DOMAIN sockets', k # ws'
      PROVE  /\ k \in DOMAIN socks /\ sockets'[k] = socks[k]
             /\ sockets'[k].state \in {"CLOSED", "CLOSING"}
             /\ sockets'[k].state = "CLOSING" => sockets'[k].reason = "manual"
             /\ sockets'[k].session = s => sockets'[k].state = "CLOSED"
             /\ sockets'[k].session = sockets[k].session
  <2>1. k \in DOMAIN socks /\ sockets'[k] = socks[k]
    BY <1>1, <1>3, <1>5, <1>8
  <2>2. socks[k].session = sockets[k].session
    BY <1>1, <2>1 DEF SameSessions
  <2> QED BY <1>1, <2>1, <2>2 DEF Asleep
<1>9. ws' \in DOMAIN sockets' /\ sockets'[ws'] = Socket(s)
  BY <1>1, <1>3, <1>5
<1>10. OneLive'
  <2>1. ASSUME NEW k \in DOMAIN sockets', Live(k)' PROVE k = ws'
    BY <1>8, <2>1 DEF Live, In
  <2> QED BY <1>4, <1>6, <1>9, <2>1 DEF OneLive
<1>11. ClosesForGood'
  <2>1. ASSUME NEW k \in DOMAIN sockets', In(k, {"CLOSING"})' PROVE k # ws'
    BY <1>4, <1>9, <2>1 DEF In
  <2> QED BY <1>8, <2>1 DEF ClosesForGood, In
<1>12. StatusKept'
  <2>1. ws' # 0
    BY <1>1, <1>3, <1>5
  <2> QED BY <1>4, <1>6, <1>9, <2>1 DEF StatusKept, In
<1>13. Numbered'
  <2>1. ASSUME NEW k \in DOMAIN sockets' PROVE sockets'[k].session <= used'.sessions
    <3>1. CASE k = ws'
      BY <1>4, <1>9, <3>1
    <3>2. CASE k # ws'
      <4>0. k \in DOMAIN sockets
        BY <1>1, <1>8, <3>2
      <4>1. sockets[k].session <= used.sessions
        BY <4>0 DEF CInv, Numbered
      <4>2. sockets[k].session \in Nat
        <5>1. sockets \in Seq(SocketType)
          BY DEF TypeOK, SocketType
        <5>2. sockets[k] \in SocketType
          BY <4>0, <5>1
        <5> QED BY <5>2 DEF SocketType, Sessions
      <4>3. used.sessions \in Nat
        BY ConnectionAssumption DEF TypeOK
      <4> QED BY <1>8, <3>2, <4>1, <4>2, <4>3
    <3> QED BY <3>1, <3>2
  <2>2. ASSUME NEW z \in Sessions, z > used'.sessions PROVE status'[z] = "UNINITIALIZED"
    <3>1. z # s
      BY <2>2 DEF Sessions
    <3> QED BY <1>6, <2>2, <3>1
  <2> QED BY <2>1, <2>2 DEF Numbered
<1>14. Timers'
  BY DEF Timers
<1> QED BY <1>7, <1>10, <1>11, <1>12, <1>13, <1>14 DEF CInv
(* What startSession leaves of the sockets, with or without a session to   *)
(* disconnect first.                                                       *)
LEMMA CalmStart ==
  ASSUME TypeOK, CInv, Calm, Calls,
         NEW socks, socks = IF current = 0 THEN sockets ELSE Teardown("manual")
  PROVE  Asleep(socks) /\ SameSessions(socks)
<1>1. CASE current # 0
  BY <1>1, CalmTeardown
<1>2. CASE current = 0
  <2>1. sockets \in Seq(SocketType)
    BY DEF TypeOK, SocketType
  <2>2. \A k \in DOMAIN sockets : sockets[k].state \in {"CLOSED", "OPEN"}
    BY DEF Calm, Calls, In
  <2>3. \A k \in DOMAIN sockets : sockets[k].state # "OPEN"
    <3>1. ASSUME NEW k \in DOMAIN sockets, sockets[k].state = "OPEN" PROVE FALSE
      <4>1. sockets[k].session = current
        BY <3>1 DEF CInv, OneLive, Live, In
      <4>2. sockets[k] \in SocketType
        BY <2>1
      <4>3. sockets[k].session \in Sessions
        BY <4>2 DEF SocketType
      <4> QED BY <1>2, <4>1, <4>3 DEF Sessions
    <3> QED BY <3>1
  <2> QED BY <1>2, <2>1, <2>2, <2>3 DEF Asleep, SameSessions
<1> QED BY <1>1, <1>2

(* One that is kept: the sockets, their states and the status stay.        *)
LEMMA Kept ==
  ASSUME CInv, UNCHANGED <<current, status, ws>>, leaked' = 0,
         DOMAIN sockets' = DOMAIN sockets, Len(sockets') = Len(sockets),
         \A k \in DOMAIN sockets :
           /\ sockets'[k].session = sockets[k].session
           /\ sockets'[k].state = sockets[k].state
           /\ sockets'[k].closer = sockets[k].closer
           /\ sockets'[k].reason = sockets[k].reason
           /\ Live(k) => sockets'[k].token = token'[current] /\ wanted' /\ ~armed',
         armed' => armed /\ wanted', used'.sessions = used.sessions,
         ws \in 0..Len(sockets)
  PROVE  CInv'
<1>1. \A k \in DOMAIN sockets : Live(k)' <=> Live(k)
  BY DEF Live, In
<1>2. Newest' /\ Timers'
  BY DEF CInv, Newest, Timers
<1>3. OneLive'
  BY <1>1 DEF CInv, OneLive
<1>4. ClosesForGood'
  BY <1>1 DEF CInv, ClosesForGood, In
<1>5. StatusKept'
  <2>1. SUFFICES ASSUME current # 0, status[current] \in {"OPEN", "CONNECTING"}
        PROVE  ws # 0 /\ sockets'[ws].session = current
               /\ sockets'[ws].state \in {status[current], "CLOSING"}
    BY DEF StatusKept, In
  <2>2. ws # 0 /\ sockets[ws].session = current
        /\ sockets[ws].state \in {status[current], "CLOSING"}
    BY <2>1 DEF CInv, StatusKept, In
  <2>3. ws \in DOMAIN sockets
    BY <2>2 DEF CInv, Newest
  <2> QED BY <2>2, <2>3
<1>6. Numbered'
  BY DEF CInv, Numbered
<1> QED BY <1>2, <1>3, <1>4, <1>5, <1>6 DEF CInv
LEMMA CStep == Calm /\ TypeOK /\ CInv /\ [Next]_vars => CInv'
<1> SUFFICES ASSUME Calm, TypeOK, CInv, [Next]_vars PROVE CInv'
  OBVIOUS
<1>t. /\ sockets \in Seq(SocketType) /\ ws \in 0..Len(sockets) /\ Len(sockets) \in Nat
      /\ status \in [Sessions -> Statuses] /\ token \in [Sessions -> Nat]
      /\ current \in 0..MaxSessions /\ MaxSessions \in Nat
      /\ armed \in BOOLEAN /\ leaked = 0 /\ used \in Counts
  BY ConnectionAssumption DEF TypeOK, SocketType, Counts, CInv, Timers
<1>n. used.sessions \in Nat /\ current <= used.sessions /\ current \in Nat
      /\ used.sessions <= MaxSessions
  <2>1. used.sessions \in 0..MaxSessions
    BY <1>t DEF Counts
  <2> QED BY <1>t, <2>1 DEF CInv, Numbered
<1>s. \A k \in DOMAIN sockets : sockets[k] \in SocketType /\ sockets[k].session \in Sessions
  <2>1. \A k \in DOMAIN sockets : sockets[k] \in SocketType
    BY <1>t
  <2> QED BY <2>1 DEF SocketType
<1>l. ASSUME NEW k \in DOMAIN sockets, Live(k)
      PROVE  /\ k = ws /\ sockets[k].session = current /\ current \in Sessions
             /\ sockets[k].state = status[current] /\ sockets[k].closer = "no"
             /\ wanted /\ ~armed
  BY <1>l, <1>s DEF CInv, OneLive
<1>q. Calls => ~armed
  BY DEF Calls, Calm
<1>u. Called => used'.sessions = used.sessions
  BY <1>t DEF Called, Counts
<1>z. /\ Disconnected \in [Sessions -> Statuses]
      /\ \A z \in Sessions : z # current => Disconnected[z] = status[z]
      /\ current # 0 => Disconnected[current] = "CLOSING"
  <2>1. current # 0 => current \in Sessions
    BY <1>t DEF Sessions
  <2> QED BY <1>t, <2>1 DEF Disconnected, Statuses
<1>y. ASSUME NEW z \in Sessions, z > used.sessions
      PROVE  z # current /\ status[z] = "UNINITIALIZED" /\ Disconnected[z] = "UNINITIALIZED"
  <2>1. z # current
    BY <1>n, <1>y DEF Sessions
  <2>2. status[z] = "UNINITIALIZED"
    BY <1>y DEF CInv, Numbered
  <2> QED BY <1>z, <2>1, <2>2
<1>1. ASSUME NEW connect \in BOOLEAN, StartSession(connect) PROVE CInv'
  <2> DEFINE s == used.sessions + 1
             socks == IF current = 0 THEN sockets ELSE Teardown("manual")
  <2>1. Calls /\ used.sessions < MaxSessions /\ current' = s /\ wanted' = connect
        /\ UNCHANGED <<token, armed, leaked>>
    BY <1>1 DEF StartSession
  <2>2. s \in Sessions /\ s > used.sessions
    BY <1>n, <1>t, <2>1 DEF Sessions
  <2>3. used'.sessions = s
    BY <1>1, <1>t DEF StartSession, Counts
  <2>4. Asleep(socks) /\ SameSessions(socks)
    BY <2>1, CalmStart
  <2>5. Disconnected[s] = "UNINITIALIZED"
    BY <1>y, <2>2
  <2>6. \A k \in DOMAIN sockets : sockets[k].session # s
    <3>1. ASSUME NEW k \in DOMAIN sockets PROVE sockets[k].session # s
      <4>1. sockets[k].session <= used.sessions
        BY DEF CInv, Numbered
      <4>2. sockets[k].session \in Nat
        BY <1>s DEF Sessions
      <4> QED BY <1>n, <4>1, <4>2
    <3> QED BY <3>1
  <2>7. \A z \in Sessions : z > s => Disconnected[z] = "UNINITIALIZED"
    <3>1. ASSUME NEW z \in Sessions, z > s PROVE z > used.sessions
      BY <1>n, <3>1 DEF Sessions
    <3> QED BY <1>y, <3>1
  <2>8. armed' = FALSE /\ leaked' = 0
    BY <1>q, <1>t, <2>1
  <2>9. CASE connect
    <3>1. Created(s, socks, Disconnected)
      BY <1>1, <2>9 DEF StartSession
    <3>2. ~Refused(Disconnected[s])
      BY <2>5 DEF Refused
    <3>3. s \in Nat /\ s <= s /\ used.sessions <= s
      BY <1>n
    <3> HIDE DEF s, socks
    <3> QED BY <1>z, <2>1, <2>2, <2>3, <2>4, <2>6, <2>7, <2>8, <2>9, <3>1, <3>2, <3>3, Begun
  <2>10. CASE ~connect
    <3>1. sockets' = socks /\ status' = Disconnected /\ ws' = ws
      BY <1>1, <2>10 DEF StartSession
    <3>2. DOMAIN sockets' = DOMAIN sockets
      BY <1>t, <2>4, <3>1 DEF SameSessions
    <3>3. \A k \in DOMAIN sockets : sockets'[k].session <= s
      <4>1. ASSUME NEW k \in DOMAIN sockets PROVE sockets'[k].session <= s
        <5>1. sockets'[k].session = sockets[k].session /\ sockets[k].session <= used.sessions
          BY <2>4, <3>1 DEF SameSessions, CInv, Numbered
        <5>2. sockets[k].session \in Nat
          BY <1>s DEF Sessions
        <5> QED BY <1>n, <5>1, <5>2
      <4> QED BY <4>1
    <3>4. s <= s
      BY <1>n
    <3> HIDE DEF s, socks
    <3>5. Numbered'
      BY <2>1, <2>3, <2>7, <3>1, <3>2, <3>3, <3>4 DEF Numbered
    <3> QED BY <2>1, <2>4, <2>5, <2>8, <3>1, <3>5, Ended
  <2> QED BY <2>9, <2>10
<1>e. ASSUME Calls, sockets' = Teardown("manual"), ws' = ws, status' = Disconnected,
             current' \in {0, current}, UNCHANGED <<armed, leaked>>,
             used'.sessions = used.sessions
      PROVE  CInv'
  <2>1. Asleep(sockets') /\ SameSessions(sockets')
    BY <1>e, CalmTeardown
  <2>2. current' # 0 => status'[current'] \notin {"OPEN", "CONNECTING"}
    BY <1>e, <1>z
  <2>3. armed' = FALSE /\ leaked' = 0
    BY <1>e, <1>q, <1>t
  <2>4. DOMAIN sockets' = DOMAIN sockets
    BY <1>t, <2>1 DEF SameSessions
  <2>5. \A k \in DOMAIN sockets : sockets'[k].session <= used.sessions
    BY <2>1 DEF SameSessions, CInv, Numbered
  <2>6. current' <= used.sessions
    BY <1>e, <1>n
  <2>7. Numbered'
    BY <1>e, <1>y, <2>4, <2>5, <2>6 DEF Numbered
  <2> QED BY <1>e, <2>1, <2>2, <2>3, <2>7, Ended
<1>2. CASE EndSession
  BY <1>2, <1>e, <1>u DEF EndSession
<1>4. CASE Disconnect
  BY <1>4, <1>e, <1>u DEF Disconnect
<1>b. ASSUME current \in Sessions, ~Refused(status[current]), Created(current, sockets, status),
             \A k \in DOMAIN sockets : ~Live(k),
             \A k \in DOMAIN sockets :
               sockets[k].session = current => sockets[k].state # "CLOSING",
             UNCHANGED <<current, token>>, wanted' = TRUE, armed' = FALSE, leaked' = 0,
             used'.sessions = used.sessions
      PROVE  CInv'
  <2>1. \A k \in DOMAIN sockets : sockets[k].state \in {"CLOSED", "CLOSING"}
    <3>1. \A k \in DOMAIN sockets : sockets[k].state \in Statuses \ {"UNINITIALIZED"}
      BY <1>s DEF SocketType
    <3> QED BY <1>b, <3>1 DEF Live, In, Statuses
  <2>2. Asleep(sockets) /\ SameSessions(sockets)
    BY <1>t, <2>1 DEF Asleep, SameSessions, CInv, ClosesForGood, In
  <2>3. \A k \in DOMAIN sockets : sockets[k].session = current => sockets[k].state = "CLOSED"
    BY <1>b, <2>1
  <2>4. \A z \in Sessions : z > used.sessions => status[z] = "UNINITIALIZED"
    BY <1>y
  <2>5. used.sessions \in Nat /\ current <= used.sessions /\ used.sessions <= used.sessions
    BY <1>n
  <2> QED BY <1>b, <1>t, <2>2, <2>3, <2>4, <2>5, Begun
<1>3. CASE Connect
  <2>1. Calls /\ current # 0 /\ Created(current, sockets, status) /\ wanted' = TRUE
        /\ UNCHANGED <<current, token, armed, leaked>> /\ used'.sessions = used.sessions
    BY <1>3, <1>u DEF Connect
  <2>2. current \in Sessions /\ armed' = FALSE /\ leaked' = 0
    BY <1>q, <1>t, <2>1 DEF Sessions
  <2>3. CASE Refused(status[current])
    <3>1. UNCHANGED <<sockets, status, ws>>
      BY <2>1, <2>3 DEF Created
    <3>2. \A k \in DOMAIN sockets : Live(k) => sockets[k].token = token[current]
      BY DEF CInv, OneLive
    <3> QED BY <1>t, <2>1, <2>2, <3>1, <3>2, Kept
  <2>4. CASE ~Refused(status[current])
    <3>1. \A k \in DOMAIN sockets : ~Live(k)
      BY <1>l, <2>4 DEF Refused, Live, In
    <3>2. \A k \in DOMAIN sockets : sockets[k].state # "CLOSING"
      BY <2>1 DEF Calls, Calm, In
    <3> QED BY <1>b, <2>1, <2>2, <2>4, <3>1, <3>2
  <2> QED BY <2>3, <2>4
<1>5. CASE UpdateToken
  <2>1. Calls /\ current \in Sessions /\ used'.sessions = used.sessions
    BY <1>5, <1>t, <1>u DEF UpdateToken, Sessions
  <2>2. /\ UNCHANGED <<current, status, ws, armed, leaked, wanted>>
        /\ sockets' = [k \in DOMAIN sockets |->
                         IF Named(k) THEN [sockets[k] EXCEPT !.token = token'[current]]
                         ELSE sockets[k]]
    BY <1>5 DEF UpdateToken
  <2>3. DOMAIN sockets' = DOMAIN sockets /\ DOMAIN sockets = 1..Len(sockets)
    BY <1>t, <2>2
  <2>4. Len(sockets') = Len(sockets)
    <3>1. sockets' \in Seq(SocketType)
      BY TypeStep DEF TypeOK, SocketType
    <3> QED BY <1>t, <2>3, <3>1
  <2>5. ASSUME NEW k \in DOMAIN sockets
        PROVE  /\ sockets'[k].session = sockets[k].session
               /\ sockets'[k].state = sockets[k].state
               /\ sockets'[k].closer = sockets[k].closer
               /\ sockets'[k].reason = sockets[k].reason
               /\ Named(k) => sockets'[k].token = token'[current]
    BY <1>s, <2>2 DEF SocketType
  <2>6. ASSUME NEW k \in DOMAIN sockets, Live(k) PROVE Named(k) /\ wanted' /\ ~armed'
    <3>1. k = ws /\ wanted /\ ~armed
      BY <1>l, <2>6
    <3>2. In(k, {"OPEN"}) /\ sockets[k].greeted
      BY <2>1, <2>6 DEF Calls, Calm, Live, In
    <3> QED BY <2>2, <3>1, <3>2 DEF Named
  <2>7. armed' => armed /\ wanted'
    BY <2>2 DEF CInv, Timers
  <2> QED BY <1>t, <2>1, <2>2, <2>3, <2>4, <2>5, <2>6, <2>7, Kept
<1>7. ASSUME NEW k \in DOMAIN sockets, ServerReady(k) PROVE CInv'
  <2>1. /\ UNCHANGED <<current, status, token, ws, armed, leaked, wanted, used>>
        /\ sockets' = [sockets EXCEPT ![k] = [sockets[k] EXCEPT !.greeted = TRUE]]
    BY <1>7 DEF ServerReady
  <2>2. DOMAIN sockets' = DOMAIN sockets /\ DOMAIN sockets = 1..Len(sockets)
    BY <1>t, <2>1
  <2>3. Len(sockets') = Len(sockets)
    BY <1>t, <2>1
  <2>4. ASSUME NEW m \in DOMAIN sockets
        PROVE  /\ sockets'[m].session = sockets[m].session
               /\ sockets'[m].state = sockets[m].state
               /\ sockets'[m].closer = sockets[m].closer
               /\ sockets'[m].reason = sockets[m].reason
               /\ sockets'[m].token = sockets[m].token
    BY <1>s, <2>1 DEF SocketType
  <2>5. \A m \in DOMAIN sockets :
          Live(m) => sockets[m].token = token'[current] /\ wanted' /\ ~armed'
    BY <2>1 DEF CInv, OneLive
  <2>6. armed' => armed /\ wanted'
    BY <2>1 DEF CInv, Timers
  <2> QED BY <1>t, <2>1, <2>2, <2>3, <2>4, <2>5, <2>6, Kept
<1>11. ASSUME NEW last \in BOOLEAN, Reconnect(last) PROVE CInv'
  <2>1. armed /\ armed' = FALSE /\ leaked' = 0
    <3>1. last
      BY <1>11, <1>t DEF Reconnect
    <3> QED BY <1>11, <1>t, <3>1 DEF Reconnect
  <2>2. Created(current, sockets, status) /\ UNCHANGED <<current, token, wanted, used>>
    BY <1>11 DEF Reconnect
  <2>3. wanted /\ \A k \in DOMAIN sockets : ~Live(k)
    BY <1>l, <2>1 DEF CInv, Timers
  <2>4. CASE current = 0 \/ Refused(status[current])
    <3>1. UNCHANGED <<sockets, status, ws>>
      BY <2>2, <2>4 DEF Created
    <3> QED BY <1>t, <2>1, <2>2, <2>3, <3>1, Kept
  <2>5. CASE current # 0 /\ ~Refused(status[current])
    <3>1. current \in Sessions
      BY <1>t, <2>5 DEF Sessions
    <3>2. \A k \in DOMAIN sockets : sockets[k].session = current => sockets[k].state # "CLOSING"
      BY <2>1 DEF CInv, ClosesForGood, In
    <3> QED BY <1>b, <2>1, <2>2, <2>3, <2>5, <3>1, <3>2
  <2> QED BY <2>4, <2>5
<1>6. ASSUME NEW k \in DOMAIN sockets, SocketOpens(k) PROVE CInv'
  <2>1. Live(k) /\ \A m \in DOMAIN sockets : ~In(m, {"CLOSING"})
    BY <1>6 DEF SocketOpens, Calm, Live, In
  <2>2. k = ws /\ sockets[k].session = current /\ current \in Sessions
        /\ sockets[k].closer = "no" /\ wanted
    BY <1>l, <2>1
  <2>3. /\ sockets' = [sockets EXCEPT ![k] = [sockets[k] EXCEPT !.state = "OPEN"]]
        /\ status' = [status EXCEPT ![current] = "OPEN"] /\ armed' = FALSE
        /\ UNCHANGED <<current, token, ws, leaked, wanted, used>>
    BY <1>6, <2>2 DEF SocketOpens
  <2>4. DOMAIN sockets' = DOMAIN sockets /\ Len(sockets') = Len(sockets)
        /\ \A m \in DOMAIN sockets : m # k => sockets'[m] = sockets[m]
    <3>1. [sockets[k] EXCEPT !.state = "OPEN"] \in SocketType
      BY <1>s DEF SocketType, Statuses
    <3> QED BY <1>t, <2>3, <3>1
  <2>5. /\ sockets'[k].state = "OPEN" /\ sockets'[k].session = current
        /\ sockets'[k].token = sockets[k].token /\ sockets'[k].closer = "no"
    BY <1>s, <2>2, <2>3 DEF SocketType
  <2>6. \A m \in DOMAIN sockets : m # k => ~Live(m)
    BY <1>l, <2>2
  <2>7. status'[current] = "OPEN" /\ \A z \in Sessions : z # current => status'[z] = status[z]
    BY <1>t, <2>2, <2>3
  <2>8. sockets[k].token = token[current]
    BY <2>1 DEF CInv, OneLive
  <2>9. OneLive'
    <3>1. \A m \in DOMAIN sockets : m # k => ~Live(m)'
      BY <2>4, <2>6 DEF Live, In
    <3> QED BY <2>2, <2>3, <2>4, <2>5, <2>7, <2>8, <3>1 DEF OneLive
  <2>10. ClosesForGood'
    <3>1. \A m \in DOMAIN sockets : ~In(m, {"CLOSING"})'
      BY <2>1, <2>4, <2>5 DEF In
    <3> QED BY <2>4, <3>1 DEF ClosesForGood
  <2>11. StatusKept'
    <3>1. ws # 0
      BY <1>t, <2>2
    <3> QED BY <2>2, <2>3, <2>5, <2>7, <3>1 DEF StatusKept, In
  <2>12. Numbered'
    <3>1. \A m \in DOMAIN sockets : sockets'[m].session = sockets[m].session
      BY <2>2, <2>4, <2>5
    <3>2. \A z \in Sessions : z > used.sessions => status'[z] = "UNINITIALIZED"
      BY <1>y, <2>7
    <3> QED BY <2>3, <2>4, <3>1, <3>2 DEF CInv, Numbered
  <2>13. Newest' /\ Timers'
    BY <1>t, <2>3, <2>4 DEF CInv, Newest, Timers
  <2> QED BY <2>9, <2>10, <2>11, <2>12, <2>13 DEF CInv
<1>8. ASSUME NEW k \in DOMAIN sockets, SocketCloses(k) PROVE CInv'
  <2>1. In(k, {"CLOSING"}) /\ sockets[k].reason = "manual" /\ sockets[k].session \in Sessions
    BY <1>8, <1>s DEF SocketCloses, CInv, ClosesForGood
  <2>2. OnClose(k, sockets, "manual")
    BY <1>8, <2>1 DEF SocketCloses, Calm
  <2>3. /\ sockets' = [sockets EXCEPT ![k] = [sockets[k] EXCEPT !.state = "CLOSED"]]
        /\ status' = [status EXCEPT ![sockets[k].session] = "CLOSED"]
        /\ UNCHANGED <<armed, leaked, current, token, ws, wanted, used>>
    BY <1>8, <2>2 DEF SocketCloses, OnClose
  <2>4. DOMAIN sockets' = DOMAIN sockets /\ Len(sockets') = Len(sockets)
        /\ \A m \in DOMAIN sockets : m # k => sockets'[m] = sockets[m]
    BY <1>t, <2>3
  <2>5. sockets'[k].state = "CLOSED" /\ sockets'[k].session = sockets[k].session
    BY <1>s, <2>3 DEF SocketType
  <2>6. /\ status'[sockets[k].session] = "CLOSED"
        /\ \A z \in Sessions : z # sockets[k].session => status'[z] = status[z]
    BY <1>t, <2>1, <2>3
  <2>7. ASSUME NEW m \in DOMAIN sockets, Live(m)'
        PROVE  m # k /\ Live(m) /\ sockets[k].session # current
    <3>1. m # k /\ Live(m)
      BY <2>4, <2>5, <2>7 DEF Live, In
    <3> QED BY <2>1, <3>1 DEF CInv, ClosesForGood
  <2>8. OneLive'
    <3>1. ASSUME NEW m \in DOMAIN sockets, Live(m)'
          PROVE  /\ m = ws /\ sockets'[m].session = current /\ sockets'[m].token = token[current]
                 /\ sockets'[m].state = status'[current] /\ sockets'[m].closer = "no"
                 /\ wanted /\ ~armed
      <4>1. m # k /\ Live(m) /\ sockets[k].session # current
        BY <2>7, <3>1
      <4>2. sockets'[m] = sockets[m] /\ sockets[m].token = token[current]
        BY <2>4, <4>1 DEF CInv, OneLive
      <4>3. status'[current] = status[current]
        BY <1>l, <2>6, <4>1
      <4> QED BY <1>l, <4>1, <4>2, <4>3
    <3> QED BY <2>3, <2>4, <3>1 DEF OneLive
  <2>9. ClosesForGood'
    <3>1. ASSUME NEW m \in DOMAIN sockets, In(m, {"CLOSING"})'
          PROVE  m # k /\ In(m, {"CLOSING"}) /\ sockets'[m] = sockets[m]
      BY <2>4, <2>5, <3>1 DEF In
    <3> QED BY <2>3, <2>4, <2>7, <3>1 DEF CInv, ClosesForGood
  <2>10. StatusKept'
    <3>1. SUFFICES ASSUME current # 0, status'[current] \in {"OPEN", "CONNECTING"}
          PROVE  ws # 0 /\ sockets'[ws].session = current
                 /\ sockets'[ws].state \in {status'[current], "CLOSING"}
      BY <2>3 DEF StatusKept, In
    <3>2. sockets[k].session # current /\ current \in Sessions
      BY <1>t, <2>6, <3>1 DEF Sessions
    <3>3. status'[current] = status[current]
      BY <2>6, <3>2
    <3>4. ws # 0 /\ sockets[ws].session = current
          /\ sockets[ws].state \in {status[current], "CLOSING"}
      BY <3>1, <3>3 DEF CInv, StatusKept, In
    <3>5. ws \in DOMAIN sockets /\ ws # k
      BY <1>t, <3>2, <3>4
    <3> QED BY <2>4, <3>3, <3>4, <3>5
  <2>11. Numbered'
    <3>1. \A m \in DOMAIN sockets : sockets'[m].session = sockets[m].session
      BY <2>4, <2>5
    <3>2. ASSUME NEW z \in Sessions, z > used.sessions PROVE status'[z] = "UNINITIALIZED"
      <4>1. z # sockets[k].session
        <5>1. sockets[k].session <= used.sessions
          BY DEF CInv, Numbered
        <5> QED BY <1>n, <2>1, <3>2, <5>1 DEF Sessions
      <4> QED BY <1>y, <2>6, <3>2, <4>1
    <3> QED BY <2>3, <2>4, <3>1, <3>2 DEF CInv, Numbered
  <2>12. Newest' /\ Timers'
    BY <1>t, <2>3, <2>4 DEF CInv, Newest, Timers
  <2> QED BY <2>8, <2>9, <2>10, <2>11, <2>12 DEF CInv
<1>9. ASSUME NEW k \in DOMAIN sockets, SocketFails(k) PROVE CInv'
  <2>1. Live(k)
    BY <1>9 DEF SocketFails, Live, In
  <2>2. k = ws /\ sockets[k].session = current /\ current \in Sessions /\ wanted /\ ~armed
    BY <1>l, <2>1
  <2> DEFINE closed == [sockets EXCEPT ![k] = [sockets[k] EXCEPT !.state = "CLOSED"]]
  <2>3. closed[k].state = "CLOSED" /\ closed[k].session = current
    BY <1>s, <2>2 DEF SocketType
  <2>4. DOMAIN closed = DOMAIN sockets /\ Len(closed) = Len(sockets)
        /\ \A m \in DOMAIN sockets : m # k => closed[m] = sockets[m]
    BY <1>t
  <2>5. OnClose(k, CloseWs(closed, "none"), "none")
    BY <1>9 DEF SocketFails
  <2> HIDE DEF closed
  <2>6. CloseWs(closed, "none") = closed
    BY <2>2, <2>3 DEF CloseWs, Shut
  <2>7. sockets' = [closed EXCEPT ![k] = [closed[k] EXCEPT !.state = "CLOSED"]]
        /\ status' = [status EXCEPT ![current] = "CLOSED"] /\ armed' = TRUE /\ leaked' = leaked
        /\ UNCHANGED <<current, token, ws, wanted>> /\ used'.sessions = used.sessions
    BY <1>9, <1>t, <2>2, <2>5, <2>6 DEF SocketFails, OnClose, Counts
  <2>8. DOMAIN sockets' = DOMAIN sockets /\ Len(sockets') = Len(sockets)
        /\ \A m \in DOMAIN sockets : m # k => sockets'[m] = sockets[m]
    <3>1. closed \in Seq(SocketType)
      <4>1. [sockets[k] EXCEPT !.state = "CLOSED"] \in SocketType
        BY <1>s DEF SocketType, Statuses
      <4> QED BY <1>t, <4>1 DEF closed
    <3> QED BY <2>4, <2>7, <3>1
  <2>9. sockets'[k].state = "CLOSED" /\ sockets'[k].session = current
    <3>1. closed[k] \in SocketType
      <4>1. [sockets[k] EXCEPT !.state = "CLOSED"] \in SocketType
        BY <1>s DEF SocketType, Statuses
      <4> QED BY <1>t, <4>1 DEF closed
    <3> QED BY <2>3, <2>4, <2>7, <3>1 DEF SocketType
  <2>10. \A m \in DOMAIN sockets : ~Live(m)'
    <3>1. \A m \in DOMAIN sockets : m # k => ~Live(m)
      BY <1>l, <2>2
    <3> QED BY <2>8, <2>9, <3>1 DEF Live, In
  <2>11. status'[current] = "CLOSED" /\ \A z \in Sessions : z # current => status'[z] = status[z]
    BY <1>t, <2>2, <2>7
  <2>12. ClosesForGood'
    <3>1. ASSUME NEW m \in DOMAIN sockets, In(m, {"CLOSING"})'
          PROVE  sockets'[m].reason = "manual" /\ sockets'[m].session # current
      <4>1. m # k /\ sockets'[m] = sockets[m]
        BY <2>8, <2>9, <3>1 DEF In
      <4>2. In(m, {"CLOSING"})
        BY <3>1, <4>1 DEF In
      <4> QED BY <2>1, <4>1, <4>2 DEF CInv, ClosesForGood
    <3> QED BY <2>7, <2>8, <3>1 DEF ClosesForGood
  <2>13. Numbered'
    <3>1. \A m \in DOMAIN sockets : sockets'[m].session = sockets[m].session
      BY <2>2, <2>8, <2>9
    <3>2. \A z \in Sessions : z > used.sessions => status'[z] = "UNINITIALIZED"
      BY <1>y, <2>11
    <3> QED BY <2>7, <2>8, <3>1, <3>2 DEF CInv, Numbered
  <2>14. OneLive' /\ StatusKept'
    BY <2>7, <2>8, <2>10, <2>11 DEF OneLive, StatusKept
  <2>15. Newest' /\ Timers'
    BY <1>t, <2>2, <2>7, <2>8 DEF CInv, Newest, Timers
  <2> QED BY <2>12, <2>13, <2>14, <2>15 DEF CInv
<1>10. ASSUME NEW k \in DOMAIN sockets, ServerCloses(k) PROVE CInv'
  <2>1. Live(k) /\ sockets[k].state = "OPEN"
    BY <1>10 DEF ServerCloses, Live, In
  <2>2. k = ws /\ sockets[k].session = current /\ current \in Sessions /\ wanted /\ ~armed
        /\ ws # 0
    BY <1>l, <1>t, <2>1
  <2> DEFINE shut == [sockets[k] EXCEPT !.state = "CLOSING", !.reason = "manual"]
             socks == [sockets EXCEPT ![k] = shut]
  <2>3. shut.state = "CLOSING" /\ shut.reason = "manual" /\ shut.session = current
    BY <1>s, <2>2 DEF SocketType
  <2>4. CloseWs(sockets, "manual") = socks
    BY <2>1, <2>2 DEF CloseWs, Shut
  <2> HIDE DEF shut
  <2>5. socks[k] = shut /\ DOMAIN socks = DOMAIN sockets /\ Len(socks) = Len(sockets)
        /\ \A m \in DOMAIN sockets : m # k => socks[m] = sockets[m]
    BY <1>t
  <2> HIDE DEF socks
  <2>6. Shut(socks, k, "manual") = socks
    BY <2>3, <2>5 DEF Shut
  <2>7. sockets' = socks /\ wanted' = FALSE /\ used'.sessions = used.sessions
        /\ UNCHANGED <<current, status, token, ws, armed, leaked>>
    BY <1>10, <1>t, <2>2, <2>4, <2>6 DEF ServerCloses, Counts
  <2>8. \A m \in DOMAIN sockets : ~Live(m)'
    <3>1. \A m \in DOMAIN sockets : m # k => ~Live(m)
      BY <1>l, <2>2
    <3> QED BY <2>3, <2>5, <2>7, <3>1 DEF Live, In
  <2>9. ClosesForGood'
    <3>1. ASSUME NEW m \in DOMAIN sockets, In(m, {"CLOSING"})'
          PROVE  sockets'[m].reason = "manual"
      <4>1. CASE m = k
        BY <2>3, <2>5, <2>7, <4>1
      <4>2. CASE m # k
        <5>1. sockets'[m] = sockets[m]
          BY <2>5, <2>7, <4>2
        <5> QED BY <3>1, <5>1 DEF CInv, ClosesForGood, In
      <4> QED BY <4>1, <4>2
    <3> QED BY <2>2, <2>5, <2>7, <2>8, <3>1 DEF ClosesForGood
  <2>10. StatusKept'
    BY <2>2, <2>3, <2>5, <2>7 DEF StatusKept, In
  <2>11. Numbered'
    <3>1. \A m \in DOMAIN sockets : sockets'[m].session = sockets[m].session
      BY <2>2, <2>3, <2>5, <2>7
    <3> QED BY <2>5, <2>7, <3>1 DEF CInv, Numbered
  <2>12. OneLive' /\ Newest' /\ Timers'
    BY <1>t, <2>2, <2>5, <2>7, <2>8 DEF CInv, OneLive, Newest, Timers
  <2> QED BY <2>9, <2>10, <2>11, <2>12 DEF CInv
<1>12. CASE UNCHANGED vars
  BY <1>12 DEF vars, CInv, Newest, OneLive, ClosesForGood, StatusKept, Timers, Numbered, Live, In
<1> QED BY <1>1, <1>2, <1>3, <1>4, <1>5, <1>6, <1>7, <1>8, <1>9, <1>10, <1>11, <1>12
        DEF Next, Application

LEMMA CalmInv == Calm => (Spec => [](TypeOK /\ CInv))
<1> SUFFICES ASSUME Calm PROVE Spec => [](TypeOK /\ CInv)
  OBVIOUS
<1>1. Init => TypeOK /\ CInv
  BY TypeInit, CInit
<1>2. TypeOK /\ CInv /\ [Next]_vars => TypeOK' /\ CInv'
  BY TypeStep, CStep
<1> QED BY <1>1, <1>2, PTL DEF Spec

(* For an application that is patient and quiet, over sockets that close   *)
(* in order, the server hears of the client over one socket at most, of    *)
(* the current session and under its token (connect, disconnect and        *)
(* startSession, with every loss and refusal in between).                  *)
THEOREM CalmOneConnection == Calm => (Spec => []OneConnection)
<1>1. CInv => OneConnection
  BY DEF CInv, OneLive, OneConnection
<1> QED BY <1>1, CalmInv, PTL

(* Under the same conditions client.connectionStatus tells the state of    *)
(* the transport's socket.                                                 *)
THEOREM CalmStatusHonest == Calm => (Spec => []StatusHonest)
<1>1. TypeOK /\ CInv => StatusHonest
  <2> SUFFICES ASSUME TypeOK, CInv, current # 0,
                      status[current] \in {"UNINITIALIZED", "CLOSED"}
               PROVE  ws = 0 \/ ~Live(ws)
    BY DEF CInv, StatusKept, StatusHonest
  <2> SUFFICES ASSUME ws # 0, Live(ws) PROVE FALSE
    OBVIOUS
  <2>1. ws \in DOMAIN sockets
    BY DEF TypeOK
  <2> QED BY <2>1 DEF CInv, OneLive, Live, In
<1> QED BY <1>1, CalmInv, PTL

(* Under the same conditions nothing connects after disconnect, endSession *)
(* or a refusal: neither a reconnect timer nor a socket of before.         *)
THEOREM CalmDisconnectHolds == Calm => (Spec => []DisconnectHolds)
<1>1. CInv => DisconnectHolds
  BY DEF CInv, OneLive, DisconnectHolds
<1> QED BY <1>1, CalmInv, PTL
=============================================================================
