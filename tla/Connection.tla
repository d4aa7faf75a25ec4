----------------------------- MODULE Connection -----------------------------
(***************************************************************************)
(* Sessions and connections of the sync engine: startSession, endSession,  *)
(* connect, disconnect and updateSessionToken, the web sockets of the      *)
(* transport with their events, and the reconnect timers.                  *)
(*                                                                         *)
(* The transport knows the last socket only (ws), but the handlers of      *)
(* older sockets stay, each bound to the session that made it.  What is    *)
(* synchronised over a connection is the subject of Outbox and QuerySync:  *)
(* here "synced" is the socket that initializeSync last sent it over.      *)
(***************************************************************************)
EXTENDS Naturals, Sequences, FiniteSets

CONSTANTS
  MaxSessions, \* bound: sessions that are started
  MaxCalls,    \* bound: calls of connect, disconnect and updateSessionToken
  MaxLosses,   \* bound: sockets that fail or are lost
  MaxRefusals, \* bound: connections that the server closes for good
  Impatient,   \* the application calls while a socket opens or closes
  Offline,     \* the application calls while a reconnect timer is set
  SlowCloses   \* a socket may close after a newer one opened, its reason lost

ASSUME ConnectionAssumption ==
  /\ {MaxSessions, MaxCalls, MaxLosses, MaxRefusals} \subseteq Nat
  /\ {Impatient, Offline, SlowCloses} \subseteq BOOLEAN

Sessions == 1..MaxSessions
Statuses == {"UNINITIALIZED", "CONNECTING", "OPEN", "CLOSING", "CLOSED"}

VARIABLES
  current,     \* this.currentSession; 0: none
  status,      \* of each session
  token,       \* of each session: its version
  sockets,     \* every socket that was made, in order
  ws,          \* the transport's; 0: none
  armed,       \* the timer of this.reconnectTimeout is set
  leaked,      \* timers that are set and that nothing refers to
  serverReady,
  synced,      \* the socket that initializeSync sent over; 0: none, or reset
  wanted,      \* history: the application asked for a connection last
  used         \* counts for the bounds

vars == <<current, status, token, sockets, ws, armed, leaked, serverReady, synced,
          wanted, used>>

-----------------------------------------------------------------------------
(* Sockets.  reason: what it is closed with; closer: the reason that the   *)
(* listener will close with which waits for it to open.  "manual" stands   *)
(* for the reasons that say not to retry.                                  *)

BadSocket(s) == [session |-> s, token |-> token[s], state |-> "UNINITIALIZED",
                 reason |-> "none", closer |-> "no", greeted |-> FALSE]
Socket(s) == [session |-> s, token |-> token[s], state |-> "CONNECTING", reason |-> "none",
              closer |-> "no", greeted |-> FALSE]

In(k, states) == sockets[k].state \in states

(* WebSocket.close: one that is connecting fails, and gives no reason.     *)
Shut(socks, k, reason) ==
  CASE k # 0 /\ socks[k].state = "OPEN" ->
         [socks EXCEPT ![k].state = "CLOSING", ![k].reason = reason]
    [] k # 0 /\ socks[k].state = "CONNECTING" -> [socks EXCEPT ![k].state = "CLOSING"]
    [] OTHER -> socks

(* transport.close.                                                        *)
CloseWs(socks, reason) ==
  IF ws # 0 /\ socks[ws].state = "CONNECTING"
  THEN [socks EXCEPT ![ws].closer = IF @ = "no" THEN reason ELSE @]
  ELSE Shut(socks, ws, reason)

(* createConnection and transport.connect for a session.                   *)
Refused(st) == st \in {"OPEN", "CONNECTING"}

Created(s, socks, stat) ==
  IF s = 0 \/ Refused(stat[s])
  THEN /\ sockets' = socks /\ status' = stat
       /\ UNCHANGED ws
  ELSE /\ status' = [stat EXCEPT ![s] = "CONNECTING"]
       /\ sockets' = Append(CloseWs(socks, "none"), Socket(s))
       /\ ws' = Len(sockets')

-----------------------------------------------------------------------------
(* The application.                                                        *)

(* A patient one lets a socket close, or open and be greeted; and a quiet  *)
(* one lets the client connect again.                                      *)
Calls ==
  /\ Impatient \/ \A k \in DOMAIN sockets :
       In(k, {"CLOSED"}) \/ (In(k, {"OPEN"}) /\ sockets[k].greeted)
  /\ Offline \/ (~armed /\ leaked = 0)

Called == used.calls < MaxCalls /\ used' = [used EXCEPT !.calls = @ + 1]

(* disconnect, of the session that ends.                                   *)
Disconnected == IF current = 0 THEN status ELSE [status EXCEPT ![current] = "CLOSING"]

BadTeardown(reason) == sockets
Teardown(reason) == CloseWs(sockets, reason)

(* startSession with a new token: disconnect, resetQueryState, and a new   *)
(* session that is connected, or is not.                                   *)
StartSession(connect) ==
  /\ Calls
  /\ used.sessions < MaxSessions
  /\ LET s == used.sessions + 1
         socks == IF current = 0 THEN sockets ELSE Teardown("manual")
     IN  /\ current' = s
         /\ used' = [used EXCEPT !.sessions = s]
         /\ IF connect THEN Created(s, socks, Disconnected)
            ELSE /\ sockets' = socks /\ status' = Disconnected
                 /\ UNCHANGED ws
  /\ synced' = IF current = 0 THEN synced ELSE 0
  /\ wanted' = connect
  /\ UNCHANGED <<token, armed, leaked, serverReady>>

EndSession ==
  /\ Calls /\ Called
  /\ current # 0
  /\ current' = 0
  /\ status' = Disconnected
  /\ sockets' = Teardown("manual")
  /\ synced' = 0
  /\ wanted' = FALSE
  /\ UNCHANGED <<token, ws, armed, leaked, serverReady>>

Connect ==
  /\ Calls /\ Called
  /\ current # 0
  /\ Created(current, sockets, status)
  /\ wanted' = TRUE
  /\ UNCHANGED <<current, token, armed, leaked, serverReady, synced>>

Disconnect ==
  /\ Calls /\ Called
  /\ status' = Disconnected
  /\ sockets' = Teardown("manual")
  /\ wanted' = FALSE
  /\ UNCHANGED <<current, token, ws, armed, leaked, serverReady, synced>>

(* updateSessionToken: the request names the connection by the clientId of *)
(* the last READY.  Whether it succeeds is not awaited.                    *)
BadNamed(k) == FALSE
Named(k) == sockets[k].greeted /\ In(k, {"OPEN"}) /\ k = ws

UpdateToken ==
  /\ Calls /\ Called
  /\ current # 0
  /\ token' = [token EXCEPT ![current] = @ + 1]
  /\ sockets' = [k \in DOMAIN sockets |->
                   IF Named(k) THEN [sockets[k] EXCEPT !.token = token'[current]]
                   ELSE sockets[k]]
  /\ UNCHANGED <<current, status, ws, armed, leaked, serverReady, synced, wanted>>

-----------------------------------------------------------------------------
(* Events of the sockets.                                                  *)

(* onOpenHandler, and the listener that closes the transport's socket: it  *)
(* may be a newer one.                                                     *)
SocketOpens(k) ==
  /\ In(k, {"CONNECTING"})
  /\ SlowCloses \/ \A m \in DOMAIN sockets : ~In(m, {"CLOSING"})
  /\ status' = [status EXCEPT ![sockets[k].session] = "OPEN"]
  /\ armed' = FALSE
  /\ LET opened == [sockets EXCEPT ![k].state = "OPEN"]
     IN  sockets' = IF sockets[k].closer = "no" THEN opened
                    ELSE Shut(opened, ws, sockets[k].closer)
  /\ UNCHANGED <<current, token, ws, leaked, serverReady, synced, wanted, used>>

(* READY, which initializeSync answers over the transport's socket.        *)
ServerReady(k) ==
  /\ In(k, {"OPEN"}) /\ ~sockets[k].greeted
  /\ sockets' = [sockets EXCEPT ![k].greeted = TRUE]
  /\ serverReady' = TRUE
  /\ synced' = IF ~serverReady /\ In(ws, {"OPEN"}) THEN ws ELSE synced
  /\ UNCHANGED <<current, status, token, ws, armed, leaked, wanted, used>>

(* onCloseHandler.                                                         *)
BadForgotten == UNCHANGED serverReady
Forgotten == serverReady' = FALSE

OnClose(k, socks, reason) ==
  /\ sockets' = [socks EXCEPT ![k].state = "CLOSED"]
  /\ status' = [status EXCEPT ![sockets[k].session] = "CLOSED"]
  /\ Forgotten
  /\ synced' = 0
  /\ IF reason = "manual" THEN UNCHANGED <<armed, leaked>>
     ELSE /\ armed' = TRUE
          /\ leaked' = IF armed THEN leaked + 1 ELSE leaked

SocketCloses(k) ==
  /\ In(k, {"CLOSING"})
  /\ \E reason \in {sockets[k].reason} \union (IF SlowCloses THEN {"none"} ELSE {}) :
       OnClose(k, sockets, reason)
  /\ UNCHANGED <<current, token, ws, wanted, used>>

(* A socket fails, or is lost: onErrorHandler closes the transport's, and  *)
(* then onCloseHandler runs.                                               *)
SocketFails(k) ==
  /\ In(k, {"CONNECTING", "OPEN"})
  /\ used.losses < MaxLosses
  /\ OnClose(k, CloseWs([sockets EXCEPT ![k].state = "CLOSED"], "none"), "none")
  /\ used' = [used EXCEPT !.losses = @ + 1]
  /\ UNCHANGED <<current, token, ws, wanted>>

(* CLOSE: the server will not have the session (its token is refused or    *)
(* expired, its schema does not fit) and closes the socket as well.        *)
ServerCloses(k) ==
  /\ In(k, {"OPEN"}) /\ used.refusals < MaxRefusals
  /\ sockets' = Shut(CloseWs(sockets, "manual"), k, "manual")
  /\ used' = [used EXCEPT !.refusals = @ + 1]
  /\ wanted' = IF sockets[k].session = current THEN FALSE ELSE wanted
  /\ UNCHANGED <<current, status, token, ws, armed, leaked, serverReady, synced>>

(* A reconnect timer: connect, of the session that is current by then.     *)
Reconnect(last) ==
  /\ IF last THEN armed ELSE leaked > 0
  /\ armed' = IF last THEN FALSE ELSE armed
  /\ leaked' = IF last THEN leaked ELSE leaked - 1
  /\ Created(current, sockets, status)
  /\ UNCHANGED <<current, token, serverReady, synced, wanted, used>>

-----------------------------------------------------------------------------
Init ==
  /\ current = 0 /\ ws = 0 /\ synced = 0
  /\ status = [s \in Sessions |-> "UNINITIALIZED"]
  /\ token = [s \in Sessions |-> 1]
  /\ sockets = <<>>
  /\ armed = FALSE /\ leaked = 0
  /\ serverReady = FALSE /\ wanted = FALSE
  /\ used = [sessions |-> 0, calls |-> 0, losses |-> 0, refusals |-> 0]

Application ==
  \/ \E connect \in BOOLEAN : StartSession(connect)
  \/ EndSession \/ Connect \/ Disconnect \/ UpdateToken

Next ==
  \/ Application
  \/ \E k \in DOMAIN sockets :
       \/ SocketOpens(k) \/ ServerReady(k) \/ SocketCloses(k)
       \/ SocketFails(k) \/ ServerCloses(k)
  \/ \E last \in BOOLEAN : Reconnect(last)

(* Sockets open or fail, the server greets, closes end, and timers fire.   *)
Fairness ==
  /\ WF_vars(\E k \in DOMAIN sockets : SocketOpens(k))
  /\ WF_vars(\E k \in DOMAIN sockets : ServerReady(k))
  /\ WF_vars(\E k \in DOMAIN sockets : SocketCloses(k))
  /\ WF_vars(\E last \in BOOLEAN : Reconnect(last))

Spec == Init /\ [][Next]_vars /\ Fairness

-----------------------------------------------------------------------------
(* Properties.                                                             *)

TypeOK ==
  /\ current \in 0..MaxSessions
  /\ status \in [Sessions -> Statuses]
  /\ token \in [Sessions -> Nat]
  /\ sockets \in Seq([session : Sessions, token : Nat, state : Statuses \ {"UNINITIALIZED"},
                      reason : {"none", "manual"}, closer : {"no", "none", "manual"},
                      greeted : BOOLEAN])
  /\ ws \in 0..Len(sockets) /\ synced \in 0..Len(sockets)
  /\ armed \in BOOLEAN /\ leaked \in Nat
  /\ serverReady \in BOOLEAN /\ wanted \in BOOLEAN
  /\ used \in [sessions : 0..MaxSessions, calls : Nat, losses : Nat, refusals : Nat]

Live(k) == In(k, {"CONNECTING", "OPEN"})

(* The server hears of the client over one socket at most, and it is the   *)
(* one the client writes to, made for the session that is current and      *)
(* under its token.                                                        *)
OneConnection ==
  \A k \in DOMAIN sockets : Live(k) =>
    k = ws /\ sockets[k].session = current /\ sockets[k].token = token[current]

(* client.connectionStatus is the state of that socket.                    *)
StatusHonest ==
  current # 0 =>
    /\ status[current] \in {"OPEN", "CONNECTING"} => ws # 0 /\ In(ws, {status[current], "CLOSING"})
    /\ status[current] \in {"UNINITIALIZED", "CLOSED"} => ws = 0 \/ ~Live(ws)

(* "Disconnects the client from the server. This will stop the client from *)
(* syncing data with the server" (triplit-client.ts:1173): after           *)
(* disconnect, endSession or a refusal there is no connection, until one   *)
(* is asked for.                                                           *)
DisconnectHolds == ~wanted => \A k \in DOMAIN sockets : ~Live(k)

(* "If the connection is unexpectedly lost, the client will automatically  *)
(* reconnect" (docs/src/pages/client/sync-engine.mdx:9), and sends its     *)
(* queries and changes again: once the network and the application are     *)
(* quiet, a session that is to be connected is, and has synced over the    *)
(* very connection it has.                                                 *)
Reconnects ==
  <>[](wanted => status[current] = "OPEN" /\ In(ws, {"OPEN"}) /\ serverReady /\ synced = ws)
=============================================================================
