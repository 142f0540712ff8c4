---------------------------- MODULE SocketioClient ----------------------------
(***************************************************************************)
(* The device's link to the signalling server: SocketioClient and its root *)
(* Socket over the HttpsClient websocket that Signaler gives it.           *)
(*                                                                         *)
(* Everything here runs on the libuv loop.  Time passes in ticks of one    *)
(* second (Tick), and never past a timer that is due: an action of a timer *)
(* is its callback.  A timer is the number of ticks it has left, or Off.   *)
(***************************************************************************)
EXTENDS Integers

CONSTANTS
  ServerIntervals,  \* the pingInterval the server may announce
  ServerTimeouts,   \* the pingTimeout the server may announce
  Missing,          \* an announcement without the field
  Rtt               \* a live server's pong is handled within Rtt ticks of the ping

Off == -1                    \* a timer that is not running; no answer is owed
Armed(timer) == timer # Off

DefaultPingInterval == 25    \* the fallbacks of on_handshake
DefaultPingTimeout  == 60
ReconnectDelay      == 4

OrElse(value, default) == IF value = Missing THEN default ELSE value

PingIntervals == {OrElse(i, DefaultPingInterval) : i \in ServerIntervals}
PingTimeouts  == {OrElse(t, DefaultPingTimeout) : t \in ServerTimeouts}

\* The loop is never held up for so long that a live server seems late.
ASSUME TimingAssumption ==
  /\ Rtt \in Nat
  /\ Missing \notin Nat
  /\ \A t \in ServerIntervals \union ServerTimeouts :
       t = Missing \/ (t \in Nat /\ Rtt < t)
  /\ Rtt < DefaultPingInterval /\ Rtt < DefaultPingTimeout

VARIABLES
  m_con_state,      \* "opening" or "closed"; there is no other value in use
  link,             \* the HttpsClient m_client and its TCP connection
  silent,           \* the other end of an established TCP connection is gone
  m_connected,      \* Socket::m_connected
  m_ping_interval, m_ping_timeout,
  pingTimer,        \* m_ping_timer, repeating
  pongTimer,        \* m_ping_timeout_timer, one-shot
  reconnTimer,      \* m_reconn_timer
  owed,             \* age of the ping the live server has not answered, or Off
  fault             \* "none", or why the loop runs no more

linkVars  == <<link, silent>>
pingVars  == <<m_ping_interval, m_ping_timeout, pingTimer, pongTimer, owed>>
vars == <<m_con_state, linkVars, m_connected, pingVars, reconnTimer, fault>>

Links  == {"resolving", "connecting", "upgrading", "open", "shut", "deleted"}
Faults == {"none", "bad_address", "use_after_delete", "stale_iterator",
           "self_deadlock"}

Init ==   \* after the connect() of Signaler::connect
  /\ m_con_state = "opening"
  /\ link = "resolving"
  /\ silent = FALSE
  /\ m_connected = FALSE
  /\ m_ping_interval = 0
  /\ m_ping_timeout = 0
  /\ pingTimer = Off
  /\ pongTimer = Off
  /\ reconnTimer = Off
  /\ owed = Off
  /\ fault = "none"

(***************************************************************************)
(* Establishing the link.  HttpsClient reports nothing but data: a lookup, *)
(* a connect, an upgrade that fails leaves a closed m_client and no timer. *)
(***************************************************************************)
Resolved ==
  /\ link = "resolving"
  /\ link' = "connecting"
  /\ UNCHANGED <<m_con_state, silent, m_connected, pingVars, reconnTimer, fault>>

\* cbDnsResolve passes the missing address on: ASSERT(uv_ip4_addr(<host name>)).
ResolveFailed ==
  /\ link = "resolving"
  /\ fault' = "bad_address"
  /\ UNCHANGED <<m_con_state, linkVars, m_connected, pingVars, reconnTimer>>

\* onconnect ignores its status: the first write or read then closes the handle.
ConnectFailed ==
  /\ link = "connecting"
  /\ link' = "shut"
  /\ UNCHANGED <<m_con_state, silent, m_connected, pingVars, reconnTimer, fault>>

TcpConnected ==
  /\ link = "connecting"
  /\ ~silent
  /\ link' = "upgrading"
  /\ UNCHANGED <<m_con_state, silent, m_connected, pingVars, reconnTimer, fault>>

WsOpened ==
  /\ link = "upgrading"
  /\ ~silent
  /\ link' = "open"
  /\ UNCHANGED <<m_con_state, silent, m_connected, pingVars, reconnTimer, fault>>

\* End of file, a reset, a failed write or a websocket close frame.
LinkShut ==
  /\ link \in {"upgrading", "open"}
  /\ link' = "shut"
  /\ owed' = Off
  /\ UNCHANGED <<m_con_state, silent, m_connected, m_ping_interval, m_ping_timeout,
                 pingTimer, pongTimer, reconnTimer, fault>>

\* The server or the network goes away without a word.
RemoteDies ==
  /\ link \in {"connecting", "upgrading", "open"}
  /\ ~silent
  /\ silent' = TRUE
  /\ owed' = Off
  /\ UNCHANGED <<m_con_state, link, m_connected, m_ping_interval, m_ping_timeout,
                 pingTimer, pongTimer, reconnTimer, fault>>

(***************************************************************************)
(* close(): the only way to a new connection.  Deleting m_client frees the *)
(* uv handle and the objects on the call stack unless its connection was   *)
(* closed before.                                                          *)
(***************************************************************************)
Close_KeepsPing ==   \* mutant: m_ping_timer is not stopped
  /\ m_con_state' = "closed"
  /\ pongTimer' = Off
  /\ m_connected' = FALSE
  /\ link' = "deleted"
  /\ owed' = Off
  /\ reconnTimer' = ReconnectDelay
  /\ fault' = "none"
  /\ UNCHANGED <<silent, m_ping_interval, m_ping_timeout, pingTimer>>

Close ==
  /\ m_con_state' = "closed"
  /\ pongTimer' = Off
  /\ pingTimer' = Off
  /\ m_connected' = FALSE
  /\ link' = "deleted"
  /\ owed' = Off
  /\ reconnTimer' = ReconnectDelay
  /\ fault' \in {"none"} \union (IF link = "shut" THEN {} ELSE {"use_after_delete"})
  /\ UNCHANGED <<silent, m_ping_interval, m_ping_timeout>>

Reset_KeepsRetry ==   \* mutant: m_reconn_timer is not stopped
  /\ pingTimer' = Off
  /\ pongTimer' = Off
  /\ reconnTimer' = ReconnectDelay

Reset ==
  /\ pingTimer' = Off
  /\ pongTimer' = Off
  /\ reconnTimer' = Off

(***************************************************************************)
(* What the server sends.                                                  *)
(***************************************************************************)
Receives == link = "open" /\ ~silent

\* The first packet.  A handshake without sid closes m_client but goes on.
OnHandshake(interval, timeout, sid) ==
  /\ Receives
  /\ ~Armed(pingTimer)
  /\ link' = IF sid THEN link ELSE "shut"
  /\ m_ping_interval' = OrElse(interval, DefaultPingInterval)
  /\ m_ping_timeout' = OrElse(timeout, DefaultPingTimeout)
  /\ pingTimer' = m_ping_interval'
  /\ UNCHANGED <<m_con_state, silent, m_connected, pongTimer, reconnTimer, owed, fault>>

OnConnected ==
  /\ Receives
  /\ Armed(pingTimer)
  /\ ~m_connected
  /\ m_connected' = TRUE
  /\ UNCHANGED <<m_con_state, linkVars, pingVars, reconnTimer, fault>>

OnPong_Ignored ==   \* mutant: the pong does not stop m_ping_timeout_timer
  /\ owed # Off
  /\ owed' = Off
  /\ UNCHANGED <<m_con_state, linkVars, m_connected, m_ping_interval, m_ping_timeout,
                 pingTimer, pongTimer, reconnTimer, fault>>

OnPong ==
  /\ owed # Off
  /\ owed' = Off
  /\ pongTimer' = Off
  /\ UNCHANGED <<m_con_state, linkVars, m_connected, m_ping_interval, m_ping_timeout,
                 pingTimer, reconnTimer, fault>>

FrameClose ==
  /\ Receives
  /\ Close

\* on_close and remove_socket: the erased iterator is dereferenced; if its node
\* still reads as before, on_close calls remove_socket with the mutex held.
OnDisconnect ==
  /\ Receives
  /\ m_connected
  /\ m_connected' = FALSE
  /\ fault' \in {"stale_iterator", "self_deadlock"}
  /\ UNCHANGED <<m_con_state, linkVars, pingVars, reconnTimer>>

(***************************************************************************)
(* The timers.  Of two that are due, m_ping_timer was started first.       *)
(***************************************************************************)
StartPong_IfIdle ==   \* mutant: a running m_ping_timeout_timer is left alone
  pongTimer' = IF Armed(pongTimer) THEN pongTimer ELSE m_ping_timeout

StartPong_Never ==    \* mutant: ping() does not start m_ping_timeout_timer
  pongTimer' = pongTimer

StartPong == pongTimer' = m_ping_timeout

Ping ==
  /\ pingTimer = 0
  /\ pingTimer' = m_ping_interval
  /\ StartPong
  /\ owed' = IF Receives THEN 0 ELSE Off
  /\ UNCHANGED <<m_con_state, linkVars, m_connected, m_ping_interval, m_ping_timeout,
                 reconnTimer, fault>>

TimeoutPong ==
  /\ pongTimer = 0
  /\ pingTimer # 0
  /\ Close

TimeoutReconnect ==
  /\ reconnTimer = 0
  /\ m_con_state = "closed"
  /\ m_con_state' = "opening"
  /\ Reset
  /\ link' = "resolving"
  /\ silent' = FALSE
  /\ UNCHANGED <<m_connected, m_ping_interval, m_ping_timeout, owed, fault>>

Passed(timer) == IF Armed(timer) THEN timer - 1 ELSE Off

Tick ==
  /\ 0 \notin {pingTimer, pongTimer, reconnTimer}
  /\ owed # Rtt
  /\ pingTimer' = Passed(pingTimer)
  /\ pongTimer' = Passed(pongTimer)
  /\ reconnTimer' = Passed(reconnTimer)
  /\ owed' = IF owed = Off THEN Off ELSE owed + 1
  /\ UNCHANGED <<m_con_state, linkVars, m_connected, m_ping_interval, m_ping_timeout,
                 fault>>

(***************************************************************************)
Connecting ==
  Resolved \/ ResolveFailed \/ ConnectFailed \/ TcpConnected \/ WsOpened

Handshake ==
  \E interval \in ServerIntervals, timeout \in ServerTimeouts, sid \in BOOLEAN :
    OnHandshake(interval, timeout, sid)

Timers == Ping \/ TimeoutPong \/ TimeoutReconnect

Next ==
  /\ fault = "none"
  /\ \/ Connecting \/ LinkShut \/ RemoteDies
     \/ Handshake \/ OnConnected \/ OnPong \/ FrameClose \/ OnDisconnect
     \/ Timers \/ Tick

Spec == Init /\ [][Next]_vars

\* Time passes, the loop runs its timers, a lookup and a connect end somehow,
\* and a server that is there answers.
Runs(A) == fault = "none" /\ A

Fairness ==
  /\ WF_vars(Runs(Tick))
  /\ WF_vars(Runs(Timers))
  /\ WF_vars(Runs(Connecting))
  /\ WF_vars(Runs(Handshake \/ OnConnected \/ OnPong))

FairSpec == Spec /\ Fairness

(***************************************************************************)
(* Properties.                                                             *)
(***************************************************************************)
Timer == Nat \union {Off}

\* Every variable has its type.
TypeOK ==
  /\ m_con_state \in {"opening", "closed"}
  /\ link \in Links
  /\ silent \in BOOLEAN
  /\ m_connected \in BOOLEAN
  /\ m_ping_interval \in Nat
  /\ m_ping_timeout \in Nat
  /\ pingTimer \in Timer
  /\ pongTimer \in Timer
  /\ reconnTimer \in Timer
  /\ owed \in Timer
  /\ fault \in Faults

\* Whatever may send (emit while m_connected, ping by timer) finds an m_client
\* that exists and whose websocket handshake is over: WebSocketConnection::send
\* asserts it, and close() leaves m_client dangling until the next connect.
SendsAreSafe ==
  m_connected \/ Armed(pingTimer) => link \in {"open", "shut"}

\* A session given up has its m_client deleted and a retry coming; an attempt
\* under way keeps its m_client and is not cut short by an earlier retry.
RetryArmed ==
  /\ m_con_state = "closed" <=> Armed(reconnTimer)
  /\ m_con_state = "closed" <=> link = "deleted"

\* The pong timeout gives up no link whose server is alive and answers in time.
LiveLinkKept == pongTimer = 0 => silent \/ link # "open"

\* ping() restarts m_ping_timeout_timer at every ping: with a timeout that is
\* not shorter than the interval (the fallbacks are 60 s and 25 s) it never
\* fires, and a dead server is not noticed.
PongTimerBlind ==
  m_ping_timeout >= m_ping_interval /\ pongTimer = 0 => pingTimer = 0

DeadLink == link = "shut" \/ (link = "open" /\ silent)

\* With a timeout shorter than the interval a link that died after the handshake
\* is given up, however it died.
DeadLinkDetected ==
  DeadLink /\ Armed(pingTimer) /\ m_ping_timeout < m_ping_interval /\ fault = "none"
    ~> m_con_state = "closed"

\* An attempt to connect succeeds, is given up, or is tried again: the comment
\* of Socket::timeout_connection, "Otherwise we'll never ask for open again".
AsksAgain ==
  m_con_state = "opening" /\ ~m_connected
    ~> m_connected \/ m_con_state = "closed" \/ fault # "none"

\* The "disconnect" of the signalling server, which it sends to the obsolete of
\* two registered devices, does not stop the loop on m_socket_mutex.
NoSelfDeadlock == fault # "self_deadlock"
=============================================================================
