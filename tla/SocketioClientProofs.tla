------------------------- MODULE SocketioClientProofs -------------------------
(* Safety of SocketioClient for every announced interval and timeout that   *)
(* is longer than Rtt.                                                       *)
EXTENDS SocketioClient, TLAPS

(***************************************************************************)
(* The inductive invariant: m_ping_timer and m_ping_timeout_timer run in   *)
(* step, and the second one runs on a live link only while a pong is owed. *)
(***************************************************************************)
TimersInStep ==
  Armed(pongTimer) =>
    /\ Armed(pingTimer)
    /\ pongTimer - pingTimer = m_ping_timeout - m_ping_interval

IntervalsAnnounced ==
  Armed(pingTimer) =>
    m_ping_interval \in PingIntervals /\ m_ping_timeout \in PingTimeouts

PongOwed ==
  /\ owed # Off => /\ Receives
                   /\ owed <= Rtt
                   /\ Armed(pongTimer)
                   /\ pongTimer = m_ping_timeout - owed
  /\ Armed(pongTimer) /\ Receives => owed # Off

IInv ==
  /\ TypeOK
  /\ SendsAreSafe
  /\ RetryArmed
  /\ IntervalsAnnounced
  /\ TimersInStep
  /\ PongOwed

\* Whatever the server announces, on_handshake takes numbers of seconds, and
\* a timeout longer than a live server needs.
LEMMA AnnouncedAreTimes ==
  /\ PingIntervals \subseteq Nat
  /\ PingTimeouts \subseteq Nat
  /\ \A t \in PingTimeouts : Rtt < t
<1>1. \A i \in ServerIntervals \union ServerTimeouts :
        i = Missing \/ (i \in Nat /\ Rtt < i)
  BY TimingAssumption
<1>2. DefaultPingInterval \in Nat /\ DefaultPingTimeout \in Nat
  BY DEF DefaultPingInterval, DefaultPingTimeout
<1>3. PingIntervals \subseteq Nat
  BY <1>1, <1>2 DEF PingIntervals, OrElse
<1>4. PingTimeouts \subseteq Nat /\ \A t \in PingTimeouts : Rtt < t
  BY <1>1, <1>2, TimingAssumption DEF PingTimeouts, OrElse
<1> QED
  BY <1>3, <1>4

LEMMA InitIInv == Init => IInv
<1> SUFFICES ASSUME Init PROVE IInv
  OBVIOUS
<1>1. silent \in BOOLEAN /\ m_connected \in BOOLEAN
  BY Zenon DEF Init
<1> QED
  BY <1>1 DEF Init, IInv, TypeOK, SendsAreSafe, RetryArmed, IntervalsAnnounced,
       TimersInStep, PongOwed, Armed, Off, Timer, Links, Faults, Receives

\* The two flags of the session stay flags.
LEMMA FlagsTyped ==
  TypeOK /\ [Next]_vars => silent' \in BOOLEAN /\ m_connected' \in BOOLEAN
<1> SUFFICES ASSUME TypeOK, [Next]_vars
             PROVE  silent' \in BOOLEAN /\ m_connected' \in BOOLEAN
  OBVIOUS
<1> USE DEF TypeOK, vars, linkVars, pingVars
<1>1. CASE Connecting
  BY <1>1, Zenon
     DEF Connecting, Resolved, ResolveFailed, ConnectFailed, TcpConnected, WsOpened
<1>2. CASE LinkShut \/ RemoteDies
  BY <1>2, Zenon DEF LinkShut, RemoteDies
<1>3. CASE Handshake
  BY <1>3, Zenon DEF Handshake, OnHandshake
<1>4. CASE OnConnected \/ OnPong \/ OnDisconnect
  BY <1>4, Zenon DEF OnConnected, OnPong, OnDisconnect
<1>5. CASE FrameClose \/ TimeoutPong
  BY <1>5, Zenon DEF FrameClose, TimeoutPong, Close
<1>6. CASE Ping \/ TimeoutReconnect \/ Tick
  BY <1>6, Zenon DEF Ping, TimeoutReconnect, Tick
<1>7. CASE UNCHANGED vars
  BY <1>7, Zenon
<1> QED
  BY <1>1, <1>2, <1>3, <1>4, <1>5, <1>6, <1>7, Zenon DEF Next, Timers

\* close() leaves every timer but m_reconn_timer off, whatever the state.
LEMMA CloseIInv ==
  ASSUME IInv, Close, silent' \in BOOLEAN, m_connected' \in BOOLEAN
  PROVE  IInv'
<1>1. m_con_state' = "closed" /\ link' = "deleted" /\ ~m_connected'
  BY Zenon DEF Close
<1>2. /\ pingTimer' = Off /\ pongTimer' = Off /\ owed' = Off
      /\ reconnTimer' = ReconnectDelay
      /\ m_ping_interval' = m_ping_interval /\ m_ping_timeout' = m_ping_timeout
  BY DEF Close
<1>3. fault' \in Faults
  BY DEF Close, Faults
<1> QED
  BY <1>1, <1>2, <1>3 DEF IInv, TypeOK, SendsAreSafe, RetryArmed, IntervalsAnnounced,
     TimersInStep, PongOwed, Armed, Off, Timer, Links, Receives, ReconnectDelay

LEMMA StepIInv == IInv /\ [Next]_vars => IInv'
<1> SUFFICES ASSUME IInv, [Next]_vars PROVE IInv'
  OBVIOUS
<1>0. silent' \in BOOLEAN /\ m_connected' \in BOOLEAN
  BY FlagsTyped DEF IInv
<1> USE <1>0 DEF IInv, TypeOK, SendsAreSafe, RetryArmed, IntervalsAnnounced, TimersInStep,
            PongOwed, Armed, Off, Timer, Links, Faults, Receives,
            vars, linkVars, pingVars
<1>1. CASE Connecting
  BY <1>1 DEF Connecting, Resolved, ResolveFailed, ConnectFailed, TcpConnected, WsOpened
<1>2. CASE LinkShut \/ RemoteDies
  BY <1>2 DEF LinkShut, RemoteDies
<1>3. CASE Handshake
  <2> PICK interval \in ServerIntervals, timeout \in ServerTimeouts, sid \in BOOLEAN :
        OnHandshake(interval, timeout, sid)
    BY <1>3, Zenon DEF Handshake
  <2>1. m_ping_interval' \in PingIntervals /\ m_ping_timeout' \in PingTimeouts
    BY Zenon DEF OnHandshake, PingIntervals, PingTimeouts
  <2>2. link' \in {"open", "shut"}
    BY Zenon DEF OnHandshake
  <2> QED
    BY <2>1, <2>2, AnnouncedAreTimes DEF OnHandshake
<1>4. CASE OnConnected \/ OnPong \/ OnDisconnect
  BY <1>4 DEF OnConnected, OnPong, OnDisconnect
<1>5. CASE FrameClose \/ TimeoutPong
  BY <1>5, CloseIInv DEF FrameClose, TimeoutPong
<1>6. CASE Ping
  BY <1>6, TimingAssumption DEF Ping, StartPong
<1>7. CASE TimeoutReconnect
  BY <1>7 DEF TimeoutReconnect, Reset
<1>8. CASE Tick
  BY <1>8, TimingAssumption DEF Tick, Passed
<1>9. CASE UNCHANGED vars
  BY <1>9
<1> QED
  BY <1>1, <1>2, <1>3, <1>4, <1>5, <1>6, <1>7, <1>8, <1>9 DEF Next, Timers

\* The inductive invariant holds in every reachable state.
THEOREM IInvHolds == Spec => []IInv
BY InitIInv, StepIInv, PTL DEF Spec

\* Every variable keeps its type, the timers included.
THEOREM TypeCorrect == Spec => []TypeOK
<1>1. IInv => TypeOK
  BY DEF IInv
<1> QED
  BY <1>1, IInvHolds, PTL

\* emit and the ping timer never meet a deleted m_client or an unfinished
\* websocket handshake.
THEOREM SendsSafe == Spec => []SendsAreSafe
<1>1. IInv => SendsAreSafe
  BY DEF IInv
<1> QED
  BY <1>1, IInvHolds, PTL

\* A session given up always has its retry, one under way its m_client.
THEOREM RetryComes == Spec => []RetryArmed
<1>1. IInv => RetryArmed
  BY DEF IInv
<1> QED
  BY <1>1, IInvHolds, PTL

\* No announced timeout longer than Rtt makes the device drop a live server.
THEOREM LiveLinkNotDropped == Spec => []LiveLinkKept
<1>1. IInv => LiveLinkKept
  BY AnnouncedAreTimes, TimingAssumption
     DEF IInv, TypeOK, SendsAreSafe, IntervalsAnnounced, TimersInStep, PongOwed,
         LiveLinkKept, Receives, Armed, Off, Timer
<1> QED
  BY <1>1, IInvHolds, PTL

\* A timeout not shorter than the interval is never seen to expire.
THEOREM PongTimeoutUnseen == Spec => []PongTimerBlind
<1>1. IInv => PongTimerBlind
  BY DEF IInv, TypeOK, TimersInStep, PongTimerBlind, Armed, Off, Timer
<1> QED
  BY <1>1, IInvHolds, PTL

(***************************************************************************)
(* A dead link in time: what DeadLinkDetected rests on, but for the        *)
(* fairness of the clock and the timers.                                   *)
(***************************************************************************)
\* A link that died after the handshake, with a timeout that can run out.
Dying == DeadLink /\ Armed(pingTimer) /\ m_ping_timeout < m_ping_interval

\* The seconds until m_ping_timeout_timer is due, which the next ping starts if it
\* is not running.
Remaining == IF Armed(pongTimer) THEN pongTimer ELSE pingTimer + m_ping_timeout

DyingIsTimed ==
  Dying => /\ Remaining \in 0 .. m_ping_interval + m_ping_timeout
           /\ Remaining = 0 => pongTimer = 0 /\ pingTimer > 0

TimeRunsOut ==
  Dying => \/ m_con_state' = "closed"
           \/ fault' # "none"
           \/ /\ Dying' /\ Remaining' <= Remaining
              /\ Tick => Remaining' < Remaining

\* The ping timer never has more to run than its interval.
PingInPeriod == Armed(pingTimer) => pingTimer <= m_ping_interval

LEMMA PingKeepsPeriod == Spec => []PingInPeriod
<1>1. Init => PingInPeriod
  BY DEF Init, PingInPeriod, Armed
<1>2. IInv /\ PingInPeriod /\ [Next]_vars => PingInPeriod'
  <2> SUFFICES ASSUME IInv, PingInPeriod, [Next]_vars PROVE PingInPeriod'
    OBVIOUS
  <2> USE DEF PingInPeriod, Armed, Off
  <2>1. CASE Handshake
    <3> PICK interval \in ServerIntervals, timeout \in ServerTimeouts, sid \in BOOLEAN :
          OnHandshake(interval, timeout, sid)
      BY <2>1, Zenon DEF Handshake
    <3>1. m_ping_interval' \in Nat /\ pingTimer' = m_ping_interval'
      BY AnnouncedAreTimes DEF OnHandshake, PingIntervals
    <3> QED
      BY <3>1
  <2>2. CASE FrameClose \/ TimeoutPong
    BY <2>2 DEF FrameClose, TimeoutPong, Close
  <2>3. CASE Ping \/ TimeoutReconnect \/ Tick
    BY <2>3 DEF Ping, TimeoutReconnect, Reset, Tick, Passed, IInv, TypeOK, Timer
  <2>4. CASE UNCHANGED <<pingTimer, m_ping_interval>>
    BY <2>4
  <2> QED
    BY <2>1, <2>2, <2>3, <2>4
    DEF Next, Timers, Connecting, Resolved, ResolveFailed, ConnectFailed, TcpConnected, WsOpened,
        LinkShut, RemoteDies, OnConnected, OnPong, OnDisconnect, vars, linkVars, pingVars
<1> QED
  BY <1>1, <1>2, IInvHolds, PTL DEF Spec

\* With a timeout shorter than the interval, a link that died after the handshake has at
\* most interval + timeout seconds left, and when none is left the pong timeout is due.
THEOREM DeadLinkTimed == Spec => []DyingIsTimed
<1>1. IInv /\ PingInPeriod => DyingIsTimed
  <2> SUFFICES ASSUME IInv, PingInPeriod, Dying PROVE DyingIsTimed
    BY DEF DyingIsTimed
  <2>1. /\ pingTimer \in Nat /\ pingTimer <= m_ping_interval
        /\ m_ping_interval \in Nat /\ m_ping_timeout \in Nat /\ m_ping_timeout < m_ping_interval
    BY DEF Dying, PingInPeriod, IInv, TypeOK, Armed, Off, Timer
  <2>2. m_ping_timeout > 0
    <3>1. m_ping_timeout \in PingTimeouts
      BY DEF Dying, IInv, IntervalsAnnounced
    <3> QED
      BY <2>1, <3>1, AnnouncedAreTimes, TimingAssumption
  <2>3. CASE Armed(pongTimer)
    <3>1. pongTimer \in Nat /\ pongTimer - pingTimer = m_ping_timeout - m_ping_interval
      BY <2>3 DEF IInv, TypeOK, TimersInStep, Armed, Off, Timer
    <3>2. Remaining = pongTimer
      BY <2>3 DEF Remaining
    <3> QED
      BY <2>1, <3>1, <3>2 DEF DyingIsTimed
  <2>4. CASE ~Armed(pongTimer)
    <3>1. Remaining = pingTimer + m_ping_timeout
      BY <2>4 DEF Remaining
    <3>2. Remaining > 0 /\ Remaining <= m_ping_interval + m_ping_timeout
      BY <2>1, <2>2, <3>1
    <3> QED
      BY <2>1, <3>1, <3>2 DEF DyingIsTimed
  <2> QED
    BY <2>3, <2>4
<1> QED
  BY <1>1, IInvHolds, PingKeepsPeriod, PTL

\* No event gives a dead link more time, and every second takes one from it: no ping,
\* no late message of the server and no second failure puts the close off.
THEOREM DeadLinkGivenUp == Spec => [][TimeRunsOut]_vars
<1>1. ASSUME IInv, Next PROVE TimeRunsOut
  <2> SUFFICES ASSUME Dying PROVE \/ m_con_state' = "closed"
                                  \/ fault' # "none"
                                  \/ /\ Dying' /\ Remaining' <= Remaining
                                     /\ Tick => Remaining' < Remaining
    BY DEF TimeRunsOut
  <2>1. /\ link \in {"shut", "open"} /\ ~Receives /\ owed = Off
        /\ pingTimer \in Nat /\ pongTimer \in Nat \union {Off}
        /\ m_ping_interval \in Nat /\ m_ping_timeout \in Nat /\ m_ping_timeout < m_ping_interval
        /\ Armed(pongTimer) => pongTimer - pingTimer = m_ping_timeout - m_ping_interval
    BY <1>1 DEF Dying, DeadLink, IInv, TypeOK, TimersInStep, PongOwed, Receives, Armed, Off, Timer
  <2>2. CASE Connecting \/ Handshake \/ OnConnected \/ OnPong \/ FrameClose \/ OnDisconnect
    BY <2>1, <2>2 DEF Connecting, Resolved, ResolveFailed, ConnectFailed, TcpConnected, WsOpened,
       Handshake, OnHandshake, OnConnected, OnPong, FrameClose, OnDisconnect
  <2>3. CASE LinkShut \/ RemoteDies
    <3>1. DeadLink' /\ UNCHANGED <<pingTimer, pongTimer, m_ping_interval, m_ping_timeout>>
      BY <2>1, <2>3 DEF LinkShut, RemoteDies, DeadLink, Dying, Receives
    <3>2. Tick => pingTimer' = Passed(pingTimer)
      BY DEF Tick
    <3> QED
      BY <2>1, <3>1, <3>2 DEF Dying, Remaining, Passed, Armed, Off
  <2>4. CASE Ping
    <3>1. ~Armed(pongTimer)
      BY <2>1, <2>4 DEF Ping, Armed, Off
    <3>2. /\ pingTimer' = m_ping_interval /\ pongTimer' = m_ping_timeout
          /\ UNCHANGED <<m_ping_interval, m_ping_timeout, link, silent>> /\ pingTimer = 0
      BY <2>4 DEF Ping, StartPong, linkVars
    <3> QED
      BY <2>1, <3>1, <3>2 DEF Dying, DeadLink, Remaining, Armed, Off, Tick
  <2>5. CASE TimeoutPong \/ TimeoutReconnect
    BY <1>1, <2>5 DEF TimeoutPong, TimeoutReconnect, Close, Dying, DeadLink, IInv, RetryArmed
  <2>6. CASE Tick
    <3>1. /\ pingTimer' = Passed(pingTimer) /\ pongTimer' = Passed(pongTimer)
          /\ UNCHANGED <<m_ping_interval, m_ping_timeout, link, silent>>
          /\ pingTimer # 0 /\ pongTimer # 0
      BY <2>6 DEF Tick, linkVars
    <3> QED
      BY <2>1, <3>1 DEF Dying, DeadLink, Remaining, Passed, Armed, Off
  <2> QED
    BY <1>1, <2>2, <2>3, <2>4, <2>5, <2>6 DEF Next, Timers
<1>2. IInv /\ [Next]_vars => [TimeRunsOut]_vars
  BY <1>1
<1> QED
  BY <1>2, IInvHolds, PTL DEF Spec
=============================================================================
