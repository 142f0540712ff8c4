---------------------------- MODULE SocketPackets ----------------------------
(***************************************************************************)
(* The packets of the root Socket: emit and send_packet, called by the     *)
(* libuv loop, by WebRTC's signaling thread (offers, candidates) and by    *)
(* the worker loops of RestApi (DELETE of a camera), on a connection that  *)
(* the loop opens, closes, deletes and opens again.                        *)
(*                                                                         *)
(* Only m_packet_queue has a lock.  A send on the connection is three      *)
(* steps: the frame is appended to _bufferOut, _bufferOut is written, and  *)
(* cleared.                                                                *)
(***************************************************************************)
EXTENDS Integers, Sequences

CONSTANTS
  Loop,       \* the thread of the libuv loop
  Others,     \* the other threads that emit
  Emits,      \* bound: how many packets each thread emits
  NoPacket

Threads == {Loop} \union Others
Packets == UNION {{t} \X (1..Emits[t]) : t \in Threads}

ASSUME PacketsAssumption ==
  /\ Loop \notin Others
  /\ Emits \in [Threads -> Nat]
  /\ NoPacket \notin Packets

VARIABLES
  m_connected,      \* Socket::m_connected, without a lock
  link,             \* SocketioClient::m_client and its websocket
  m_packet_queue,
  bufferOut,        \* the frames in SSLAdapter::_bufferOut
  pc,               \* where each thread is
  own,              \* p of send_packet
  front,            \* front_pack
  emitted,          \* how many packets each thread has emitted
  sent,             \* how often each packet was written to an open connection
  lost,             \* packets that went into a closed or deleted connection
  late,             \* stored, or about to be, on an m_connected read before it was set
  stale,            \* the thread got past m_connected before the last close()
  raced,            \* two threads were in one connection at once
  fault             \* "none", or why the program runs no more

ghosts == <<sent, lost, late, stale, raced>>
vars == <<m_connected, link, m_packet_queue, bufferOut, pc, own, front, emitted,
          ghosts, fault>>

Links == {"new", "open", "shut", "deleted"}
Steps == {"idle", "store", "take", "append", "write", "clear", "listener"}
Faults == {"none", "use_after_delete", "not_open", "corrupted"}

Init ==
  /\ m_connected = FALSE
  /\ link = "new"
  /\ m_packet_queue = <<>>
  /\ bufferOut = {}
  /\ pc = [t \in Threads |-> "idle"]
  /\ own = [t \in Threads |-> NoPacket]
  /\ front = [t \in Threads |-> NoPacket]
  /\ emitted = [t \in Threads |-> 0]
  /\ sent = [p \in Packets |-> 0]
  /\ lost = {}
  /\ late = {}
  /\ stale = [t \in Threads |-> FALSE]
  /\ raced = FALSE
  /\ fault = "none"

(***************************************************************************)
(* send_packet, on any thread.                                             *)
(***************************************************************************)
\* emit, as far as the test of m_connected.
Emit(t) ==
  /\ pc[t] \in {"idle", "listener"}
  /\ emitted[t] < Emits[t]
  /\ emitted' = [emitted EXCEPT ![t] = @ + 1]
  /\ own' = [own EXCEPT ![t] = <<t, emitted[t] + 1>>]
  /\ pc' = [pc EXCEPT ![t] = IF m_connected THEN "take" ELSE "store"]
  /\ UNCHANGED <<m_connected, link, m_packet_queue, bufferOut, front, ghosts, fault>>

Store(t) ==
  /\ pc[t] = "store"
  /\ m_packet_queue' = Append(m_packet_queue, own[t])
  /\ own' = [own EXCEPT ![t] = NoPacket]
  /\ pc' = [pc EXCEPT ![t] = "idle"]
  /\ UNCHANGED <<m_connected, link, bufferOut, front, emitted, ghosts, fault>>

TakeFront_Peeks(t) ==   \* mutant: the packet is not popped
  /\ pc[t] = "take"
  /\ m_packet_queue # <<>>
  /\ front' = [front EXCEPT ![t] = Head(m_packet_queue)]
  /\ late' = late \ {Head(m_packet_queue)}
  /\ pc' = [pc EXCEPT ![t] = "append"]
  /\ UNCHANGED <<m_connected, link, m_packet_queue, bufferOut, own, emitted, sent, lost,
                 stale, raced, fault>>

\* The stored packets go first.
TakeFront(t) ==
  /\ pc[t] = "take"
  /\ m_packet_queue # <<>>
  /\ front' = [front EXCEPT ![t] = Head(m_packet_queue)]
  /\ m_packet_queue' = Tail(m_packet_queue)
  /\ late' = late \ {Head(m_packet_queue)}
  /\ pc' = [pc EXCEPT ![t] = "append"]
  /\ UNCHANGED <<m_connected, link, bufferOut, own, emitted, sent, lost, stale, raced,
                 fault>>

\* The "connection" listener emits a packet, while the bound allows.
Listener == IF emitted[Loop] < Emits[Loop] THEN "listener" ELSE "idle"

TakeOwn_AtOnce(t) ==   \* mutant: p does not wait for what is stored
  /\ pc[t] = "take"
  /\ own[t] # NoPacket \/ m_packet_queue = <<>>
  /\ pc' = [pc EXCEPT ![t] = IF own[t] = NoPacket THEN Listener ELSE "append"]
  /\ UNCHANGED <<m_connected, link, m_packet_queue, bufferOut, own, front, emitted,
                 ghosts, fault>>

\* Then p; on_connected has none, and calls the "connection" listener.
TakeOwn(t) ==
  /\ pc[t] = "take"
  /\ m_packet_queue = <<>>
  /\ pc' = [pc EXCEPT ![t] = IF own[t] = NoPacket THEN Listener ELSE "append"]
  /\ UNCHANGED <<m_connected, link, m_packet_queue, bufferOut, own, front, emitted,
                 ghosts, fault>>

(***************************************************************************)
(* m_client->send.                                                         *)
(***************************************************************************)
InHand(t) == IF front[t] # NoPacket THEN front[t] ELSE own[t]

\* In the connection that is there now.
Inside(t) == pc[t] \in {"write", "clear"} /\ ~stale[t]

Enter(t) == raced' = (raced \/ \E u \in Threads \ {t} : Inside(u))

\* m_client dangles from close() to the next connect, and WebSocketConnection::send
\* asserts that the handshake is over.
AppendFails(t) ==
  /\ pc[t] = "append"
  /\ \/ link = "deleted" /\ fault' = "use_after_delete"
     \/ link = "new" /\ fault' = "not_open"
  /\ UNCHANGED <<m_connected, link, m_packet_queue, bufferOut, pc, own, front, emitted,
                 ghosts>>

AppendFrame(t) ==
  /\ pc[t] = "append"
  /\ link \in {"open", "shut"}
  /\ bufferOut' = bufferOut \union {InHand(t)}
  /\ pc' = [pc EXCEPT ![t] = "write"]
  /\ stale' = [stale EXCEPT ![t] = FALSE]
  /\ Enter(t)
  /\ UNCHANGED <<m_connected, link, m_packet_queue, own, front, emitted, sent, lost,
                 late, fault>>

\* A write to a closed handle returns -1 to nobody.
Write(t) ==
  /\ pc[t] = "write" /\ ~stale[t]
  /\ IF link = "open"
     THEN /\ sent' = [p \in Packets |-> IF p \in bufferOut THEN sent[p] + 1 ELSE sent[p]]
          /\ UNCHANGED lost
     ELSE /\ lost' = lost \union bufferOut
          /\ UNCHANGED sent
  /\ pc' = [pc EXCEPT ![t] = "clear"]
  /\ UNCHANGED <<m_connected, link, m_packet_queue, bufferOut, own, front, emitted,
                 late, stale, raced, fault>>

Clear_Ends(t) ==   \* mutant: p is forgotten behind the first stored packet
  /\ pc[t] = "clear" /\ ~stale[t]
  /\ bufferOut' = {}
  /\ front' = [front EXCEPT ![t] = NoPacket]
  /\ own' = [own EXCEPT ![t] = NoPacket]
  /\ pc' = [pc EXCEPT ![t] = "idle"]
  /\ UNCHANGED <<m_connected, link, m_packet_queue, emitted, ghosts, fault>>

Clear(t) ==
  /\ pc[t] = "clear" /\ ~stale[t]
  /\ bufferOut' = {}
  /\ \/ /\ front[t] # NoPacket
        /\ front' = [front EXCEPT ![t] = NoPacket]
        /\ pc' = [pc EXCEPT ![t] = "take"]
        /\ UNCHANGED own
     \/ /\ front[t] = NoPacket
        /\ own' = [own EXCEPT ![t] = NoPacket]
        /\ pc' = [pc EXCEPT ![t] = "idle"]
        /\ UNCHANGED front
  /\ UNCHANGED <<m_connected, link, m_packet_queue, emitted, ghosts, fault>>

SendOnDeleted(t) ==
  /\ pc[t] \in {"write", "clear"} /\ stale[t]
  /\ fault' = "use_after_delete"
  /\ UNCHANGED <<m_connected, link, m_packet_queue, bufferOut, pc, own, front, emitted,
                 ghosts>>

\* Two threads in the vector or in OpenSSL at once: it may also end worse.
Corrupt ==
  /\ \E t, u \in Threads : t # u /\ Inside(t) /\ Inside(u)
  /\ fault' = "corrupted"
  /\ UNCHANGED <<m_connected, link, m_packet_queue, bufferOut, pc, own, front, emitted,
                 ghosts>>

(***************************************************************************)
(* The loop.                                                               *)
(***************************************************************************)
OnConnected_Listener ==   \* mutant: nothing that is stored is sent
  /\ pc[Loop] = "idle"
  /\ link = "open" /\ ~m_connected
  /\ m_connected' = TRUE
  /\ pc' = [pc EXCEPT ![Loop] = Listener]
  /\ late' = {own[t] : t \in {u \in Threads : pc[u] = "store"}}
  /\ UNCHANGED <<link, m_packet_queue, bufferOut, own, front, emitted, sent, lost, stale,
                 raced, fault>>

\* on_connected sets m_connected, and then sends what is stored.
OnConnected ==
  /\ pc[Loop] = "idle"
  /\ link = "open" /\ ~m_connected
  /\ m_connected' = TRUE
  /\ pc' = [pc EXCEPT ![Loop] = "take"]
  /\ late' = {own[t] : t \in {u \in Threads : pc[u] = "store"}}
  /\ UNCHANGED <<link, m_packet_queue, bufferOut, own, front, emitted, sent, lost, stale,
                 raced, fault>>

\* Every read flushes what is in _bufferOut.
ReadAndFlush ==
  /\ pc[Loop] = "idle"
  /\ link = "open"
  /\ pc' = [pc EXCEPT ![Loop] = "write"]
  /\ Enter(Loop)
  /\ UNCHANGED <<m_connected, link, m_packet_queue, bufferOut, own, front, emitted, sent,
                 lost, late, stale, fault>>

\* End of file, a reset or a failed write.
Shut ==
  /\ pc[Loop] = "idle"
  /\ link = "open"
  /\ link' = "shut"
  /\ UNCHANGED <<m_connected, m_packet_queue, bufferOut, pc, own, front, emitted, ghosts,
                 fault>>

Close_KeepsConnected ==   \* mutant: on_disconnect is not called
  /\ pc[Loop] = "idle"
  /\ link \in {"open", "shut"}
  /\ link' = "deleted"
  /\ lost' = lost \union bufferOut
  /\ bufferOut' = {}
  /\ stale' = [t \in Threads |->
                 stale[t] \/ pc[t] \in {"take", "append", "write", "clear"}]
  /\ UNCHANGED <<m_connected, m_packet_queue, pc, own, front, emitted, sent, late, raced,
                 fault>>

\* close(): on_disconnect of the Socket, Close() and delete of m_client.
Close ==
  /\ pc[Loop] = "idle"
  /\ link \in {"open", "shut"}
  /\ m_connected' = FALSE
  /\ link' = "deleted"
  /\ lost' = lost \union bufferOut
  /\ bufferOut' = {}
  /\ stale' = [t \in Threads |->
                 stale[t] \/ pc[t] \in {"take", "append", "write", "clear"}]
  /\ UNCHANGED <<m_packet_queue, pc, own, front, emitted, sent, late, raced, fault>>

\* timeout_reconnect, and the end of the websocket handshake.
Reconnect ==
  /\ pc[Loop] = "idle"
  /\ link = "deleted"
  /\ link' = "new"
  /\ UNCHANGED <<m_connected, m_packet_queue, bufferOut, pc, own, front, emitted, ghosts,
                 fault>>

Opened ==
  /\ pc[Loop] = "idle"
  /\ link = "new"
  /\ link' = "open"
  /\ UNCHANGED <<m_connected, m_packet_queue, bufferOut, pc, own, front, emitted, ghosts,
                 fault>>

(***************************************************************************)
\* What a thread that has begun goes on with.
Step(t) ==
  \/ Store(t) \/ TakeFront(t) \/ TakeOwn(t)
  \/ AppendFails(t) \/ AppendFrame(t) \/ Write(t) \/ Clear(t) \/ SendOnDeleted(t)
  \/ pc[t] = "listener" /\ Emit(t)

LoopActs == OnConnected \/ ReadAndFlush \/ Shut \/ Close \/ Reconnect \/ Opened

Next ==
  /\ fault = "none"
  /\ \/ \E t \in Threads : Emit(t) \/ Step(t)
     \/ LoopActs
     \/ Corrupt

Spec == Init /\ [][Next]_vars

\* A thread that is in send_packet or on_connected goes on.
Fairness == \A t \in Threads : WF_vars(fault = "none" /\ Step(t))

FairSpec == Spec /\ Fairness

(***************************************************************************)
(* Properties.                                                             *)
(***************************************************************************)
\* Every variable has its type.
TypeOK ==
  /\ m_connected \in BOOLEAN
  /\ link \in Links
  /\ m_packet_queue \in Seq(Packets)
  /\ bufferOut \subseteq Packets
  /\ pc \in [Threads -> Steps]
  /\ own \in [Threads -> Packets \union {NoPacket}]
  /\ front \in [Threads -> Packets \union {NoPacket}]
  /\ emitted \in [Threads -> Nat]
  /\ sent \in [Packets -> Nat]
  /\ lost \subseteq Packets
  /\ late \subseteq Packets
  /\ stale \in [Threads -> BOOLEAN]
  /\ raced \in BOOLEAN
  /\ fault \in Faults

Stored == {m_packet_queue[i] : i \in 1..Len(m_packet_queue)}

\* The packets a thread has still to append or to store.
Waiting(t) ==
  {p \in {own[t]} : pc[t] \in {"store", "take", "append"} \/ front[t] # NoPacket}
    \union {p \in {front[t]} : pc[t] = "append"}

Given == {p \in Packets : p[2] <= emitted[p[1]]}

\* While the threads do not meet in the connection, a packet is sent at most once,
\* and never kept when it has been.
SentOnce ==
  ~raced =>
    \A p \in Packets :
      /\ sent[p] <= 1
      /\ sent[p] = 1 => p \notin Stored /\ \A t \in Threads : p \notin Waiting(t)

\* And none is forgotten: what was not sent is stored, with a thread, or went into
\* a connection that was already closed or was closed then.
NothingForgotten ==
  ~raced =>
    \A p \in Given :
      \/ sent[p] > 0
      \/ p \in Stored \union bufferOut \union lost
      \/ \E t \in Threads : p \in Waiting(t)

\* A thread's packet is overtaken by its next one only while some thread has it in
\* hand as front_pack, taken from the queue but not yet sent.
OvertakenInHand ==
  ~raced =>
    \A p, q \in Given :
      p[1] = q[1] /\ p[2] < q[2] /\ sent[q] > 0 /\ sent[p] = 0 /\ p \notin lost
        => \E t \in Threads : front[t] = p

Draining(t) == pc[t] = "take" \/ front[t] # NoPacket

\* While connected a packet stays in the queue with nobody sending it only if its
\* thread had read m_connected before on_connected set it.
StrandedOnlyLate ==
  m_connected /\ (\A t \in Threads : ~Draining(t)) => Stored \subseteq late

\* A thread comes upon a deleted m_client, or on one that is not open, only in a
\* send_packet that began before close(); the loop never does.
DanglingOnlyIfStale ==
  \A t \in Threads :
    pc[t] = "append" /\ link \in {"deleted", "new"}
      => stale[t] /\ t # Loop

\* While the connection stays up, what was given to emit is sent, unless it was
\* stored late or was lost with an earlier connection.
Steady == m_connected /\ link = "open" /\ ~raced /\ fault = "none"

Delivered ==
  <>[]Steady =>
    \A p \in Packets : p \in Given ~> sent[p] > 0 \/ p \in late \union lost
=============================================================================
