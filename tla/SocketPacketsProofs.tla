------------------------- MODULE SocketPacketsProofs -------------------------
(***************************************************************************)
(* Proofs about SocketPackets, for any threads and numbers of packets.     *)
(*                                                                         *)
(* The inductive invariant IInv has these parts: what a thread has in its  *)
(* variables at each step (Shape), that no packet is in two places         *)
(* (Distinct), who may come upon a deleted connection (Dangling), what is  *)
(* stored late (Late), and, while no two threads have met in a connection, *)
(* what is in _bufferOut (Buffered), what was sent (NotSentTwice) and that *)
(* nothing is missing (Known); a thread's packets stay in order while they *)
(* are stored (InOrder).                                                   *)
(***************************************************************************)
EXTENDS SocketPackets, TLAPS

OwnWaits(t) ==
  own[t] # NoPacket /\ (pc[t] \in {"store", "take", "append"} \/ front[t] # NoPacket)

Shape ==
  \A t \in Threads :
    /\ pc[t] = "store" => own[t] # NoPacket
    /\ pc[t] \in {"idle", "listener"} => own[t] = NoPacket
    /\ pc[t] \in {"idle", "listener", "store", "take"} => front[t] = NoPacket
    /\ pc[t] = "append" => InHand(t) # NoPacket
    /\ own[t] # NoPacket => own[t] = <<t, emitted[t]>>

Distinct ==
  /\ \A i, j \in 1..Len(m_packet_queue) : m_packet_queue[i] = m_packet_queue[j] => i = j
  /\ \A i \in 1..Len(m_packet_queue) : m_packet_queue[i] \in Given
  /\ \A t \in Threads :
       /\ own[t] # NoPacket =>
            \A i \in 1..Len(m_packet_queue) : m_packet_queue[i] # own[t]
       /\ front[t] # NoPacket =>
            /\ front[t] \in Given
            /\ \A i \in 1..Len(m_packet_queue) : m_packet_queue[i] # front[t]
            /\ \A u \in Threads : own[u] # front[t] /\ (u # t => front[u] # front[t])

Sending == {"take", "append", "write", "clear"}

Dangling ==
  /\ m_connected => link \in {"open", "shut"}
  /\ pc[Loop] \notin {"idle", "store"} => link \in {"open", "shut"}
  /\ \A t \in Threads : pc[t] \in Sending /\ link \in {"deleted", "new"} => stale[t]

Late ==
  m_connected =>
    /\ \A t \in Threads : pc[t] = "store" => own[t] \in late
    /\ \/ \E t \in Threads : Draining(t)
       \/ \A i \in 1..Len(m_packet_queue) : m_packet_queue[i] \in late

Buffered ==
  ~raced =>
    /\ \A t, u \in Threads : Inside(t) /\ Inside(u) => t = u
    /\ \A p \in bufferOut : \E t \in Threads : Inside(t) /\ InHand(t) = p
    /\ \A t \in Threads : Inside(t) /\ pc[t] = "clear" =>
         \A p \in bufferOut : sent[p] > 0 \/ p \in lost

NotSentTwice ==
  ~raced =>
    \A p \in Packets :
      /\ sent[p] <= 1
      /\ sent[p] > 0 =>
           /\ p \in Given
           /\ \A i \in 1..Len(m_packet_queue) : m_packet_queue[i] # p
           /\ \A t \in Threads :
                /\ OwnWaits(t) => own[t] # p
                /\ pc[t] \in {"append", "write"} => InHand(t) # p

Known ==
  ~raced =>
    \A p \in Given :
      \/ sent[p] > 0
      \/ p \in bufferOut \union lost
      \/ \E i \in 1..Len(m_packet_queue) : m_packet_queue[i] = p
      \/ \E t \in Threads : OwnWaits(t) /\ own[t] = p
      \/ \E t \in Threads : pc[t] = "append" /\ front[t] = p

InOrder ==
  \A i \in 1..Len(m_packet_queue) :
    \A q \in Given :
      q[1] = m_packet_queue[i][1] /\ q[2] > m_packet_queue[i][2] =>
        \/ \E j \in 1..Len(m_packet_queue) : j > i /\ m_packet_queue[j] = q
        \/ /\ own[q[1]] = q
           /\ pc[q[1]] \in {"store", "take"} \/ front[q[1]] # NoPacket

IInv ==
  /\ TypeOK /\ Shape /\ Distinct /\ Dangling /\ Late
  /\ Buffered /\ NotSentTwice /\ Known /\ InOrder

(***************************************************************************)
(* Packets and queues.                                                     *)
(***************************************************************************)
\* A packet is its thread and its number.
LEMMA PacketParts ==
  /\ \A t \in Threads : \A n \in 1..Emits[t] : <<t, n>> \in Packets
  /\ \A p \in Packets : p[1] \in Threads /\ p[2] \in 1..Emits[p[1]] /\ p = <<p[1], p[2]>>
  /\ \A t \in Threads : Emits[t] \in Nat
  /\ NoPacket \notin Packets
  /\ Loop \in Threads
BY PacketsAssumption DEF Packets, Threads

\* What Append and Tail do to the places of a queue.
LEMMA AppendPlaces ==
  ASSUME NEW q \in Seq(Packets), NEW p \in Packets
  PROVE  /\ Append(q, p) \in Seq(Packets)
         /\ Len(q) \in Nat /\ Len(Append(q, p)) = Len(q) + 1
         /\ \A i \in 1..Len(q) : Append(q, p)[i] = q[i]
         /\ Append(q, p)[Len(q) + 1] = p
OBVIOUS

LEMMA TailPlaces ==
  ASSUME NEW q \in Seq(Packets), q # <<>>
  PROVE  /\ Tail(q) \in Seq(Packets) /\ Head(q) \in Packets /\ Head(q) = q[1]
         /\ Len(q) \in Nat /\ Len(q) >= 1 /\ Len(Tail(q)) = Len(q) - 1
         /\ \A i \in 1..(Len(q) - 1) : Tail(q)[i] = q[i + 1]
OBVIOUS

\* What emit is given is a packet.
LEMMA NewPacket ==
  ASSUME TypeOK, NEW t \in Threads, Emit(t)
  PROVE  <<t, emitted[t] + 1>> \in Packets
<1>1. emitted[t] \in Nat /\ Emits[t] \in Nat /\ emitted[t] < Emits[t]
  BY PacketParts DEF TypeOK, Emit
<1>2. emitted[t] + 1 \in 1..Emits[t]
  BY <1>1
<1> QED
  BY <1>2, PacketParts

(***************************************************************************)
(* The types.                                                              *)
(***************************************************************************)
LEMMA TypeStep ==
  ASSUME TypeOK, Shape, Next
  PROVE  TypeOK'
<1> USE PacketParts
<1>1. ASSUME NEW t \in Threads, Emit(t)
      PROVE  TypeOK'
  <2>1. <<t, emitted[t] + 1>> \in Packets
    BY <1>1, NewPacket
  <2> QED
    BY <1>1, <2>1, SMTT(30) DEF TypeOK, Emit, Steps, ghosts
<1>2. ASSUME NEW t \in Threads, Store(t)
      PROVE  TypeOK'
  <2>1. own[t] \in Packets
    BY <1>2 DEF TypeOK, Store, Shape
  <2> QED
    BY <1>2, <2>1, AppendPlaces DEF TypeOK, Store, Steps, ghosts
<1>3. ASSUME NEW t \in Threads, TakeFront(t)
      PROVE  TypeOK'
  BY <1>3, TailPlaces DEF TypeOK, TakeFront, Steps
<1>4. ASSUME NEW t \in Threads, TakeOwn(t)
      PROVE  TypeOK'
  BY <1>4 DEF TypeOK, TakeOwn, Steps, Listener, ghosts
<1>5. ASSUME NEW t \in Threads, AppendFails(t) \/ SendOnDeleted(t) \/ Corrupt
      PROVE  TypeOK'
  BY <1>5 DEF TypeOK, AppendFails, SendOnDeleted, Corrupt, Faults, ghosts
<1>6. ASSUME NEW t \in Threads, AppendFrame(t)
      PROVE  TypeOK'
  <2>1. InHand(t) \in Packets
    BY <1>6 DEF TypeOK, AppendFrame, Shape, InHand
  <2>2. raced' \in BOOLEAN
    BY <1>6, Zenon DEF TypeOK, AppendFrame, Enter
  <2> QED
    BY <1>6, <2>1, <2>2 DEF TypeOK, AppendFrame, Steps
<1>7. ASSUME NEW t \in Threads, Write(t)
      PROVE  TypeOK'
  <2>1. sent' \in [Packets -> Nat] /\ lost' \subseteq Packets
    <3>1. CASE link = "open"
      <4>1. sent' = [p \in Packets |-> IF p \in bufferOut THEN sent[p] + 1 ELSE sent[p]]
            /\ lost' = lost
        BY <1>7, <3>1 DEF Write
      <4>2. \A p \in Packets : sent[p] \in Nat /\ sent[p] + 1 \in Nat
        BY DEF TypeOK
      <4> HIDE PacketParts
      <4> QED
        BY <4>1, <4>2 DEF TypeOK
    <3>2. CASE link # "open"
      BY <1>7, <3>2 DEF TypeOK, Write
    <3> QED
      BY <3>1, <3>2
  <2> QED
    BY <1>7, <2>1 DEF TypeOK, Write, Steps
<1>8. ASSUME NEW t \in Threads, Clear(t)
      PROVE  TypeOK'
  BY <1>8 DEF TypeOK, Clear, Steps, ghosts
<1>9. ASSUME OnConnected
      PROVE  TypeOK'
  <2>1. late' \subseteq Packets
    BY <1>9 DEF TypeOK, OnConnected, Shape
  <2> QED
    BY <1>9, <2>1 DEF TypeOK, OnConnected, Steps
<1>10. ASSUME ReadAndFlush
       PROVE  TypeOK'
  <2>2. raced' \in BOOLEAN
    BY <1>10, Zenon DEF TypeOK, ReadAndFlush, Enter
  <2> QED
    BY <1>10, <2>2 DEF TypeOK, ReadAndFlush, Steps
<1>11. ASSUME Close
       PROVE  TypeOK'
  <2>1. stale' \in [Threads -> BOOLEAN]
    BY <1>11, Zenon DEF TypeOK, Close
  <2> QED
    BY <1>11, <2>1 DEF TypeOK, Close, Links
<1>12. ASSUME Shut \/ Reconnect \/ Opened
       PROVE  TypeOK'
  BY <1>12 DEF TypeOK, Shut, Reconnect, Opened, Links, ghosts
<1> QED
  BY <1>1, <1>2, <1>3, <1>4, <1>5, <1>6, <1>7, <1>8, <1>9, <1>10, <1>11, <1>12
  DEF Next, Step, LoopActs

LEMMA ShapeStep ==
  ASSUME TypeOK, Shape, Next
  PROVE  Shape'
<1> USE PacketParts
<1>1. ASSUME NEW t \in Threads, Emit(t)
      PROVE  Shape'
  <2>1. <<t, emitted[t] + 1>> \in Packets
    BY <1>1, NewPacket
  <2> QED
    BY <1>1, <2>1 DEF TypeOK, Shape, Emit, InHand
<1>2. ASSUME NEW t \in Threads, Store(t)
      PROVE  Shape'
  BY <1>2 DEF TypeOK, Shape, Store, InHand
<1>3. ASSUME NEW t \in Threads, TakeFront(t)
      PROVE  Shape'
  BY <1>3, TailPlaces, SMTT(30) DEF TypeOK, Shape, TakeFront, InHand
<1>4. ASSUME NEW t \in Threads, TakeOwn(t)
      PROVE  Shape'
  BY <1>4 DEF TypeOK, Shape, TakeOwn, Listener, InHand
<1>5. ASSUME NEW t \in Threads, AppendFails(t) \/ SendOnDeleted(t) \/ Corrupt
      PROVE  Shape'
  BY <1>5 DEF Shape, AppendFails, SendOnDeleted, Corrupt, InHand
<1>6. ASSUME NEW t \in Threads, AppendFrame(t)
      PROVE  Shape'
  BY <1>6 DEF TypeOK, Shape, AppendFrame, InHand
<1>7. ASSUME NEW t \in Threads, Write(t)
      PROVE  Shape'
  BY <1>7 DEF TypeOK, Shape, Write, InHand
<1>8. ASSUME NEW t \in Threads, Clear(t)
      PROVE  Shape'
  <2>1. CASE front[t] # NoPacket /\ front' = [front EXCEPT ![t] = NoPacket]
             /\ pc' = [pc EXCEPT ![t] = "take"] /\ own' = own
    BY <1>8, <2>1, SMTT(30) DEF TypeOK, Shape, Clear, InHand
  <2>2. CASE front[t] = NoPacket /\ own' = [own EXCEPT ![t] = NoPacket]
             /\ pc' = [pc EXCEPT ![t] = "idle"] /\ front' = front
    BY <1>8, <2>2, SMTT(30) DEF TypeOK, Shape, Clear, InHand
  <2> QED
    BY <1>8, <2>1, <2>2, Zenon DEF Clear
<1>9. ASSUME OnConnected \/ ReadAndFlush
      PROVE  Shape'
  BY <1>9 DEF TypeOK, Shape, OnConnected, ReadAndFlush, InHand
<1>10. ASSUME Close \/ Shut \/ Reconnect \/ Opened
       PROVE  Shape'
  BY <1>10 DEF Shape, Close, Shut, Reconnect, Opened, InHand
<1> QED
  BY <1>1, <1>2, <1>3, <1>4, <1>5, <1>6, <1>7, <1>8, <1>9, <1>10
  DEF Next, Step, LoopActs

(***************************************************************************)
(* No packet is in two places.                                             *)
(***************************************************************************)
\* A thread's own packet is the last it was given.
LEMMA OwnPackets ==
  ASSUME TypeOK, Shape
  PROVE  /\ \A t \in Threads : own[t] # NoPacket =>
                own[t] \in Given /\ own[t] \in Packets /\ own[t][1] = t
         /\ \A t, u \in Threads : own[t] # NoPacket /\ own[t] = own[u] => t = u
<1>1. ASSUME NEW t \in Threads, own[t] # NoPacket
      PROVE  own[t] \in Given /\ own[t] \in Packets /\ own[t][1] = t
  <2>1. own[t] \in Packets /\ own[t] = <<t, emitted[t]>> /\ emitted[t] \in Nat
    BY <1>1 DEF TypeOK, Shape
  <2>2. own[t][1] = t /\ own[t][2] = emitted[t]
    BY <2>1
  <2> QED
    BY <2>1, <2>2 DEF Given
<1> QED
  BY <1>1

\* emit adds one packet to those given, and that packet is nowhere yet.
LEMMA EmitGiven ==
  ASSUME TypeOK, NEW t \in Threads, Emit(t)
  PROVE  /\ \A p \in Given : p \in Given'
         /\ \A p \in Given' : p \in Given \/ p = <<t, emitted[t] + 1>>
         /\ <<t, emitted[t] + 1>> \notin Given
         /\ \A p \in Given : p[1] = t => p[2] < emitted[t] + 1
<1>1. emitted[t] \in Nat /\ emitted' = [emitted EXCEPT ![t] = emitted[t] + 1]
  BY DEF TypeOK, Emit
<1>2. \A p \in Packets : p[1] \in Threads /\ p[2] \in Int /\ p = <<p[1], p[2]>>
  BY PacketParts
<1>3. \A u \in Threads : emitted[u] \in Nat
  BY DEF TypeOK
<1>4. \A u \in Threads : emitted'[u] = IF u = t THEN emitted[t] + 1 ELSE emitted[u]
  BY <1>1 DEF TypeOK
<1>5. ASSUME NEW p \in Given
      PROVE  p \in Given'
  BY <1>2, <1>3, <1>4 DEF Given
<1>6. ASSUME NEW p \in Given', p \notin Given
      PROVE  p = <<t, emitted[t] + 1>>
  <2>1. p \in Packets /\ p[2] <= emitted'[p[1]] /\ ~(p[2] <= emitted[p[1]])
    BY <1>6 DEF Given
  <2>2. p[1] = t /\ p[2] = emitted[t] + 1
    BY <2>1, <1>2, <1>3, <1>4
  <2> QED
    BY <2>1, <2>2, <1>2
<1>7. <<t, emitted[t] + 1>>[1] = t /\ <<t, emitted[t] + 1>>[2] = emitted[t] + 1
  OBVIOUS
<1>8. <<t, emitted[t] + 1>> \notin Given
  <2> SUFFICES ASSUME <<t, emitted[t] + 1>> \in Given PROVE FALSE
    OBVIOUS
  <2>1. emitted[t] + 1 <= emitted[t]
    BY <1>7 DEF Given
  <2> QED
    BY <2>1, <1>1
<1>9. \A p \in Given : p[1] = t => p[2] < emitted[t] + 1
  BY <1>2, <1>3 DEF Given
<1> QED
  BY <1>5, <1>6, <1>8, <1>9

LEMMA DistinctStep ==
  ASSUME TypeOK, Shape, Distinct, Next
  PROVE  Distinct'
<1>1. ASSUME NEW t \in Threads, Emit(t)
      PROVE  Distinct'
  <2> DEFINE new == <<t, emitted[t] + 1>>
  <2>1. new \in Packets /\ new # NoPacket /\ new \notin Given
    BY <1>1, NewPacket, PacketParts, EmitGiven
  <2>2. \A p \in Given : p \in Given'
    BY <1>1, EmitGiven
  <2>3. /\ m_packet_queue' = m_packet_queue /\ front' = front
        /\ \A u \in Threads : own'[u] = IF u = t THEN new ELSE own[u]
    BY <1>1 DEF Emit, TypeOK
  <2> HIDE DEF new
  <2> QED
    BY <2>1, <2>2, <2>3 DEF Distinct
<1>2. ASSUME NEW t \in Threads, Store(t)
      PROVE  Distinct'
  <2>1. own[t] # NoPacket /\ own[t] \in Packets /\ own[t] \in Given
    BY <1>2, OwnPackets DEF Store, Shape
  <2>2. \A u \in Threads : u # t => own[u] # own[t]
    BY <2>1, OwnPackets
  <2>3. /\ Len(m_packet_queue) \in Nat /\ Len(m_packet_queue') = Len(m_packet_queue) + 1
        /\ \A i \in 1..Len(m_packet_queue) : m_packet_queue'[i] = m_packet_queue[i]
        /\ m_packet_queue'[Len(m_packet_queue) + 1] = own[t]
    BY <1>2, <2>1, AppendPlaces DEF Store, TypeOK
  <2>4. \A i \in 1..Len(m_packet_queue') : i \in 1..Len(m_packet_queue) \/
                                            i = Len(m_packet_queue) + 1
    BY <2>3
  <2>5. /\ front' = front /\ Given' = Given
        /\ \A u \in Threads : own'[u] = IF u = t THEN NoPacket ELSE own[u]
    BY <1>2 DEF Store, TypeOK, Given
  <2>6. \A i, j \in 1..Len(m_packet_queue') : m_packet_queue'[i] = m_packet_queue'[j]
                                                => i = j
    BY <2>1, <2>3, <2>4 DEF Distinct
  <2>7. \A i \in 1..Len(m_packet_queue') : m_packet_queue'[i] \in Given'
    BY <2>1, <2>3, <2>4, <2>5 DEF Distinct
  <2>8. \A u \in Threads : own'[u] # NoPacket =>
          \A i \in 1..Len(m_packet_queue') : m_packet_queue'[i] # own'[u]
    BY <2>2, <2>3, <2>4, <2>5 DEF Distinct
  <2>9. \A u \in Threads : front'[u] # NoPacket =>
          /\ front'[u] \in Given'
          /\ \A i \in 1..Len(m_packet_queue') : m_packet_queue'[i] # front'[u]
          /\ \A v \in Threads : own'[v] # front'[u] /\ (v # u => front'[v] # front'[u])
    BY <2>1, <2>3, <2>4, <2>5 DEF Distinct
  <2> QED
    BY <2>6, <2>7, <2>8, <2>9 DEF Distinct
<1>3. ASSUME NEW t \in Threads, TakeFront(t)
      PROVE  Distinct'
  <2>1. /\ Len(m_packet_queue) \in Nat /\ Len(m_packet_queue) >= 1
        /\ Len(m_packet_queue') = Len(m_packet_queue) - 1
        /\ \A i \in 1..(Len(m_packet_queue) - 1) : m_packet_queue'[i] = m_packet_queue[i + 1]
        /\ m_packet_queue[1] \in Packets /\ m_packet_queue[1] # NoPacket
        /\ Head(m_packet_queue) = m_packet_queue[1]
    BY <1>3, TailPlaces, PacketParts, SMTT(30) DEF TakeFront, TypeOK
  <2>2. \A i \in 1..Len(m_packet_queue') :
          /\ i + 1 \in 1..Len(m_packet_queue) /\ i + 1 # 1
          /\ m_packet_queue'[i] = m_packet_queue[i + 1]
    BY <2>1
  <2>3. 1 \in 1..Len(m_packet_queue)
    BY <2>1
  <2>4. /\ own' = own /\ Given' = Given
        /\ \A u \in Threads : front'[u] = IF u = t THEN m_packet_queue[1] ELSE front[u]
    BY <1>3, <2>1 DEF TakeFront, TypeOK, Given
  <2>5. \A i, j \in 1..Len(m_packet_queue') : m_packet_queue'[i] = m_packet_queue'[j]
                                                => i = j
    <3> SUFFICES ASSUME NEW i \in 1..Len(m_packet_queue'), NEW j \in 1..Len(m_packet_queue'),
                        m_packet_queue'[i] = m_packet_queue'[j]
                 PROVE  i = j
      OBVIOUS
    <3>1. i + 1 = j + 1
      BY <2>2 DEF Distinct
    <3> QED
      BY <3>1
  <2>6. \A i \in 1..Len(m_packet_queue') :
          m_packet_queue'[i] \in Given' /\ m_packet_queue'[i] # m_packet_queue[1]
    BY <2>2, <2>3, <2>4 DEF Distinct
  <2>7. \A u \in Threads : own'[u] # NoPacket =>
          \A i \in 1..Len(m_packet_queue') : m_packet_queue'[i] # own'[u]
    BY <2>2, <2>4 DEF Distinct
  <2>8. \A u \in Threads : front'[u] # NoPacket =>
          /\ front'[u] \in Given'
          /\ \A i \in 1..Len(m_packet_queue') : m_packet_queue'[i] # front'[u]
          /\ \A v \in Threads : own'[v] # front'[u] /\ (v # u => front'[v] # front'[u])
    <3> SUFFICES ASSUME NEW u \in Threads, front'[u] # NoPacket
                 PROVE  /\ front'[u] \in Given'
                        /\ \A i \in 1..Len(m_packet_queue') : m_packet_queue'[i] # front'[u]
                        /\ \A v \in Threads : own'[v] # front'[u] /\ (v # u => front'[v] # front'[u])
      OBVIOUS
    <3>1. CASE u = t
      BY <3>1, <2>1, <2>3, <2>4, <2>6 DEF Distinct
    <3>2. CASE u # t
      BY <3>2, <2>2, <2>3, <2>4 DEF Distinct
    <3> QED
      BY <3>1, <3>2
  <2> QED
    BY <2>5, <2>6, <2>7, <2>8 DEF Distinct
<1>4. ASSUME NEW t \in Threads, Clear(t)
      PROVE  Distinct'
  <2>1. /\ m_packet_queue' = m_packet_queue /\ Given' = Given
        /\ \A u \in Threads : own'[u] \in {own[u], NoPacket}
        /\ \A u \in Threads : front'[u] \in {front[u], NoPacket}
    BY <1>4 DEF Clear, TypeOK, Given
  <2> QED
    BY <2>1 DEF Distinct
<1>5. ASSUME m_packet_queue' = m_packet_queue, own' = own, front' = front,
             emitted' = emitted
      PROVE  Distinct'
  BY <1>5 DEF Distinct, Given
<1> QED
  BY <1>1, <1>2, <1>3, <1>4, <1>5
  DEF Next, Step, LoopActs, TakeOwn, AppendFails, AppendFrame, Write, SendOnDeleted,
      Corrupt, OnConnected, ReadAndFlush, Shut, Close, Reconnect, Opened

(***************************************************************************)
(* Who comes upon a deleted connection, and what stays stored.             *)
(***************************************************************************)
LEMMA DanglingStep ==
  ASSUME TypeOK, Shape, Dangling, Next
  PROVE  Dangling'
<1> USE PacketParts
<1>1. ASSUME NEW t \in Threads, Emit(t)
      PROVE  Dangling'
  BY <1>1 DEF TypeOK, Dangling, Emit, Sending, ghosts
<1>2. ASSUME NEW t \in Threads, Store(t) \/ TakeFront(t)
      PROVE  Dangling'
  BY <1>2, SMTT(30) DEF TypeOK, Dangling, Store, TakeFront, Sending, ghosts
<1>3. ASSUME NEW t \in Threads, TakeOwn(t)
      PROVE  Dangling'
  BY <1>3 DEF TypeOK, Dangling, TakeOwn, Listener, Sending, ghosts
<1>4. ASSUME NEW t \in Threads, AppendFrame(t)
      PROVE  Dangling'
  BY <1>4 DEF TypeOK, Dangling, AppendFrame, Sending
<1>5. ASSUME NEW t \in Threads, Write(t)
      PROVE  Dangling'
  BY <1>5 DEF TypeOK, Dangling, Write, Sending
<1>6. ASSUME NEW t \in Threads, Clear(t)
      PROVE  Dangling'
  BY <1>6 DEF TypeOK, Dangling, Clear, Sending, ghosts
<1>7. ASSUME NEW t \in Threads, AppendFails(t) \/ SendOnDeleted(t) \/ Corrupt
      PROVE  Dangling'
  BY <1>7 DEF Dangling, AppendFails, SendOnDeleted, Corrupt, ghosts
<1>8. ASSUME OnConnected \/ ReadAndFlush
      PROVE  Dangling'
  BY <1>8 DEF TypeOK, Dangling, OnConnected, ReadAndFlush, Sending
<1>9. ASSUME Close
      PROVE  Dangling'
  <2>1. \A t \in Threads : stale'[t] = (stale[t] \/ pc[t] \in Sending)
    BY <1>9, Zenon DEF Close, Sending
  <2> QED
    BY <1>9, <2>1 DEF Dangling, Close
<1>10. ASSUME Shut \/ Reconnect \/ Opened
       PROVE  Dangling'
  BY <1>10 DEF Dangling, Shut, Reconnect, Opened, Sending, ghosts
<1> QED
  BY <1>1, <1>2, <1>3, <1>4, <1>5, <1>6, <1>7, <1>8, <1>9, <1>10
  DEF Next, Step, LoopActs

LEMMA LateStep ==
  ASSUME TypeOK, Shape, Distinct, Late, Next
  PROVE  Late'
<1> USE PacketParts
<1>1. ASSUME NEW t \in Threads, Emit(t)
      PROVE  Late'
  BY <1>1 DEF TypeOK, Late, Emit, Draining, ghosts
<1>2. ASSUME NEW t \in Threads, Store(t)
      PROVE  Late'
  <2> SUFFICES ASSUME m_connected'
               PROVE  /\ \A u \in Threads : pc'[u] = "store" => own'[u] \in late'
                      /\ \/ \E u \in Threads : Draining(u)'
                         \/ \A i \in 1..Len(m_packet_queue') : m_packet_queue'[i] \in late'
    BY DEF Late
  <2>1. /\ m_connected /\ late' = late /\ front' = front
        /\ \A u \in Threads : u # t => pc'[u] = pc[u] /\ own'[u] = own[u]
        /\ pc[t] = "store" /\ pc'[t] = "idle" /\ front[t] = NoPacket
    BY <1>2 DEF Store, TypeOK, Shape, ghosts
  <2>2. own[t] \in late /\ own[t] \in Packets
    BY <1>2, <2>1 DEF Late, Shape, TypeOK
  <2>3. \A u \in Threads : Draining(u) => Draining(u)'
    BY <2>1 DEF Draining
  <2>4. /\ Len(m_packet_queue) \in Nat /\ Len(m_packet_queue') = Len(m_packet_queue) + 1
        /\ \A i \in 1..Len(m_packet_queue) : m_packet_queue'[i] = m_packet_queue[i]
        /\ m_packet_queue'[Len(m_packet_queue) + 1] = own[t]
    BY <1>2, <2>2, AppendPlaces DEF Store, TypeOK
  <2>5. \A i \in 1..Len(m_packet_queue') : i \in 1..Len(m_packet_queue) \/
                                            i = Len(m_packet_queue) + 1
    BY <2>4
  <2> QED
    BY <2>1, <2>2, <2>3, <2>4, <2>5 DEF Late
<1>3. ASSUME NEW t \in Threads, TakeFront(t)
      PROVE  Late'
  <2>1. /\ Head(m_packet_queue) = m_packet_queue[1] /\ 1 \in 1..Len(m_packet_queue)
        /\ m_packet_queue[1] \in Packets
    BY <1>3, TailPlaces DEF TakeFront, TypeOK
  <2>2. front'[t] # NoPacket
    BY <1>3, <2>1 DEF TakeFront, TypeOK
  <2>3. \A u \in Threads : own[u] # NoPacket => own[u] # m_packet_queue[1]
    BY <2>1 DEF Distinct
  <2>4. \A u \in Threads : pc'[u] = "store" => pc[u] = "store" /\ own[u] # NoPacket
    BY <1>3 DEF TakeFront, TypeOK, Shape
  <2> QED
    BY <1>3, <2>1, <2>2, <2>3, <2>4 DEF Late, TakeFront, Draining
<1>4. ASSUME NEW t \in Threads, TakeOwn(t)
      PROVE  Late'
  BY <1>4 DEF TypeOK, Late, TakeOwn, Listener, ghosts
<1>5. ASSUME NEW t \in Threads, AppendFrame(t)
      PROVE  Late'
  BY <1>5 DEF TypeOK, Late, AppendFrame, Draining
<1>6. ASSUME NEW t \in Threads, Write(t)
      PROVE  Late'
  BY <1>6 DEF TypeOK, Late, Write, Draining
<1>7. ASSUME NEW t \in Threads, Clear(t)
      PROVE  Late'
  BY <1>7 DEF TypeOK, Late, Clear, Draining, ghosts
<1>8. ASSUME OnConnected
      PROVE  Late'
  <2>1. \A u \in Threads : pc'[u] = "store" => own'[u] \in late'
    BY <1>8 DEF OnConnected, TypeOK
  <2>2. Draining(Loop)'
    BY <1>8 DEF OnConnected, TypeOK, Draining
  <2> QED
    BY <2>1, <2>2 DEF Late
<1>9. ASSUME ReadAndFlush
      PROVE  Late'
  BY <1>9 DEF TypeOK, Late, ReadAndFlush, Draining
<1>10. ASSUME NEW t \in Threads,
              AppendFails(t) \/ SendOnDeleted(t) \/ Corrupt \/ Shut \/ Reconnect \/ Opened
       PROVE  Late'
  BY <1>10 DEF Late, Draining, AppendFails, SendOnDeleted, Corrupt, Shut, Reconnect, Opened,
               ghosts
<1>11. ASSUME Close
       PROVE  Late'
  BY <1>11 DEF Late, Close
<1> QED
  BY <1>1, <1>2, <1>3, <1>4, <1>5, <1>6, <1>7, <1>8, <1>9, <1>10, <1>11
  DEF Next, Step, LoopActs

(***************************************************************************)
(* What is in _bufferOut, while no two threads have met.                   *)
(***************************************************************************)
\* Threads that have met in a connection have met for good.
LEMMA RacedStays ==
  ASSUME TypeOK, Next, ~raced'
  PROVE  ~raced
<1>1. raced' = raced \/ \E t \in Threads : Enter(t)
  BY PacketParts, Zenon
  DEF Next, Step, LoopActs, Emit, Store, TakeFront, TakeOwn, AppendFails, AppendFrame, Write,
      Clear, SendOnDeleted, Corrupt, OnConnected, ReadAndFlush, Shut, Close, Reconnect,
      Opened, ghosts
<1> QED
  BY <1>1 DEF Enter

LEMMA BufferedStep ==
  ASSUME TypeOK, Shape, Buffered, Next
  PROVE  Buffered'
<1> SUFFICES ASSUME ~raced'
             PROVE  /\ \A t, u \in Threads : Inside(t)' /\ Inside(u)' => t = u
                    /\ \A p \in bufferOut' : \E t \in Threads : Inside(t)' /\ InHand(t)' = p
                    /\ \A t \in Threads : Inside(t)' /\ pc'[t] = "clear" =>
                         \A p \in bufferOut' : sent'[p] > 0 \/ p \in lost'
  BY DEF Buffered
<1> USE PacketParts
<1>0. /\ \A t, u \in Threads : Inside(t) /\ Inside(u) => t = u
      /\ \A p \in bufferOut : \E t \in Threads : Inside(t) /\ InHand(t) = p
      /\ \A t \in Threads : Inside(t) /\ pc[t] = "clear" =>
           \A p \in bufferOut : sent[p] > 0 \/ p \in lost
  BY RacedStays DEF Buffered
<1>1. ASSUME NEW t \in Threads, Emit(t) \/ Store(t) \/ TakeFront(t) \/ TakeOwn(t)
      PROVE  Buffered'
  <2>1. /\ \A u \in Threads : u # t => /\ pc'[u] = pc[u]
                                       /\ own'[u] = own[u] /\ front'[u] = front[u]
        /\ bufferOut' = bufferOut /\ sent' = sent /\ lost' = lost /\ stale' = stale
    BY <1>1 DEF TypeOK, Emit, Store, TakeFront, TakeOwn, ghosts
  <2>2. ~Inside(t) /\ ~Inside(t)'
    BY <1>1, SMTT(30) DEF TypeOK, Inside, Emit, Store, TakeFront, TakeOwn, Listener
  <2>3. \A u \in Threads : /\ Inside(u)' <=> Inside(u)
                           /\ Inside(u) => InHand(u)' = InHand(u) /\ pc'[u] = pc[u]
    BY <2>1, <2>2 DEF Inside, InHand
  <2> QED
    BY <1>0, <2>1, <2>3 DEF Buffered
<1>2. ASSUME NEW t \in Threads, AppendFrame(t)
      PROVE  Buffered'
  <2>1. \A u \in Threads : ~Inside(u)
    BY <1>2 DEF AppendFrame, Enter, Inside
  <2>2. bufferOut' = {InHand(t)}
    BY <1>0, <1>2, <2>1 DEF AppendFrame
  <2>3. /\ \A u \in Threads : u # t => ~Inside(u)'
        /\ Inside(t)' /\ pc'[t] = "write" /\ InHand(t)' = InHand(t)
    BY <1>2, <2>1 DEF TypeOK, AppendFrame, Inside, InHand
  <2> QED
    BY <2>2, <2>3 DEF Buffered
<1>3. ASSUME NEW t \in Threads, Write(t)
      PROVE  Buffered'
  <2>1. /\ \A u \in Threads : Inside(u)' <=> Inside(u)
        /\ \A u \in Threads : InHand(u)' = InHand(u)
        /\ Inside(t) /\ bufferOut' = bufferOut
    BY <1>3 DEF TypeOK, Write, Inside, InHand
  <2>2. \A p \in bufferOut : sent'[p] > 0 \/ p \in lost'
    <3>1. CASE link = "open"
      <4>1. \A p \in bufferOut : p \in Packets /\ sent[p] \in Nat
        BY DEF TypeOK
      <4>2. \A p \in bufferOut : sent'[p] = sent[p] + 1
        BY <1>3, <3>1, <4>1 DEF Write
      <4> QED
        BY <4>1, <4>2
    <3>2. CASE link # "open"
      BY <1>3, <3>2 DEF Write
    <3> QED
      BY <3>1, <3>2
  <2> QED
    BY <1>0, <2>1, <2>2 DEF Buffered
<1>4. ASSUME NEW t \in Threads, Clear(t)
      PROVE  Buffered'
  <2>1. \A u \in Threads : Inside(u)' => Inside(u)
    BY <1>4 DEF TypeOK, Clear, Inside, ghosts
  <2>2. bufferOut' = {}
    BY <1>4 DEF Clear
  <2> QED
    BY <1>0, <2>1, <2>2 DEF Buffered
<1>5. ASSUME OnConnected
      PROVE  Buffered'
  <2>1. \A u \in Threads : /\ Inside(u)' <=> Inside(u)
                           /\ Inside(u) => InHand(u)' = InHand(u) /\ pc'[u] = pc[u]
    BY <1>5 DEF TypeOK, OnConnected, Inside, InHand
  <2>2. bufferOut' = bufferOut /\ sent' = sent /\ lost' = lost
    BY <1>5 DEF OnConnected
  <2> QED
    BY <1>0, <2>1, <2>2 DEF Buffered
<1>6. ASSUME ReadAndFlush
      PROVE  Buffered'
  <2>1. \A u \in Threads : ~Inside(u)
    BY <1>6 DEF ReadAndFlush, Enter, Inside
  <2>2. bufferOut' = {}
    BY <1>0, <1>6, <2>1 DEF ReadAndFlush
  <2>3. \A u \in Threads : u # Loop => ~Inside(u)'
    BY <1>6, <2>1 DEF TypeOK, ReadAndFlush, Inside
  <2> QED
    BY <2>2, <2>3 DEF Buffered
<1>7. ASSUME Close
      PROVE  Buffered'
  <2>1. \A u \in Threads : ~Inside(u)'
    BY <1>7 DEF Close, Inside
  <2>2. bufferOut' = {}
    BY <1>7 DEF Close
  <2> QED
    BY <2>1, <2>2 DEF Buffered
<1>8. ASSUME NEW t \in Threads,
             AppendFails(t) \/ SendOnDeleted(t) \/ Corrupt \/ Shut \/ Reconnect \/ Opened
      PROVE  Buffered'
  <2>1. UNCHANGED <<pc, own, front, bufferOut, sent, lost, stale>>
    BY <1>8 DEF AppendFails, SendOnDeleted, Corrupt, Shut, Reconnect, Opened, ghosts
  <2> QED
    BY <1>0, <2>1 DEF Buffered, Inside, InHand
<1>9. Buffered'
  BY <1>1, <1>2, <1>3, <1>4, <1>5, <1>6, <1>7, <1>8 DEF Next, Step, LoopActs
<1> QED
  BY <1>9 DEF Buffered

(***************************************************************************)
(* What was sent.                                                          *)
(***************************************************************************)
LEMMA NotSentTwiceStep ==
  ASSUME TypeOK, Shape, Distinct, Buffered, NotSentTwice, Next
  PROVE  NotSentTwice'
<1> SUFFICES ASSUME ~raced'
             PROVE  NotSentTwice'
  BY DEF NotSentTwice
<1> USE PacketParts
<1>0. /\ ~raced
      /\ \A p \in Packets : sent[p] \in Nat /\ sent[p] <= 1
      /\ \A p \in Packets : sent[p] > 0 =>
           /\ p \in Given
           /\ \A i \in 1..Len(m_packet_queue) : m_packet_queue[i] # p
           /\ \A t \in Threads :
                /\ OwnWaits(t) => own[t] # p
                /\ pc[t] \in {"append", "write"} => InHand(t) # p
  BY RacedStays DEF NotSentTwice, TypeOK
<1>1. ASSUME NEW t \in Threads, Emit(t)
      PROVE  NotSentTwice'
  <2> DEFINE new == <<t, emitted[t] + 1>>
  <2>1. /\ \A p \in Given : p \in Given' /\ p # new
    BY <1>1, EmitGiven
  <2>2. /\ m_packet_queue' = m_packet_queue /\ front' = front /\ sent' = sent
        /\ \A u \in Threads : own'[u] = IF u = t THEN new ELSE own[u]
        /\ \A u \in Threads : u # t => pc'[u] = pc[u]
        /\ pc'[t] \in {"take", "store"}
    BY <1>1 DEF Emit, TypeOK, ghosts
  <2> HIDE DEF new
  <2> QED
    BY <1>0, <2>1, <2>2 DEF NotSentTwice, OwnWaits, InHand
<1>2. ASSUME NEW t \in Threads, Store(t)
      PROVE  NotSentTwice'
  <2>1. OwnWaits(t) /\ own[t] \in Packets
    BY <1>2 DEF Store, Shape, OwnWaits, TypeOK
  <2>2. /\ \A u \in Threads : u # t => pc'[u] = pc[u] /\ own'[u] = own[u]
        /\ pc'[t] = "idle" /\ own'[t] = NoPacket
        /\ front' = front /\ sent' = sent /\ Given' = Given
    BY <1>2 DEF Store, TypeOK, Given, ghosts
  <2>3. /\ Len(m_packet_queue) \in Nat /\ Len(m_packet_queue') = Len(m_packet_queue) + 1
        /\ \A i \in 1..Len(m_packet_queue) : m_packet_queue'[i] = m_packet_queue[i]
        /\ m_packet_queue'[Len(m_packet_queue) + 1] = own[t]
    BY <1>2, <2>1, AppendPlaces DEF Store, TypeOK
  <2>4. \A i \in 1..Len(m_packet_queue') : i \in 1..Len(m_packet_queue) \/
                                            i = Len(m_packet_queue) + 1
    BY <2>3
  <2> QED
    BY <1>0, <2>1, <2>2, <2>3, <2>4, SMTT(30) DEF NotSentTwice, OwnWaits, InHand
<1>3. ASSUME NEW t \in Threads, TakeFront(t)
      PROVE  NotSentTwice'
  <2>1. /\ Len(m_packet_queue) \in Nat /\ Len(m_packet_queue) >= 1
        /\ Len(m_packet_queue') = Len(m_packet_queue) - 1
        /\ \A i \in 1..(Len(m_packet_queue) - 1) : m_packet_queue'[i] = m_packet_queue[i + 1]
        /\ m_packet_queue[1] \in Packets
        /\ Head(m_packet_queue) = m_packet_queue[1]
    BY <1>3, TailPlaces DEF TakeFront, TypeOK
  <2>2. /\ 1 \in 1..Len(m_packet_queue)
        /\ \A i \in 1..Len(m_packet_queue') :
             i + 1 \in 1..Len(m_packet_queue) /\ m_packet_queue'[i] = m_packet_queue[i + 1]
    BY <2>1
  <2>3. /\ \A u \in Threads : u # t => pc'[u] = pc[u] /\ front'[u] = front[u]
        /\ pc[t] = "take" /\ pc'[t] = "append" /\ front'[t] = m_packet_queue[1]
        /\ own' = own /\ sent' = sent /\ Given' = Given
    BY <1>3, <2>1 DEF TakeFront, TypeOK, Given
  <2> QED
    BY <1>0, <2>1, <2>2, <2>3, SMTT(30) DEF NotSentTwice, OwnWaits, InHand
<1>4. ASSUME NEW t \in Threads, TakeOwn(t)
      PROVE  NotSentTwice'
  <2>1. /\ \A u \in Threads : u # t => pc'[u] = pc[u]
        /\ pc[t] = "take" /\ front[t] = NoPacket
        /\ pc'[t] = "append" => own[t] # NoPacket
        /\ pc'[t] \in {"append", "idle", "listener"}
        /\ UNCHANGED <<own, front, sent, m_packet_queue>> /\ Given' = Given
    BY <1>4 DEF TakeOwn, Listener, Shape, TypeOK, Given, ghosts
  <2> QED
    BY <1>0, <2>1 DEF NotSentTwice, OwnWaits, InHand
<1>5. ASSUME NEW t \in Threads, AppendFrame(t)
      PROVE  NotSentTwice'
  <2>1. /\ \A u \in Threads : u # t => pc'[u] = pc[u]
        /\ pc[t] = "append" /\ pc'[t] = "write"
        /\ UNCHANGED <<own, front, sent, m_packet_queue>> /\ Given' = Given
    BY <1>5 DEF AppendFrame, TypeOK, Given
  <2> QED
    BY <1>0, <2>1 DEF NotSentTwice, OwnWaits, InHand
<1>6. ASSUME NEW t \in Threads, Write(t)
      PROVE  NotSentTwice'
  <2>1. /\ \A u \in Threads : u # t => pc'[u] = pc[u]
        /\ pc[t] = "write" /\ pc'[t] = "clear"
        /\ UNCHANGED <<own, front, m_packet_queue>> /\ Given' = Given
    BY <1>6 DEF Write, TypeOK, Given
  <2>2. \A p \in Packets : p \notin bufferOut \/ link # "open" => sent'[p] = sent[p]
    BY <1>6 DEF Write, TypeOK
  <2>3. \A p \in bufferOut : /\ p \in Packets /\ InHand(t) = p
                             /\ sent[p] = 0 /\ sent'[p] \in {0, 1}
    <3>1. \A p \in bufferOut : p \in Packets
      BY DEF TypeOK
    <3>2. \A p \in bufferOut : InHand(t) = p
      BY <1>0, <1>6 DEF Buffered, Write, Inside
    <3>3. \A p \in bufferOut : sent[p] = 0
      BY <1>0, <2>1, <3>1, <3>2
    <3>4. \A p \in bufferOut : link = "open" => sent'[p] = sent[p] + 1
      BY <1>6, <3>1 DEF Write
    <3> QED
      BY <2>2, <3>1, <3>2, <3>3, <3>4
  <2>4. ASSUME NEW p \in bufferOut
        PROVE  /\ p \in Given
               /\ \A i \in 1..Len(m_packet_queue) : m_packet_queue[i] # p
               /\ \A u \in Threads :
                    /\ OwnWaits(u)' => own[u] # p
                    /\ u # t => InHand(u) # p
    <3>1. CASE front[t] # NoPacket
      <4>1. p = front[t]
        BY <2>3, <3>1 DEF InHand
      <4> QED
        BY <2>3, <3>1, <4>1 DEF Distinct, InHand
    <3>2. CASE front[t] = NoPacket
      <4>1. p = own[t] /\ own[t] # NoPacket
        BY <2>3, <3>2 DEF InHand
      <4>2. p \in Given /\ \A i \in 1..Len(m_packet_queue) : m_packet_queue[i] # p
        BY <4>1, OwnPackets DEF Distinct
      <4>3. ~OwnWaits(t)'
        BY <2>1, <3>2 DEF OwnWaits
      <4>4. \A u \in Threads : u # t => own[u] # p /\ InHand(u) # p
        BY <4>1, OwnPackets DEF Distinct, InHand
      <4> QED
        BY <4>2, <4>3, <4>4
    <3> QED
      BY <3>1, <3>2
  <2>5. ASSUME NEW p \in Packets
        PROVE  /\ sent'[p] <= 1
               /\ sent'[p] > 0 =>
                    /\ p \in Given'
                    /\ \A i \in 1..Len(m_packet_queue') : m_packet_queue'[i] # p
                    /\ \A u \in Threads :
                         /\ OwnWaits(u)' => own'[u] # p
                         /\ pc'[u] \in {"append", "write"} => InHand(u)' # p
    <3>1. CASE p \in bufferOut
      BY <2>1, <2>3, <2>4, <3>1 DEF InHand
    <3>2. CASE p \notin bufferOut
      BY <1>0, <2>1, <2>2, <3>2 DEF InHand, OwnWaits
    <3> QED
      BY <3>1, <3>2
  <2> QED
    BY <2>5 DEF NotSentTwice
<1>7. ASSUME NEW t \in Threads, Clear(t)
      PROVE  NotSentTwice'
  <2>1. /\ \A u \in Threads : u # t => /\ pc'[u] = pc[u] /\ front'[u] = front[u]
                                       /\ own'[u] = own[u]
        /\ \/ front[t] # NoPacket /\ pc'[t] = "take" /\ own'[t] = own[t]
           \/ own'[t] = NoPacket /\ pc'[t] = "idle"
        /\ UNCHANGED <<sent, m_packet_queue>> /\ Given' = Given
    BY <1>7 DEF Clear, TypeOK, Given, ghosts
  <2> QED
    BY <1>0, <2>1, SMTT(30) DEF NotSentTwice, OwnWaits, InHand
<1>8. ASSUME OnConnected \/ ReadAndFlush
      PROVE  NotSentTwice'
  <2>1. /\ \A u \in Threads : u # Loop => pc'[u] = pc[u]
        /\ own[Loop] = NoPacket /\ front[Loop] = NoPacket
        /\ UNCHANGED <<own, front, sent, m_packet_queue>> /\ Given' = Given
    BY <1>8 DEF OnConnected, ReadAndFlush, Shape, TypeOK, Given
  <2> QED
    BY <1>0, <2>1 DEF NotSentTwice, OwnWaits, InHand
<1>9. ASSUME UNCHANGED <<pc, own, front, sent, m_packet_queue, emitted>>
      PROVE  NotSentTwice'
  BY <1>0, <1>9 DEF NotSentTwice, OwnWaits, InHand, Given
<1> QED
  BY <1>1, <1>2, <1>3, <1>4, <1>5, <1>6, <1>7, <1>8, <1>9
  DEF Next, Step, LoopActs, AppendFails, SendOnDeleted, Corrupt, Shut, Close, Reconnect,
      Opened, ghosts

(***************************************************************************)
(* Where the others are.                                                   *)
(***************************************************************************)
LEMMA KnownStep ==
  ASSUME TypeOK, Shape, Buffered, Known, Next
  PROVE  Known'
<1> SUFFICES ASSUME ~raced'
             PROVE  Known'
  BY DEF Known
<1> USE PacketParts
<1> DEFINE Kept(p) ==
      \/ sent[p] > 0
      \/ p \in bufferOut \union lost
      \/ \E i \in 1..Len(m_packet_queue) : m_packet_queue[i] = p
      \/ \E t \in Threads : OwnWaits(t) /\ own[t] = p
      \/ \E t \in Threads : pc[t] = "append" /\ front[t] = p
<1>0. ~raced /\ \A p \in Given : p \in Packets /\ Kept(p)
  BY RacedStays DEF Known, Given
<1>1. ASSUME NEW t \in Threads, Emit(t)
      PROVE  Known'
  <2> DEFINE new == <<t, emitted[t] + 1>>
  <2>1. /\ \A p \in Given' : p \in Given \/ p = new
        /\ new # NoPacket
    BY <1>1, EmitGiven, NewPacket, ZenonT(40)
  <2>2. /\ UNCHANGED <<m_packet_queue, front, sent, bufferOut, lost>>
        /\ \A u \in Threads : own'[u] = IF u = t THEN new ELSE own[u]
        /\ \A u \in Threads : u # t => pc'[u] = pc[u]
        /\ pc'[t] \in {"take", "store"} /\ pc[t] # "append" /\ own[t] = NoPacket
    BY <1>1 DEF Emit, TypeOK, Shape, ghosts
  <2> HIDE DEF new
  <2>3. OwnWaits(t)' /\ own'[t] = new
    BY <2>1, <2>2 DEF OwnWaits
  <2>4. \A p \in Given : Kept(p)'
    BY <1>0, <2>2 DEF OwnWaits
  <2> QED
    BY <2>1, <2>3, <2>4 DEF Known
<1>2. ASSUME NEW t \in Threads, Store(t)
      PROVE  Known'
  <2>1. own[t] \in Packets
    BY <1>2 DEF Store, Shape, TypeOK
  <2>2. /\ \A u \in Threads : u # t => pc'[u] = pc[u] /\ own'[u] = own[u]
        /\ pc[t] = "store"
        /\ UNCHANGED <<front, sent, bufferOut, lost>> /\ Given' = Given
    BY <1>2 DEF Store, TypeOK, Given, ghosts
  <2>3. /\ Len(m_packet_queue) \in Nat /\ Len(m_packet_queue') = Len(m_packet_queue) + 1
        /\ \A i \in 1..Len(m_packet_queue) : m_packet_queue'[i] = m_packet_queue[i]
        /\ m_packet_queue'[Len(m_packet_queue) + 1] = own[t]
    BY <1>2, <2>1, AppendPlaces DEF Store, TypeOK
  <2>4. /\ \A i \in 1..Len(m_packet_queue) : i \in 1..Len(m_packet_queue')
        /\ Len(m_packet_queue) + 1 \in 1..Len(m_packet_queue')
    BY <2>3
  <2> QED
    BY <1>0, <2>1, <2>2, <2>3, <2>4, SMTT(30) DEF Known, OwnWaits
<1>3. ASSUME NEW t \in Threads, TakeFront(t)
      PROVE  Known'
  <2>1. /\ Len(m_packet_queue) \in Nat /\ Len(m_packet_queue) >= 1
        /\ Len(m_packet_queue') = Len(m_packet_queue) - 1
        /\ \A i \in 1..(Len(m_packet_queue) - 1) : m_packet_queue'[i] = m_packet_queue[i + 1]
        /\ m_packet_queue[1] \in Packets
        /\ Head(m_packet_queue) = m_packet_queue[1]
    BY <1>3, TailPlaces DEF TakeFront, TypeOK
  <2>2. \A i \in 1..Len(m_packet_queue) :
          i = 1 \/ /\ i - 1 \in 1..Len(m_packet_queue')
                   /\ m_packet_queue'[i - 1] = m_packet_queue[i]
    <3> SUFFICES ASSUME NEW i \in 1..Len(m_packet_queue), i # 1
                 PROVE  /\ i - 1 \in 1..Len(m_packet_queue')
                        /\ m_packet_queue'[i - 1] = m_packet_queue[i]
      OBVIOUS
    <3>1. i - 1 \in 1..(Len(m_packet_queue) - 1) /\ (i - 1) + 1 = i
      BY <2>1
    <3> QED
      BY <2>1, <3>1
  <2>3. /\ \A u \in Threads : u # t => pc'[u] = pc[u] /\ front'[u] = front[u]
        /\ pc[t] = "take" /\ pc'[t] = "append" /\ front'[t] = m_packet_queue[1]
        /\ UNCHANGED <<own, sent, bufferOut, lost>> /\ Given' = Given
    BY <1>3, <2>1 DEF TakeFront, TypeOK, Given
  <2>4. ASSUME NEW p \in Given, NEW i \in 1..Len(m_packet_queue), m_packet_queue[i] = p
        PROVE  \/ \E k \in 1..Len(m_packet_queue') : m_packet_queue'[k] = p
               \/ pc'[t] = "append" /\ front'[t] = p
    BY <2>2, <2>3, <2>4
  <2>5. \A u \in Threads : OwnWaits(u) => OwnWaits(u)' /\ own'[u] = own[u]
    BY <2>3 DEF OwnWaits
  <2>6. \A u \in Threads : pc[u] = "append" => pc'[u] = "append" /\ front'[u] = front[u]
    BY <2>3
  <2>7. \A p \in Given : Kept(p)'
    BY <1>0, <2>3, <2>4, <2>5, <2>6
  <2> QED
    BY <2>3, <2>7 DEF Known
<1>4. ASSUME NEW t \in Threads, TakeOwn(t)
      PROVE  Known'
  <2>1. /\ \A u \in Threads : u # t => pc'[u] = pc[u]
        /\ pc[t] = "take"
        /\ own[t] # NoPacket => pc'[t] = "append"
        /\ UNCHANGED <<own, front, sent, bufferOut, lost, m_packet_queue>> /\ Given' = Given
    BY <1>4 DEF TakeOwn, TypeOK, Given, ghosts
  <2> QED
    BY <1>0, <2>1 DEF Known, OwnWaits
<1>5. ASSUME NEW t \in Threads, AppendFrame(t)
      PROVE  Known'
  <2>1. /\ \A u \in Threads : u # t => pc'[u] = pc[u]
        /\ pc[t] = "append"
        /\ bufferOut' = bufferOut \union {InHand(t)}
        /\ UNCHANGED <<own, front, sent, lost, m_packet_queue>> /\ Given' = Given
    BY <1>5 DEF AppendFrame, TypeOK, Given
  <2> QED
    BY <1>0, <2>1 DEF Known, OwnWaits, InHand
<1>6. ASSUME NEW t \in Threads, Write(t)
      PROVE  Known'
  <2>1. /\ \A u \in Threads : u # t => pc'[u] = pc[u]
        /\ pc[t] = "write"
        /\ UNCHANGED <<own, front, bufferOut, m_packet_queue>> /\ Given' = Given
        /\ \A p \in lost : p \in lost'
    BY <1>6 DEF Write, TypeOK, Given
  <2>2. \A p \in Packets : sent[p] > 0 => sent'[p] > 0
    <3>1. CASE link = "open"
      <4>1. \A p \in Packets : sent'[p] \in {sent[p], sent[p] + 1} /\ sent[p] \in Nat
        BY <1>6, <3>1 DEF Write, TypeOK
      <4> QED
        BY <4>1
    <3>2. CASE link # "open"
      BY <1>6, <3>2 DEF Write
    <3> QED
      BY <3>1, <3>2
  <2> QED
    BY <1>0, <2>1, <2>2 DEF Known, OwnWaits
<1>7. ASSUME NEW t \in Threads, Clear(t)
      PROVE  Known'
  <2>1. /\ \A u \in Threads : u # t => /\ pc'[u] = pc[u] /\ front'[u] = front[u]
                                       /\ own'[u] = own[u]
        /\ pc[t] = "clear"
        /\ front[t] # NoPacket => pc'[t] = "take" /\ own'[t] = own[t]
        /\ UNCHANGED <<sent, lost, m_packet_queue>> /\ Given' = Given
    BY <1>7 DEF Clear, TypeOK, Given, ghosts
  <2>2. \A p \in bufferOut : sent[p] > 0 \/ p \in lost
    BY <1>0, <1>7 DEF Buffered, Clear, Inside
  <2> QED
    BY <1>0, <2>1, <2>2, SMTT(30) DEF Known, OwnWaits
<1>8. ASSUME OnConnected \/ ReadAndFlush
      PROVE  Known'
  <2>1. /\ \A u \in Threads : u # Loop => pc'[u] = pc[u]
        /\ own[Loop] = NoPacket /\ front[Loop] = NoPacket
        /\ UNCHANGED <<own, front, sent, bufferOut, lost, m_packet_queue>> /\ Given' = Given
    BY <1>8 DEF OnConnected, ReadAndFlush, Shape, TypeOK, Given
  <2> QED
    BY <1>0, <2>1 DEF Known, OwnWaits
<1>9. ASSUME Close
      PROVE  Known'
  BY <1>0, <1>9 DEF Known, OwnWaits, Given, Close
<1>10. ASSUME UNCHANGED <<pc, own, front, sent, bufferOut, lost, m_packet_queue, emitted>>
       PROVE  Known'
  BY <1>0, <1>10 DEF Known, OwnWaits, Given
<1> QED
  BY <1>1, <1>2, <1>3, <1>4, <1>5, <1>6, <1>7, <1>8, <1>9, <1>10
  DEF Next, Step, LoopActs, AppendFails, SendOnDeleted, Corrupt, Shut, Reconnect, Opened,
      ghosts

LEMMA InOrderStep ==
  ASSUME TypeOK, Shape, InOrder, Next
  PROVE  InOrder'
<1> USE PacketParts
<1>0. \A p \in Given : p \in Packets
  BY DEF Given
<1>1. ASSUME NEW t \in Threads, Emit(t)
      PROVE  InOrder'
  <2> DEFINE new == <<t, emitted[t] + 1>>
  <2>1. /\ \A p \in Given' : p \in Given \/ p = new
        /\ new[1] = t
    BY <1>1, EmitGiven
  <2>2. /\ UNCHANGED <<m_packet_queue, front>>
        /\ \A u \in Threads : own'[u] = IF u = t THEN new ELSE own[u]
        /\ \A u \in Threads : u # t => pc'[u] = pc[u]
        /\ pc'[t] \in {"take", "store"} /\ own[t] = NoPacket
    BY <1>1 DEF Emit, TypeOK, Shape
  <2> HIDE DEF new
  <2> QED
    BY <1>0, <2>1, <2>2 DEF InOrder
<1>2. ASSUME NEW t \in Threads, Store(t)
      PROVE  InOrder'
  <2>1. /\ own[t] \in Packets /\ own[t] = <<t, emitted[t]>> /\ emitted[t] \in Nat
        /\ own[t][1] = t /\ own[t][2] = emitted[t]
    BY <1>2 DEF Store, Shape, TypeOK
  <2>2. /\ \A u \in Threads : u # t => pc'[u] = pc[u] /\ own'[u] = own[u]
        /\ front' = front /\ Given' = Given
    BY <1>2 DEF Store, TypeOK, Given
  <2>3. /\ Len(m_packet_queue) \in Nat /\ Len(m_packet_queue') = Len(m_packet_queue) + 1
        /\ \A i \in 1..Len(m_packet_queue) : m_packet_queue'[i] = m_packet_queue[i]
        /\ m_packet_queue'[Len(m_packet_queue) + 1] = own[t]
    BY <1>2, <2>1, AppendPlaces DEF Store, TypeOK
  <2>4. \A i \in 1..Len(m_packet_queue') : i \in 1..Len(m_packet_queue) \/
                                            i = Len(m_packet_queue) + 1
    BY <2>3
  <2>5. /\ \A i \in 1..Len(m_packet_queue) :
             i \in 1..Len(m_packet_queue') /\ Len(m_packet_queue) + 1 > i
        /\ Len(m_packet_queue) + 1 \in 1..Len(m_packet_queue')
    BY <2>3
  <2>6. \A q \in Given : q[1] = t => q[2] <= emitted[t] /\ q[2] \in Nat
    BY <1>0 DEF Given
  <2> SUFFICES ASSUME NEW i \in 1..Len(m_packet_queue'), NEW q \in Given,
                      q[1] = m_packet_queue'[i][1], q[2] > m_packet_queue'[i][2]
               PROVE  \/ \E j \in 1..Len(m_packet_queue') : j > i /\ m_packet_queue'[j] = q
                      \/ /\ own'[q[1]] = q
                         /\ pc'[q[1]] \in {"store", "take"} \/ front'[q[1]] # NoPacket
    BY <2>2 DEF InOrder
  <2>7. CASE i = Len(m_packet_queue) + 1
    <3>1. q[1] = t /\ q[2] > emitted[t]
      BY <2>1, <2>3, <2>7
    <3> QED
      BY <2>1, <2>6, <3>1
  <2>8. CASE i \in 1..Len(m_packet_queue)
    <3>1. \/ \E j \in 1..Len(m_packet_queue) : j > i /\ m_packet_queue[j] = q
          \/ /\ own[q[1]] = q
             /\ pc[q[1]] \in {"store", "take"} \/ front[q[1]] # NoPacket
      BY <2>3, <2>8 DEF InOrder
    <3>2. CASE \E j \in 1..Len(m_packet_queue) : j > i /\ m_packet_queue[j] = q
      BY <2>3, <2>5, <3>2
    <3>3. CASE q = own[t]
      BY <2>3, <2>5, <2>8, <3>3
    <3>4. CASE /\ own[q[1]] = q /\ q # own[t]
               /\ pc[q[1]] \in {"store", "take"} \/ front[q[1]] # NoPacket
      BY <1>0, <2>2, <3>4
    <3> QED
      BY <3>1, <3>2, <3>3, <3>4
  <2> QED
    BY <2>4, <2>7, <2>8
<1>3. ASSUME NEW t \in Threads, TakeFront(t)
      PROVE  InOrder'
  <2>1. /\ Len(m_packet_queue) \in Nat /\ Len(m_packet_queue) >= 1
        /\ Len(m_packet_queue') = Len(m_packet_queue) - 1
        /\ \A i \in 1..(Len(m_packet_queue) - 1) : m_packet_queue'[i] = m_packet_queue[i + 1]
        /\ m_packet_queue[1] \in Packets
        /\ Head(m_packet_queue) = m_packet_queue[1]
    BY <1>3, TailPlaces DEF TakeFront, TypeOK
  <2>2. /\ \A u \in Threads : u # t => pc'[u] = pc[u] /\ front'[u] = front[u]
        /\ front'[t] # NoPacket
        /\ own' = own /\ Given' = Given
    BY <1>3, <2>1 DEF TakeFront, TypeOK, Given
  <2> SUFFICES ASSUME NEW i \in 1..Len(m_packet_queue'), NEW q \in Given,
                      q[1] = m_packet_queue'[i][1], q[2] > m_packet_queue'[i][2]
               PROVE  \/ \E j \in 1..Len(m_packet_queue') : j > i /\ m_packet_queue'[j] = q
                      \/ /\ own'[q[1]] = q
                         /\ pc'[q[1]] \in {"store", "take"} \/ front'[q[1]] # NoPacket
    BY <2>2 DEF InOrder
  <2>3. i + 1 \in 1..Len(m_packet_queue) /\ m_packet_queue'[i] = m_packet_queue[i + 1]
    BY <2>1
  <2>4. \/ \E j \in 1..Len(m_packet_queue) : j > i + 1 /\ m_packet_queue[j] = q
        \/ /\ own[q[1]] = q
           /\ pc[q[1]] \in {"store", "take"} \/ front[q[1]] # NoPacket
    BY <2>3 DEF InOrder
  <2>5. ASSUME NEW j \in 1..Len(m_packet_queue), j > i + 1, m_packet_queue[j] = q
        PROVE  \E k \in 1..Len(m_packet_queue') : k > i /\ m_packet_queue'[k] = q
    <3>1. j - 1 \in 1..(Len(m_packet_queue) - 1) /\ (j - 1) + 1 = j /\ j - 1 > i
      BY <2>1, <2>5
    <3> QED
      BY <2>1, <2>5, <3>1
  <2> QED
    BY <1>0, <2>2, <2>4, <2>5
<1>4. ASSUME NEW t \in Threads, TakeOwn(t)
      PROVE  InOrder'
  <2>1. m_packet_queue' = m_packet_queue /\ Len(m_packet_queue) = 0
    BY <1>4 DEF TakeOwn
  <2> QED
    BY <2>1 DEF InOrder
<1>5. ASSUME NEW t \in Threads, AppendFrame(t) \/ Write(t) \/ Clear(t)
      PROVE  InOrder'
  <2>1. /\ \A u \in Threads : u # t => /\ pc'[u] = pc[u] /\ front'[u] = front[u]
                                       /\ own'[u] = own[u]
        /\ pc[t] \notin {"store", "take"}
        /\ front[t] # NoPacket =>
             own'[t] = own[t] /\ (front'[t] # NoPacket \/ pc'[t] = "take")
        /\ m_packet_queue' = m_packet_queue /\ Given' = Given
    BY <1>5 DEF AppendFrame, Write, Clear, TypeOK, Given
  <2> QED
    BY <1>0, <2>1 DEF InOrder
<1>6. ASSUME OnConnected \/ ReadAndFlush
      PROVE  InOrder'
  <2>1. /\ \A u \in Threads : u # Loop => pc'[u] = pc[u]
        /\ own[Loop] = NoPacket
        /\ UNCHANGED <<own, front, m_packet_queue>> /\ Given' = Given
    BY <1>6 DEF OnConnected, ReadAndFlush, Shape, TypeOK, Given
  <2> QED
    BY <1>0, <2>1 DEF InOrder
<1>7. ASSUME UNCHANGED <<pc, own, front, m_packet_queue, emitted>>
      PROVE  InOrder'
  BY <1>7 DEF InOrder, Given
<1> QED
  BY <1>1, <1>2, <1>3, <1>4, <1>5, <1>6, <1>7
  DEF Next, Step, LoopActs, AppendFails, SendOnDeleted, Corrupt, Shut, Close, Reconnect,
      Opened, ghosts

(***************************************************************************)
(* The theorems.                                                           *)
(***************************************************************************)
\* The inductive invariant holds.
THEOREM IInvHolds == Spec => []IInv
<1>1. Init => IInv
  <2> SUFFICES ASSUME Init PROVE IInv
    OBVIOUS
  <2>1. TypeOK
    <3>1. m_packet_queue \in Seq(Packets) /\ bufferOut \subseteq Packets
          /\ lost \subseteq Packets /\ late \subseteq Packets
      BY DEF Init
    <3>2. /\ pc \in [Threads -> Steps] /\ emitted \in [Threads -> Nat]
          /\ own \in [Threads -> Packets \union {NoPacket}]
          /\ front \in [Threads -> Packets \union {NoPacket}]
          /\ sent \in [Packets -> Nat] /\ stale \in [Threads -> BOOLEAN]
      BY DEF Init, Steps
    <3> QED
      BY <3>1, <3>2 DEF Init, TypeOK, Links, Faults
  <2> USE PacketParts
  <2>2. Shape /\ Dangling /\ Late
    BY DEF Init, Shape, Dangling, Late, Sending
  <2>3. Distinct /\ InOrder
    BY DEF Init, Distinct, InOrder
  <2>4. Buffered /\ NotSentTwice
    BY DEF Init, Buffered, NotSentTwice, Inside
  <2>5. Known
    <3>1. \A p \in Packets : ~(p[2] <= emitted[p[1]])
      BY DEF Init
    <3> QED
      BY <3>1 DEF Known, Given
  <2> QED
    BY <2>1, <2>2, <2>3, <2>4, <2>5 DEF IInv
<1>2. IInv /\ [Next]_vars => IInv'
  <2> SUFFICES ASSUME IInv, [Next]_vars PROVE IInv'
    OBVIOUS
  <2>1. CASE Next
    BY <2>1, TypeStep, ShapeStep, DistinctStep, DanglingStep, LateStep, BufferedStep,
       NotSentTwiceStep, KnownStep, InOrderStep
    DEF IInv
  <2>2. CASE UNCHANGED vars
    BY <2>2
    DEF IInv, vars, ghosts, TypeOK, Shape, Distinct, Dangling, Late, Buffered, NotSentTwice,
        Known, InOrder, InHand, Given, Draining, Inside, OwnWaits
  <2> QED
    BY <2>1, <2>2
<1> QED
  BY <1>1, <1>2, PTL DEF Spec

\* Every variable has its type.
THEOREM TypeCorrect == Spec => []TypeOK
<1>1. IInv => TypeOK
  BY DEF IInv
<1> QED
  BY <1>1, IInvHolds, PTL

\* send_packet comes upon a deleted or unopened client only if it began before
\* close(), and never on the loop.
THEOREM DanglingNeedsClose == Spec => []DanglingOnlyIfStale
<1>1. IInv => DanglingOnlyIfStale
  BY DEF IInv, Dangling, DanglingOnlyIfStale, Sending
<1> QED
  BY <1>1, IInvHolds, PTL

\* A packet is left in the queue of a connected Socket only by a thread that had
\* read m_connected before on_connected set it.
THEOREM StrandedNeedsLate == Spec => []StrandedOnlyLate
<1>1. IInv => StrandedOnlyLate
  BY DEF IInv, Late, StrandedOnlyLate, Stored
<1> QED
  BY <1>1, IInvHolds, PTL

\* While no two threads meet in a connection, nothing is sent twice.
THEOREM SentAtMostOnce == Spec => []SentOnce
<1>1. IInv => SentOnce
  <2> SUFFICES ASSUME IInv, ~raced, NEW p \in Packets
               PROVE  /\ sent[p] <= 1
                      /\ sent[p] = 1 => p \notin Stored /\ \A t \in Threads : p \notin Waiting(t)
    BY DEF SentOnce
  <2> USE PacketParts
  <2>1. CASE sent[p] = 1
    <3>1. \A t \in Threads : p \notin Waiting(t)
      BY <2>1 DEF IInv, NotSentTwice, Waiting, OwnWaits, InHand
    <3> QED
      BY <2>1, <3>1 DEF IInv, NotSentTwice, Stored
  <2>2. CASE sent[p] # 1
    BY <2>2 DEF IInv, NotSentTwice
  <2> QED
    BY <2>1, <2>2
<1> QED
  BY <1>1, IInvHolds, PTL

\* While no two threads meet in a connection, nothing is forgotten.
THEOREM NothingIsForgotten == Spec => []NothingForgotten
<1>1. IInv => NothingForgotten
  BY DEF IInv, Known, NothingForgotten, Stored, Waiting, OwnWaits
<1> QED
  BY <1>1, IInvHolds, PTL

\* While no two threads meet in a connection, a packet is overtaken by a later one
\* of its thread only while it is in a thread's hand.
THEOREM OvertakenOnlyInHand == Spec => []OvertakenInHand
<1>1. IInv => OvertakenInHand
  <2> SUFFICES ASSUME IInv, ~raced, NEW p \in Given, NEW q \in Given,
                      p[1] = q[1], p[2] < q[2], sent[q] > 0, sent[p] = 0, p \notin lost
               PROVE  \E t \in Threads : front[t] = p
    BY DEF OvertakenInHand
  <2>1. p \in Packets /\ q \in Packets /\ p # NoPacket /\ q # NoPacket
        /\ p[2] \in Int /\ q[2] \in Int /\ q[1] \in Threads
    BY PacketParts DEF Given
  <2>2. \A t \in Threads : own[t] # p
    <3> SUFFICES ASSUME NEW t \in Threads, own[t] = p PROVE FALSE
      OBVIOUS
    <3>1. p = <<t, emitted[t]>> /\ emitted[t] \in Nat
      BY <2>1 DEF IInv, Shape, TypeOK
    <3>2. p[1] = t /\ p[2] = emitted[t]
      BY <3>1
    <3>3. q[2] <= emitted[t]
      BY <3>2 DEF Given
    <3> QED
      BY <2>1, <3>1, <3>2, <3>3
  <2>3. /\ \A i \in 1..Len(m_packet_queue) : m_packet_queue[i] # q
        /\ \A t \in Threads : OwnWaits(t) => own[t] # q
    BY <2>1 DEF IInv, NotSentTwice
  <2>4. \A i \in 1..Len(m_packet_queue) : m_packet_queue[i] # p
    BY <2>1, <2>3 DEF IInv, InOrder, OwnWaits
  <2>5. \/ p \in bufferOut
        \/ \E t \in Threads : pc[t] = "append" /\ front[t] = p
    BY <2>2, <2>4 DEF IInv, Known
  <2>6. CASE p \in bufferOut
    BY <2>2, <2>6 DEF IInv, Buffered, InHand
  <2> QED
    BY <2>5, <2>6
<1> QED
  BY <1>1, IInvHolds, PTL
=============================================================================
