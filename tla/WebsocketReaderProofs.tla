------------------------ MODULE WebsocketReaderProofs ------------------------
(***************************************************************************)
(* Proofs about WebsocketReader, for all streams.                          *)
(*                                                                         *)
(* Inv says where the reader is: everything before `next` is settled, and  *)
(* everything from it on is still to come; while the loop runs there is at *)
(* least one byte of the next frame, and three when it is the first of the *)
(* buffer.                                                                 *)
(***************************************************************************)
EXTENDS WebsocketReader, TLAPS

\* What is before next is settled and what is behind it is not.
Settled ==
  /\ \A i \in 1..Last : i > next => fate[i] = "coming"
  /\ state \in {"open", "out_of_step", "terminated"} /\ next <= Last
       => fate[next] = "coming"

\* Where the buffer and the loop are.
Placed ==
  /\ state # "open" => ~reading
  /\ from <= Position(next)
  /\ state = "open" => Position(next) <= received
  /\ reading => /\ next <= Last
                /\ Position(next) < received
                /\ from = Position(next) => Available >= 3

Inv == TypeOK /\ Placed /\ Settled

(***************************************************************************)
(* Frames and streams.                                                     *)
(***************************************************************************)
\* The sizes of a frame are numbers, and a frame has at least two bytes.
LEMMA FrameSizes ==
  ASSUME NEW f \in Frames
  PROVE  /\ f.at \in Nat /\ f.len \in Nat /\ f.masked \in BOOLEAN /\ f.kind \in Kinds
         /\ LengthByte(f) \in 0..127 /\ LengthByte(f) <= f.len
         /\ f.len < 126 => LengthByte(f) = f.len
         /\ MaskLength(f) \in {0, 4} /\ (MaskLength(f) = 4 <=> f.masked)
         /\ ExtendedLength(f) \in Nat
         /\ PayloadOffset(f) = 2 + ExtendedLength(f) + MaskLength(f)
         /\ Payload(f) = f.at + PayloadOffset(f)
         /\ End(f) = Payload(f) + f.len
         /\ HeaderBytes(f) \in 0..12
         /\ HeaderBytes(f) <= LengthByte(f) + MaskLength(f)
<1>1. /\ f.at \in Nat /\ f.len \in Nat /\ f.masked \in BOOLEAN /\ f.kind \in Kinds
  BY DEF Frames
<1>2. LengthByte(f) \in 0..127 /\ LengthByte(f) <= f.len
      /\ (f.len < 126 => LengthByte(f) = f.len)
  BY <1>1 DEF LengthByte
<1>3. MaskLength(f) \in {0, 4} /\ (MaskLength(f) = 4 <=> f.masked)
  BY <1>1 DEF MaskLength
<1>4. ExtendedLength(f) \in Nat
  BY <1>2 DEF ExtendedLength
<1>5. HeaderBytes(f) \in 0..12 /\ HeaderBytes(f) <= LengthByte(f) + MaskLength(f)
  BY <1>2, <1>3 DEF HeaderBytes
<1> QED
  BY <1>1, <1>2, <1>3, <1>4, <1>5 DEF PayloadOffset, Payload, End

\* The positions of a stream: they grow, and each frame ends where the next begins.
LEMMA Positions ==
  ASSUME stream \in Streams
  PROVE  /\ Last \in Nat /\ Last >= 1
         /\ \A i \in 1..Last : stream[i] \in Frames
         /\ Total \in Nat
         /\ \A i \in 1..(Last + 1) : Position(i) \in Nat /\ Position(i) <= Total
         /\ Position(1) = 0 /\ Position(Last + 1) = Total
         /\ \A i \in 1..Last : /\ Position(i) = stream[i].at
                               /\ Position(i + 1) = End(stream[i])
                               /\ Position(i) + 2 <= Position(i + 1)
         /\ \A i, j \in 1..(Last + 1) : i < j => End(stream[i]) <= Position(j)
<1>1. /\ stream \in Seq(Frames) /\ stream # <<>>
      /\ stream[1].at = 0
      /\ \A i \in 1..(Last - 1) : stream[i + 1].at = End(stream[i])
      /\ \A i, j \in 1..Last : i < j => End(stream[i]) <= stream[j].at
  BY StreamsAssumption DEF Last
<1>2. Last \in Nat /\ Last >= 1 /\ \A i \in 1..Last : stream[i] \in Frames
  BY <1>1 DEF Last
<1>3. \A i \in 1..Last : /\ stream[i].at \in Nat /\ End(stream[i]) \in Nat
                         /\ stream[i].at + 2 <= End(stream[i])
  BY <1>2, FrameSizes
<1>4. Total \in Nat /\ Position(Last + 1) = Total
  BY <1>2, <1>3 DEF Total, Position
<1>5. \A i \in 1..Last : Position(i) = stream[i].at
  BY <1>2 DEF Position
<1>6. \A i \in 1..Last : End(stream[i]) <= Total
  <2> SUFFICES ASSUME NEW i \in 1..Last PROVE End(stream[i]) <= Total
    OBVIOUS
  <2>1. CASE i = Last
    BY <2>1, <1>2, <1>3 DEF Total
  <2>2. CASE i # Last
    <3>1. End(stream[i]) <= stream[Last].at
      BY <2>2, <1>1, <1>2
    <3> QED
      BY <3>1, <1>2, <1>3 DEF Total
  <2> QED
    BY <2>1, <2>2
<1>7. \A i \in 1..Last : Position(i + 1) = End(stream[i])
  <2> SUFFICES ASSUME NEW i \in 1..Last PROVE Position(i + 1) = End(stream[i])
    OBVIOUS
  <2>1. CASE i = Last
    BY <2>1, <1>4 DEF Total
  <2>2. CASE i # Last
    BY <2>2, <1>1, <1>2 DEF Position
  <2> QED
    BY <2>1, <2>2
<1>8. \A i, j \in 1..(Last + 1) : i < j => End(stream[i]) <= Position(j)
  <2> SUFFICES ASSUME NEW i \in 1..(Last + 1), NEW j \in 1..(Last + 1), i < j
               PROVE  End(stream[i]) <= Position(j)
    OBVIOUS
  <2>1. i \in 1..Last
    BY <1>2
  <2>2. CASE j = Last + 1
    BY <2>1, <2>2, <1>4, <1>6
  <2>3. CASE j \in 1..Last
    BY <2>1, <2>3, <1>1, <1>5
  <2> QED
    BY <2>2, <2>3, <1>2
<1>9. \A i \in 1..(Last + 1) : Position(i) \in Nat /\ Position(i) <= Total
  <2> SUFFICES ASSUME NEW i \in 1..(Last + 1)
               PROVE  Position(i) \in Nat /\ Position(i) <= Total
    OBVIOUS
  <2>1. CASE i = Last + 1
    BY <2>1, <1>4
  <2>2. CASE i \in 1..Last
    BY <2>2, <1>3, <1>4, <1>5, <1>6
  <2> QED
    BY <2>1, <2>2, <1>2
<1> QED
  BY <1>1, <1>2, <1>3, <1>4, <1>5, <1>7, <1>8, <1>9, SMTT(30)

\* A variable that does not change keeps what is computed from it.
LEMMA SameStream ==
  ASSUME stream' = stream
  PROVE  /\ Last' = Last /\ Total' = Total
         /\ Position(next)' = Position(next')
BY DEF Last, Total, Position

(***************************************************************************)
(* The inductive invariant.                                                *)
(***************************************************************************)
LEMMA InitInv == Init => Inv
<1> SUFFICES ASSUME Init PROVE Inv
  OBVIOUS
<1>1. TypeOK
  <2>1. stream \in Streams /\ Last \in Nat /\ Last >= 1 /\ Total \in Nat
    BY Positions DEF Init
  <2>2. fate \in [1..Last -> Fates]
    BY DEF Init, Fates, Last
  <2>3. received \in 0..Total /\ from \in 0..received /\ next \in 1..(Last + 1)
    BY <2>1 DEF Init
  <2> QED
    BY <2>1, <2>2, <2>3 DEF Init, TypeOK
<1>2. Placed /\ Settled
  BY Positions DEF Init, Placed, Settled, Last
<1> QED
  BY <1>1, <1>2 DEF Inv

\* A chunk that has come in.
LEMMA ReceiveInv ==
  ASSUME Inv, NEW n \in 1..Total, Receive(n)
  PROVE  Inv'
<1>1. /\ state = "open" /\ ~reading /\ stream' = stream
      /\ received' = received + n /\ received + n <= Total
  BY DEF Receive, StoreShort
<1>2. /\ Last \in Nat /\ Last >= 1 /\ Total \in Nat
      /\ \A i \in 1..(Last + 1) : Position(i) \in Nat /\ Position(i) <= Total
      /\ Position(Last + 1) = Total
      /\ stream \in Streams /\ received \in Nat /\ from \in Nat /\ from <= received
      /\ next \in 1..(Last + 1) /\ Position(next) <= received /\ from <= Position(next)
  BY <1>1, Positions DEF Inv, TypeOK, Placed
<1>3. next \in 1..Last
  BY <1>1, <1>2
<1>4. Last' = Last /\ Total' = Total /\ Position(next)' = Position(next')
  BY <1>1, SameStream
<1>5. /\ received' \in 0..Total /\ Position(next) <= received'
      /\ Position(next) \in 0..received'
  BY <1>1, <1>2
<1>6. CASE StoreShort(n)
  <2>1. TypeOK'
    BY <1>1, <1>2, <1>4, <1>5, <1>6, SMTT(30) DEF Inv, TypeOK, StoreShort
  <2>2. Placed'
    BY <1>1, <1>2, <1>4, <1>5, <1>6 DEF Inv, Placed, StoreShort
  <2>3. Settled'
    BY <1>1, <1>4, <1>6 DEF Inv, Settled, StoreShort
  <2> QED
    BY <2>1, <2>2, <2>3 DEF Inv
<1>7. ASSUME n >= 3, short' = FALSE, from' = Position(next),
             StartLoop \/ EndConnection \/ AnswerPing,
             UNCHANGED <<stream, overrun>>
      PROVE  Inv'
  <2>1. CASE StartLoop
    <3>1. TypeOK'
      BY <1>1, <1>2, <1>4, <1>5, <1>7, <2>1 DEF Inv, TypeOK, StartLoop
    <3>2. Placed'
      BY <1>1, <1>2, <1>3, <1>4, <1>5, <1>7, <2>1 DEF Inv, Placed, StartLoop, Available
    <3>3. Settled'
      BY <1>1, <1>4, <2>1 DEF Inv, Settled, StartLoop
    <3> QED
      BY <3>1, <3>2, <3>3 DEF Inv
  <2>2. CASE EndConnection
    <3>1. TypeOK'
      BY <1>1, <1>2, <1>3, <1>4, <1>5, <1>7, <2>2
         DEF Inv, TypeOK, EndConnection, Fates
    <3>2. Placed'
      BY <1>1, <1>2, <1>4, <1>5, <1>7, <2>2 DEF Inv, Placed, EndConnection
    <3>3. Settled'
      BY <1>1, <1>2, <1>3, <1>4, <2>2, SMTT(30) DEF Inv, TypeOK, Settled, EndConnection
    <3> QED
      BY <3>1, <3>2, <3>3 DEF Inv
  <2>3. CASE AnswerPing
    <3>1. ASSUME NEW i \in (next + 1)..(Last + 1), Position(i) = received', next' = i,
                 fate' = [j \in 1..Last |->
                            IF j = next THEN "answered"
                            ELSE IF j \in next..(i - 1) THEN "dropped" ELSE fate[j]],
                 UNCHANGED state
          PROVE  Inv'
      <4>0. spoilt' = FALSE /\ reading' = reading
        BY <2>3 DEF AnswerPing
      <4>1. i \in 1..(Last + 1) /\ i > next
        BY <1>2, <3>1
      <4>2. TypeOK'
        BY <1>1, <1>2, <1>4, <1>5, <1>7, <3>1, <4>0, <4>1 DEF Inv, TypeOK, Fates
      <4>3. Position(next) <= Position(i)
        BY <1>5, <3>1
      <4>4. Placed'
        BY <1>1, <1>2, <1>4, <1>5, <1>7, <3>1, <4>0, <4>1, <4>3 DEF Inv, Placed
      <4>5. Settled'
        BY <1>1, <1>2, <1>4, <3>1, <4>1, SMTT(30) DEF Inv, Settled
      <4> QED
        BY <4>2, <4>4, <4>5 DEF Inv
    <3>2. CASE state' = "out_of_step" /\ UNCHANGED <<next, fate>>
      <4>0. spoilt' = FALSE /\ reading' = reading
        BY <2>3 DEF AnswerPing
      <4>1. TypeOK'
        BY <1>1, <1>2, <1>4, <1>5, <1>7, <3>2, <4>0 DEF Inv, TypeOK
      <4>2. Placed'
        BY <1>1, <1>2, <1>4, <1>5, <1>7, <3>2, <4>0 DEF Inv, Placed
      <4>3. Settled'
        BY <1>1, <1>4, <3>2 DEF Inv, Settled
      <4> QED
        BY <4>1, <4>2, <4>3 DEF Inv
    <3> QED
      BY <2>3, <3>1, <3>2 DEF AnswerPing
  <2> QED
    BY <1>7, <2>1, <2>2, <2>3
<1> QED
  BY <1>6, <1>7 DEF Receive

\* A turn of the loop.
LEMMA ReadFrameInv ==
  ASSUME Inv, ReadFrame
  PROVE  Inv'
<1> DEFINE f == stream[next]
<1>1. /\ reading /\ state = "open"
      /\ stream' = stream /\ received' = received /\ from' = from /\ short' = short
  BY DEF ReadFrame, Inv, Placed, TypeOK
<1>2. /\ Last \in Nat /\ Last >= 1 /\ Total \in Nat
      /\ \A i \in 1..(Last + 1) : Position(i) \in Nat /\ Position(i) <= Total
      /\ stream \in Streams /\ received \in 0..Total /\ from \in 0..received
      /\ next \in 1..Last /\ Position(next) < received /\ from <= Position(next)
  BY <1>1, Positions, SMTT(30) DEF Inv, TypeOK, Placed
<1>3. Last' = Last /\ Total' = Total /\ Position(next)' = Position(next')
  BY <1>1, SameStream
<1>4. f \in Frames /\ Position(next + 1) = End(f) /\ Position(next) + 2 <= Position(next + 1)
  BY <1>2, Positions
<1>5. ASSUME reading' = FALSE, UNCHANGED <<next, fate>>, spoilt' \in BOOLEAN,
             overrun' \in BOOLEAN, state' \in {"open", "terminated"}
      PROVE  Inv'
  <2>1. TypeOK'
    BY <1>1, <1>2, <1>3, <1>5 DEF Inv, TypeOK
  <2>2. Placed'
    BY <1>1, <1>2, <1>3, <1>5 DEF Inv, Placed
  <2>3. Settled'
    BY <1>1, <1>3, <1>5 DEF Inv, Settled
  <2> QED
    BY <2>1, <2>2, <2>3 DEF Inv
<1>6. spoilt \in BOOLEAN /\ overrun \in BOOLEAN /\ f.masked \in BOOLEAN
  BY <1>4, FrameSizes DEF Inv, TypeOK
<1>7. CASE Terminate(f)
  BY <1>5, <1>6, <1>7 DEF Terminate
<1>8. CASE WaitForMore(f)
  BY <1>1, <1>5, <1>6, <1>8 DEF WaitForMore, Store
<1>9. CASE WaitUnmasked(f)
  <2>1. spoilt' \in BOOLEAN /\ overrun' \in BOOLEAN
    BY <1>6, <1>9, Zenon DEF WaitUnmasked
  <2> QED
    BY <1>1, <1>5, <1>9, <2>1 DEF WaitUnmasked, Store
<1>10. CASE WaitEmpty(f)
  BY <1>1, <1>5, <1>6, <1>10 DEF WaitEmpty, Store
<1>11. CASE HandOn(f)
  <2>1. /\ next' = next + 1 /\ spoilt' = FALSE /\ overrun' = overrun /\ state' = state
        /\ fate' = [fate EXCEPT ![next] = IF spoilt THEN "garbled" ELSE "handed"]
        /\ reading' = (Position(next + 1) < received)
    BY <1>11 DEF HandOn
  <2>2. Position(next + 1) <= received
    BY <1>2, <1>4, <1>11, FrameSizes DEF HandOn, Incomplete
  <2>3. reading' \in BOOLEAN
    BY <2>1
  <2>4. TypeOK'
    <3>1. fate' \in [1..Last -> Fates]
      BY <2>1 DEF Inv, TypeOK, Fates
    <3>2. next' \in 1..(Last + 1)
      BY <1>2, <2>1
    <3> QED
      BY <1>1, <1>2, <1>3, <2>1, <2>3, <3>1, <3>2 DEF Inv, TypeOK
  <2>5. Placed'
    <3>1. Position(next)' = Position(next + 1) /\ Position(next + 1) \in Nat
      BY <1>2, <1>3, <2>1
    <3>2. from < Position(next + 1) /\ from \in Nat /\ received \in Nat
      BY <1>2, <1>4, <3>1
    <3>3. Position(next + 1) < received => next + 1 <= Last
      BY <1>2, Positions
    <3>4. reading' => Position(next + 1) < received
      BY <2>1, Zenon
    <3>5. state' = "open" /\ from' = from /\ received' = received
          /\ Position(next)' = Position(next + 1) /\ next' = next + 1 /\ Last' = Last
      BY <1>1, <1>3, <2>1, <3>1
    <3>6. from' <= Position(next)' /\ ~(from' = Position(next)')
      BY <3>1, <3>2, <3>5
    <3>7. Position(next)' <= received'
      BY <2>2, <3>1, <3>5
    <3>8. reading' => next' <= Last' /\ Position(next)' < received'
      BY <3>3, <3>4, <3>5
    <3> QED
      BY <3>5, <3>6, <3>7, <3>8, Zenon DEF Placed
  <2>6. Settled'
    BY <1>1, <1>2, <1>3, <2>1, SMTT(30) DEF Inv, TypeOK, Settled
  <2> QED
    BY <2>4, <2>5, <2>6 DEF Inv
<1> QED
  BY <1>7, <1>8, <1>9, <1>10, <1>11 DEF ReadFrame

LEMMA StutterInv == Inv /\ UNCHANGED vars => Inv'
<1> SUFFICES ASSUME Inv, UNCHANGED vars PROVE Inv'
  OBVIOUS
<1>1. Last' = Last /\ Total' = Total /\ Position(next)' = Position(next')
  BY SameStream DEF vars
<1>2. TypeOK'
  BY <1>1 DEF Inv, TypeOK, vars, readerVars
<1>3. Placed'
  BY <1>1 DEF Inv, Placed, Available, vars, readerVars
<1>4. Settled'
  BY <1>1 DEF Inv, Settled, vars, readerVars
<1> QED
  BY <1>2, <1>3, <1>4 DEF Inv

\* Everything the reader does keeps Inv.
THEOREM InvHolds == Spec => []Inv
<1>1. Init => Inv
  BY InitInv
<1>2. Inv /\ [Next]_vars => Inv'
  BY ReceiveInv, ReadFrameInv, StutterInv DEF Next
<1> QED
  BY <1>1, <1>2, PTL DEF Spec

\* Every variable keeps its type, for any streams.
THEOREM TypeCorrect == Spec => []TypeOK
BY InvHolds, PTL DEF Inv

(***************************************************************************)
(* What readFrame is called with.                                          *)
(***************************************************************************)
LEMMA AtHead ==
  ASSUME Inv, next <= Last
  PROVE  /\ Last \in Nat /\ next \in 1..Last /\ next + 1 \in 1..(Last + 1)
         /\ stream[next] \in Frames
         /\ stream[next].at \in Nat /\ Position(next) = stream[next].at
         /\ End(stream[next]) \in Nat /\ Position(next + 1) = End(stream[next])
         /\ received \in Nat /\ from \in Nat
BY Positions DEF Inv, TypeOK

\* A frame that is there to its last byte is neither thrown at nor waited for.
LEMMA WholeIsRead ==
  ASSUME Inv, next <= Last, Arrived(next), from <= Position(next)
  PROVE  /\ ~Throws(stream[next])
         /\ ~TooShort(stream[next])
         /\ ~Incomplete(stream[next])
<1> DEFINE f == stream[next]
<1>1. /\ f \in Frames /\ Position(next) = f.at /\ received \in Nat /\ from \in Nat
      /\ End(f) <= received /\ from <= f.at
  BY AtHead DEF Arrived
<1>2. /\ f.at \in Nat /\ f.len \in Nat /\ LengthByte(f) \in 0..127 /\ LengthByte(f) <= f.len
      /\ MaskLength(f) \in Nat /\ ExtendedLength(f) \in Nat
      /\ Payload(f) = f.at + 2 + ExtendedLength(f) + MaskLength(f)
      /\ End(f) = Payload(f) + f.len
      /\ HeaderBytes(f) \in 0..12 /\ HeaderBytes(f) <= LengthByte(f) + MaskLength(f)
  BY <1>1, FrameSizes
<1>3. Available = received - f.at /\ Limit = received - from
  BY <1>1 DEF Available, Limit
<1>4. ~Throws(f)
  BY <1>1, <1>2, <1>3, SMTT(30) DEF Throws
<1>5. ~TooShort(f)
  BY <1>1, <1>2, <1>3 DEF TooShort
<1>6. ~Incomplete(f)
  BY <1>1, <1>2 DEF Incomplete
<1> QED
  BY <1>4, <1>5, <1>6

\* Arrived at another time: nothing that has arrived leaves again.
LEMMA StaysArrived ==
  ASSUME Inv, [Next]_vars
  PROVE  /\ stream' = stream /\ Last' = Last
         /\ received' >= received /\ received \in Nat /\ received' \in Nat
         /\ \A i \in 1..Last : (End(stream[i]) <= received) => (End(stream'[i]) <= received')
<1>0. received \in Nat /\ Total \in Nat
  BY Positions DEF Inv, TypeOK
<1>1. CASE \E n \in 1..Total : Receive(n)
  <2>1. stream' = stream /\ received' \in Nat /\ received' >= received
    BY <1>0, <1>1 DEF Receive, StoreShort
  <2>2. \A i \in 1..Last : End(stream[i]) \in Nat
    BY Positions, FrameSizes, SMTT(30) DEF Inv, TypeOK
  <2> QED
    BY <1>0, <2>1, <2>2 DEF Last
<1>2. CASE ReadFrame \/ UNCHANGED vars
  BY <1>0, <1>2 DEF ReadFrame, vars, readerVars, Last
<1> QED
  BY <1>1, <1>2 DEF Next

(***************************************************************************)
(* What arrives whole is not held back.                                    *)
(***************************************************************************)
\* Between chunks a whole frame waits only behind a short chunk or for having no
\* payload (onSocketRecv's test of three bytes and of payloadLength).
THEOREM NothingHeldBack == Spec => []NotHeldBack
<1>1. Init => NotHeldBack
  <2> SUFFICES ASSUME Init PROVE ~Arrived(next)
    BY DEF NotHeldBack
  <2>1. Last >= 1 /\ Last \in Nat /\ next = 1 /\ received = 0 /\ stream[1] \in Frames
        /\ stream[1].at \in Nat
    BY Positions, FrameSizes DEF Init
  <2> QED
    BY <2>1, FrameSizes DEF Arrived
<1>2. ASSUME Inv, NotHeldBack, [Next]_vars PROVE NotHeldBack'
  <2>0. SUFFICES ASSUME state' = "open", ~reading', next' <= Last, End(stream[next']) <= received',
                        ~short', stream[next'].len # 0
                 PROVE  FALSE
    BY <1>2, StaysArrived DEF NotHeldBack, Arrived
  <2>1. /\ Last \in Nat /\ next \in 1..(Last + 1) /\ received \in Nat /\ stream \in Streams
        /\ \A i \in 1..Last : /\ Position(i) = stream[i].at
                              /\ Position(i + 1) = End(stream[i])
                              /\ Position(i) + 2 <= Position(i + 1)
                              /\ Position(i) \in Nat /\ Position(i + 1) \in Nat
    BY <1>2, Positions DEF Inv, TypeOK
  <2>2. CASE \E n \in 1..Total : Receive(n)
    <3>1. PICK n \in 1..Total : Receive(n)
      BY <2>2
    <3>2. AnswerPing
      BY <2>0, <3>1 DEF Receive, StoreShort, StartLoop, EndConnection
    <3>3. PICK i \in (next + 1)..(Last + 1) : Position(i) = received' /\ next' = i
      BY <2>0, <3>2 DEF AnswerPing
    <3> QED
      BY <2>0, <2>1, <3>3, StaysArrived, <1>2
  <2>3. CASE ReadFrame
    <3>0. /\ next <= Last /\ from <= Position(next) /\ received' = received /\ next \in 1..Last
          /\ Position(next) < received /\ short' = short /\ reading
      BY <1>2, <2>1, <2>3 DEF ReadFrame, Inv, Placed
    <3>1. ASSUME next' = next PROVE FALSE
      <4>1. Arrived(next) /\ stream[next].len # 0
        BY <2>0, <3>0, <3>1 DEF Arrived
      <4>2. HandOn(stream[next])
        BY <1>2, <2>3, <3>0, <4>1, WholeIsRead
           DEF ReadFrame, Terminate, WaitForMore, WaitUnmasked, WaitEmpty
      <4> QED
        BY <3>0, <3>1, <4>2 DEF HandOn
    <3>2. HandOn(stream[next])
      BY <2>3, <3>1 DEF ReadFrame, Terminate, WaitForMore, WaitUnmasked, WaitEmpty, Store
    <3>3. next' = next + 1 /\ ~(Position(next + 1) < received)
      BY <2>0, <3>2 DEF HandOn
    <3> QED
      BY <2>0, <2>1, <3>0, <3>3
  <2>4. CASE UNCHANGED vars
    BY <1>2, <2>0, <2>4 DEF NotHeldBack, Arrived, vars, readerVars
  <2> QED
    BY <1>2, <2>2, <2>3, <2>4 DEF Next
<1> QED
  BY <1>1, <1>2, InvHolds, PTL DEF Spec

(***************************************************************************)
(* Masks.                                                                  *)
(***************************************************************************)
\* Nothing of a stream without masks has been unmasked.
Untouched ==
  (\A i \in 1..Last : ~stream[i].masked)
    => ~overrun /\ ~spoilt /\ \A i \in 1..Last : fate[i] # "garbled"

\* readFrame garbles payloads and writes behind the buffer only where frames are
\* masked.
THEOREM GarblingNeedsMasks == Spec => []OnlyMaskedGarbled
<1>1. Init => Untouched
  BY DEF Init, Untouched, Last
<1>2. ASSUME Inv, Untouched, [Next]_vars PROVE Untouched'
  <2>0. stream' = stream /\ Last' = Last
    BY <1>2, StaysArrived
  <2>1. SUFFICES ASSUME \A i \in 1..Last : ~stream[i].masked
                 PROVE  ~overrun' /\ ~spoilt' /\ \A i \in 1..Last : fate'[i] # "garbled"
    BY <2>0 DEF Untouched
  <2>2. ~overrun /\ ~spoilt /\ \A i \in 1..Last : fate[i] # "garbled"
    BY <1>2, <2>1 DEF Untouched
  <2>3. CASE \E n \in 1..Total : Receive(n)
    <3>1. PICK n \in 1..Total : Receive(n)
      BY <2>3
    <3>2. ~overrun' /\ ~spoilt'
      BY <2>2, <3>1 DEF Receive, StoreShort, StartLoop, EndConnection, AnswerPing
    <3>3. fate \in [1..Last -> Fates]
      BY <1>2 DEF Inv, TypeOK
    <3>4. CASE fate' = fate
      BY <2>2, <3>2, <3>4
    <3>5. CASE EndConnection
      BY <2>2, <3>2, <3>3, <3>5 DEF EndConnection
    <3>6. CASE AnswerPing
      BY <2>2, <3>2, <3>6 DEF AnswerPing
    <3> QED
      BY <3>1, <3>4, <3>5, <3>6 DEF Receive, StoreShort, StartLoop
  <2>4. CASE ReadFrame
    <3>0. next \in 1..Last /\ ~stream[next].masked /\ fate \in [1..Last -> Fates]
      BY <1>2, <2>1, <2>4, AtHead DEF Inv, TypeOK, Placed, ReadFrame
    <3>1. CASE HandOn(stream[next])
      BY <2>2, <3>0, <3>1 DEF HandOn
    <3>2. CASE WaitUnmasked(stream[next])
      <4>1. spoilt' = FALSE /\ overrun' = FALSE /\ fate' = fate
        BY <2>2, <3>0, <3>2, Zenon DEF WaitUnmasked, Store
      <4> QED
        BY <2>2, <4>1
    <3> QED
      BY <2>2, <2>4, <3>1, <3>2 DEF ReadFrame, Terminate, WaitForMore, WaitEmpty, Store
  <2>5. CASE UNCHANGED vars
    BY <2>2, <2>5 DEF vars, readerVars
  <2> QED
    BY <1>2, <2>3, <2>4, <2>5 DEF Next
<1>3. Untouched => OnlyMaskedGarbled
  BY DEF Untouched, OnlyMaskedGarbled
<1> QED
  BY <1>1, <1>2, <1>3, InvHolds, PTL DEF Spec

(***************************************************************************)
(* Where the process ends.                                                 *)
(***************************************************************************)
\* What readFrame throws at, in terms of where the chunks were cut.
LEMMA ThrowsAtCut ==
  ASSUME Inv, reading, Throws(stream[next])
  PROVE  \/ Available = 1 /\ from < Position(next)
         \/ /\ stream[next].masked /\ stream[next].len < 12
            /\ stream[next].len + 2 <= Available
            /\ received < End(stream[next])
<1> DEFINE f == stream[next]
<1>1. /\ next <= Last /\ Position(next) < received /\ from <= Position(next)
      /\ from = Position(next) => Available >= 3
  BY DEF Inv, Placed
<1>2. /\ f \in Frames /\ Position(next) = f.at /\ f.at \in Nat /\ received \in Nat
      /\ from \in Nat
  BY <1>1, AtHead
<1>3. /\ f.len \in Nat /\ LengthByte(f) \in 0..127 /\ LengthByte(f) <= f.len
      /\ f.len < 126 => LengthByte(f) = f.len
      /\ MaskLength(f) \in {0, 4} /\ (MaskLength(f) = 4 <=> f.masked)
      /\ ExtendedLength(f) \in Nat
      /\ End(f) = f.at + 2 + ExtendedLength(f) + MaskLength(f) + f.len
      /\ HeaderBytes(f) \in 0..12 /\ HeaderBytes(f) <= LengthByte(f) + MaskLength(f)
  BY <1>2, FrameSizes
<1>4. Available = received - f.at
  BY <1>2 DEF Available
<1>5. CASE Available < 2
  BY <1>1, <1>2, <1>4, <1>5
<1>6. CASE LengthByte(f) <= Available - 2 /\ Available - 2 < HeaderBytes(f)
  <2>1. MaskLength(f) = 4 /\ LengthByte(f) < 12
    BY <1>2, <1>3, <1>4, <1>6
  <2>2. LengthByte(f) = f.len
    BY <2>1, <1>3 DEF LengthByte
  <2> QED
    BY <1>2, <1>3, <1>4, <1>6, <2>1, <2>2
<1> QED
  BY <1>5, <1>6 DEF Throws

\* The exception of BitReader::get that ends the process needs an unlucky cut: behind
\* the first byte of a frame, or in the last bytes of a short masked one.
THEOREM EndedByCut == Spec => []TerminatedByCut
<1>1. Init => TerminatedByCut
  BY DEF Init, TerminatedByCut
<1>2. ASSUME Inv, TerminatedByCut, [Next]_vars PROVE TerminatedByCut'
  <2>0. state # "open" => ~reading
    BY <1>2 DEF Inv, Placed
  <2>1. CASE \E n \in 1..Total : Receive(n)
    <3>1. state' # "terminated"
      BY <2>1 DEF Receive, StoreShort, StartLoop, EndConnection, AnswerPing
    <3> QED
      BY <3>1 DEF TerminatedByCut
  <2>2. CASE ReadFrame
    <3>1. reading /\ state = "open"
      BY <2>0, <2>2 DEF ReadFrame
    <3>2. CASE Throws(stream[next]) /\ Terminate(stream[next])
      <4>1. stream' = stream /\ next' = next /\ from' = from /\ received' = received
        BY <2>2, <3>2 DEF ReadFrame, Terminate
      <4>2. Available' = Available /\ (Position(next))' = Position(next)
        BY <4>1 DEF Available, Position, Last, Total
      <4> QED
        BY <1>2, <3>1, <3>2, <4>1, <4>2, ThrowsAtCut DEF TerminatedByCut
    <3>3. CASE state' = state
      BY <3>1, <3>3 DEF TerminatedByCut
    <3> QED
      BY <2>2, <3>2, <3>3
         DEF ReadFrame, Terminate, WaitForMore, WaitUnmasked, WaitEmpty, HandOn, Store
  <2>3. CASE UNCHANGED vars
    BY <1>2, <2>3 DEF TerminatedByCut, Available, Position, Last, Total, vars, readerVars
  <2> QED
    BY <1>2, <2>1, <2>2, <2>3 DEF Next
<1> QED
  BY <1>1, <1>2, InvHolds, PTL DEF Spec

(***************************************************************************)
(* A frame without payload.                                                *)
(***************************************************************************)
\* The payloadLength of 0 that onSocketRecv takes for an incomplete frame is read
\* again with every chunk, and nothing behind it ever is.
THEOREM StaysDeaf == Spec => DeafForEver
<1>1. ASSUME Inv, Deaf, [Next]_vars PROVE fate' = fate /\ Deaf'
  <2>0. /\ stream' = stream /\ Last' = Last
        /\ next \in 1..Last /\ End(stream'[next]) <= received'
    BY <1>1, StaysArrived, AtHead DEF Deaf, Arrived
  <2>1. SUFFICES ASSUME ~(next' = next /\ state' = state /\ fate' = fate) PROVE FALSE
    BY <1>1, <2>0 DEF Deaf, Arrived
  <2>2. CASE \E n \in 1..Total : Receive(n)
    BY <1>1, <2>1, <2>2
       DEF Deaf, Receive, StoreShort, StartLoop, EndConnection, AnswerPing
  <2>3. CASE ReadFrame
    <3>1. from <= Position(next)
      BY <1>1 DEF Inv, Placed
    <3>2. ~Throws(stream[next])
      BY <1>1, <3>1, WholeIsRead DEF Deaf
    <3>3. stream[next].len = 0
      BY <1>1 DEF Deaf
    <3> QED
      BY <2>1, <2>3, <3>2, <3>3
         DEF ReadFrame, Terminate, WaitForMore, WaitUnmasked, WaitEmpty, HandOn, Store
  <2>4. CASE UNCHANGED vars
    BY <2>1, <2>4 DEF vars, readerVars
  <2> QED
    BY <1>1, <2>2, <2>3, <2>4 DEF Next
<1>2. Inv /\ [Next]_vars => [Deaf => fate' = fate /\ Deaf']_vars
  BY <1>1
<1> QED
  BY <1>2, InvHolds, PTL DEF Spec, DeafForEver

(***************************************************************************)
(* What is dropped.                                                        *)
(***************************************************************************)
\* A frame that has been settled keeps its fate.
LEMMA FateKept ==
  ASSUME Inv, [Next]_vars, NEW i \in 1..Last, fate[i] # "coming"
  PROVE  fate'[i] = fate[i]
<1>1. fate \in [1..Last -> Fates] /\ next \in 1..(Last + 1) /\ Last \in Nat
      /\ (i < next \/ state = "closed")
  BY Positions DEF Inv, TypeOK, Settled
<1>2. CASE \E n \in 1..Total : Receive(n)
  <2>1. state = "open" /\ i < next
    BY <1>1, <1>2 DEF Receive
  <2> QED
    BY <1>1, <1>2, <2>1 DEF Receive, StoreShort, StartLoop, EndConnection, AnswerPing
<1>3. CASE ReadFrame
  <2>1. state = "open" /\ i < next
    BY <1>1, <1>3 DEF ReadFrame, Inv, Placed
  <2> QED
    BY <1>1, <1>3, <2>1
       DEF ReadFrame, Terminate, WaitForMore, WaitUnmasked, WaitEmpty, HandOn, Store
<1>4. CASE UNCHANGED vars
  BY <1>4 DEF vars, readerVars
<1> QED
  BY <1>2, <1>3, <1>4 DEF Next

\* Only the early return behind pong() drops frames, those that came with the ping.
THEOREM DroppedWithPing == Spec => []DroppedBehindPing
<1>1. Init => DroppedBehindPing
  BY DEF Init, DroppedBehindPing, Last
<1>2. ASSUME Inv, DroppedBehindPing, [Next]_vars PROVE DroppedBehindPing'
  <2>0. stream' = stream /\ Last' = Last /\ Last \in Nat
        /\ fate \in [1..Last -> Fates] /\ next \in 1..(Last + 1)
    BY <1>2, StaysArrived, Positions DEF Inv, TypeOK
  <2>1. SUFFICES ASSUME NEW i \in 1..Last, fate'[i] = "dropped"
                 PROVE  \E p \in 1..(i - 1) :
                          /\ stream[p].kind = "ping" /\ fate'[p] = "answered"
                          /\ \A j \in (p + 1)..i : fate'[j] = "dropped"
    BY <2>0 DEF DroppedBehindPing
  <2>2. CASE fate[i] = "dropped"
    <3>1. PICK p \in 1..(i - 1) : /\ stream[p].kind = "ping" /\ fate[p] = "answered"
                                  /\ \A j \in (p + 1)..i : fate[j] = "dropped"
      BY <1>2, <2>2 DEF DroppedBehindPing
    <3>2. fate'[p] = "answered"
      BY <1>2, <2>0, <3>1, FateKept
    <3>3. \A j \in (p + 1)..i : fate'[j] = "dropped"
      BY <1>2, <2>0, <3>1, FateKept
    <3> QED
      BY <3>1, <3>2, <3>3
  <2>3. CASE fate[i] # "dropped"
    <3>1. CASE \E n \in 1..Total : Receive(n)
      <4>1. AnswerPing /\ state = "open"
        BY <2>0, <2>1, <2>3, <3>1 DEF Receive, StoreShort, StartLoop, EndConnection
      <4>2. PICK k \in (next + 1)..(Last + 1) :
              fate' = [j \in 1..Last |->
                         IF j = next THEN "answered"
                         ELSE IF j \in next..(k - 1) THEN "dropped" ELSE fate[j]]
        BY <2>1, <2>3, <4>1 DEF AnswerPing
      <4>3. next \in 1..(i - 1) /\ i \in (next + 1)..(k - 1) /\ next \in 1..Last
        BY <2>0, <2>1, <2>3, <4>2
      <4>4. fate'[next] = "answered" /\ \A j \in (next + 1)..i : fate'[j] = "dropped"
        BY <2>0, <4>2, <4>3
      <4>5. stream[next].kind = "ping"
        BY <4>1 DEF AnswerPing
      <4> QED
        BY <4>3, <4>4, <4>5
    <3>2. CASE ReadFrame
      BY <2>0, <2>1, <2>3, <3>2
         DEF ReadFrame, Terminate, WaitForMore, WaitUnmasked, WaitEmpty, HandOn, Store
    <3>3. CASE UNCHANGED vars
      BY <2>1, <2>3, <3>3 DEF vars, readerVars
    <3> QED
      BY <1>2, <3>1, <3>2, <3>3 DEF Next
  <2> QED
    BY <2>2, <2>3
<1> QED
  BY <1>1, <1>2, InvHolds, PTL DEF Spec

(***************************************************************************)
(* The refinement.                                                         *)
(***************************************************************************)
\* onSocketRecv and readFrame keep what FrameChannel promises: frames whole, in order,
\* at most once.
THEOREM ReaderIsChannel == Spec => ImplementsChannel
<1>1. Init => Channel!Init
  <2> SUFFICES ASSUME Init PROVE Channel!Init
    OBVIOUS
  <2>1. \A i \in 1..Last : stream[i] \in Frames
    BY Positions DEF Init
  <2>2. \A i \in 1..Last : ~Arrived(i)
    BY <2>1, FrameSizes, SMTT(30) DEF Init, Arrived
  <2>3. \A i \in 1..Last : fate[i] = "coming"
    BY DEF Init, Last
  <2> QED
    BY <2>2, <2>3 DEF Init, Channel!Init
<1>2. ASSUME Inv, [Next]_vars PROVE [Channel!Next]_(Channel!vars)
  <2> DEFINE whole == {i \in 1..Last : Arrived(i)}
             handed == {i \in 1..Last : fate[i] \in {"handed", "garbled"}}
  <2>0. /\ stream' = stream /\ Last' = Last /\ Last \in Nat
        /\ received \in Nat /\ received' \in Nat /\ received' >= received
        /\ fate \in [1..Last -> Fates] /\ next \in 1..(Last + 1)
    BY <1>2, StaysArrived, Positions DEF Inv, TypeOK
  <2>1. whole \subseteq whole'
    BY <1>2, <2>0, StaysArrived DEF Arrived
  <2>2. CASE next' = next /\ fate' = fate
    <3>1. handed' = handed
      BY <2>0, <2>2
    <3> QED
      BY <2>1, <2>2, <3>1 DEF Channel!Next, Channel!Arrive
  <2>3. CASE \E n \in 1..Total : Receive(n)
    <3>1. state = "open"
      BY <2>3 DEF Receive
    <3>2. \A i \in 1..Last : i >= next => fate[i] = "coming"
      BY <1>2, <2>0, <3>1 DEF Inv, Settled
    <3>3. CASE EndConnection
      <4>1. next' = next /\ \A i \in 1..Last : fate'[i] \in {"handed", "garbled"}
                                         <=> fate[i] \in {"handed", "garbled"}
        BY <2>0, <3>2, <3>3 DEF EndConnection
      <4>2. handed' = handed
        BY <2>0, <4>1
      <4> QED
        BY <2>1, <4>1, <4>2 DEF Channel!Next, Channel!Arrive
    <3>4. ASSUME NEW k \in (next + 1)..(Last + 1), Position(k) = received', next' = k,
                 fate' = [j \in 1..Last |->
                            IF j = next THEN "answered"
                            ELSE IF j \in next..(k - 1) THEN "dropped" ELSE fate[j]]
          PROVE  [Channel!Next]_(Channel!vars)
      <4>1. \A i \in 1..Last : fate'[i] \in {"handed", "garbled"}
                            <=> fate[i] \in {"handed", "garbled"}
        BY <2>0, <3>2, <3>4
      <4>2. handed' = handed
        BY <2>0, <4>1
      <4>3. stream \in Streams
        BY <1>2 DEF Inv, TypeOK
      <4>4. \A j \in next..(k - 1) : j \in 1..Last /\ End(stream[j]) <= received'
        BY <2>0, <3>4, <4>3, Positions, SMTT(30)
      <4>5. next..(next' - 1) \subseteq whole'
        BY <2>0, <3>4, <4>4 DEF Arrived
      <4>6. next' > next
        BY <2>0, <3>4
      <4> QED
        BY <2>1, <4>2, <4>5, <4>6 DEF Channel!Next, Channel!GiveUp
    <3> QED
      BY <2>2, <2>3, <3>3, <3>4 DEF Receive, StoreShort, StartLoop, AnswerPing
  <2>4. CASE ReadFrame
    <3>1. CASE HandOn(stream[next])
      <4>1. /\ next \in 1..Last /\ received' = received
            /\ next' = next + 1
            /\ fate' = [fate EXCEPT ![next] = IF spoilt THEN "garbled" ELSE "handed"]
            /\ ~Incomplete(stream[next])
        BY <1>2, <2>0, <2>4, <3>1 DEF ReadFrame, HandOn, Inv, Placed
      <4>2. next \in whole
        <5>1. stream[next] \in Frames
          BY <1>2, <4>1, Positions DEF Inv, TypeOK
        <5>2. End(stream[next]) <= received
          <6>1. /\ End(stream[next]) = Payload(stream[next]) + stream[next].len
                /\ End(stream[next]) \in Nat
            BY <5>1, FrameSizes
          <6> QED
            BY <2>0, <4>1, <6>1 DEF Incomplete
        <5> QED
          BY <4>1, <5>2 DEF Arrived
      <4>3. whole' = whole
        BY <2>0, <4>1 DEF Arrived
      <4>4. handed' = handed \union {next}
        BY <2>0, <4>1
      <4> QED
        BY <4>1, <4>2, <4>3, <4>4 DEF Channel!Next, Channel!Hand
    <3>2. CASE ~HandOn(stream[next])
      BY <2>2, <2>4, <3>2
         DEF ReadFrame, Terminate, WaitForMore, WaitUnmasked, WaitEmpty, Store
    <3> QED
      BY <3>1, <3>2
  <2>5. CASE UNCHANGED vars
    BY <2>2, <2>5 DEF vars, readerVars
  <2> QED
    BY <1>2, <2>3, <2>4, <2>5 DEF Next
<1> QED
  BY <1>1, <1>2, InvHolds, PTL DEF Spec, ImplementsChannel, Channel!Spec
=============================================================================
