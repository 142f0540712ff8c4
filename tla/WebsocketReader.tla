--------------------------- MODULE WebsocketReader ---------------------------
(***************************************************************************)
(* The receiving side of an established websocket: what onSocketRecv and   *)
(* readFrame make of a stream of frames that arrives cut anywhere.         *)
(*                                                                         *)
(* A chunk is what one SSL_read gives; a position is a byte of the stream. *)
(* The buffer under work, and between chunks storeBuf, is the bytes from   *)
(* `from` to `received`.  The listener's callback is taken to leave the    *)
(* connection alone.                                                       *)
(***************************************************************************)
EXTENDS Integers, Sequences

CONSTANT Streams   \* what the other side may send: frames, one after the other

Kinds == {"data", "ping", "close"}   \* data stands for every other opcode
Frames == [at : Nat, kind : Kinds, len : Nat, masked : BOOLEAN]

(***************************************************************************)
(* The sizes of a frame.                                                   *)
(***************************************************************************)
\* The 7 bits after the mask bit.
LengthByte(f) == IF f.len < 126 THEN f.len ELSE IF f.len < 65536 THEN 126 ELSE 127

MaskLength(f) == IF f.masked THEN 4 ELSE 0
ExtendedLength(f) ==
  IF LengthByte(f) = 126 THEN 2 ELSE IF LengthByte(f) = 127 THEN 8 ELSE 0

PayloadOffset(f) == 2 + ExtendedLength(f) + MaskLength(f)
Payload(f) == f.at + PayloadOffset(f)
End(f) == Payload(f) + f.len

\* The bytes readFrame takes into header after the first two.
HeaderBytes_Full(f) == 12   \* mutant: always the whole header buffer

HeaderBytes(f) ==
  IF LengthByte(f) + MaskLength(f) < 12 THEN LengthByte(f) + MaskLength(f) ELSE 12

ASSUME StreamsAssumption ==
  \A s \in Streams :
    /\ s \in Seq(Frames)
    /\ s # <<>>
    /\ s[1].at = 0
    /\ \A i \in 1..(Len(s) - 1) : s[i + 1].at = End(s[i])
    /\ \A i, j \in 1..Len(s) : i < j => End(s[i]) <= s[j].at

VARIABLES
  stream,     \* the frames the other side sends
  received,   \* how many bytes have arrived
  from,       \* the first byte of buffer, and of storeBuf
  next,       \* the frame that starts at offset
  reading,    \* the loop of onSocketRecv is running
  short,      \* the last chunk was put aside for being short
  fate,       \* what became of each frame
  spoilt,     \* part of the next frame's payload was unmasked in place, and stored
  overrun,    \* bytes behind the buffer were unmasked with it
  state       \* "open", "closed", or why nothing is read any more

readerVars == <<received, from, next, reading, short, fate, spoilt, overrun, state>>
vars == <<stream, readerVars>>

Fates == {"coming", "handed", "garbled", "answered", "dropped", "ended"}

Last == Len(stream)
Total == End(stream[Last])

\* The byte after frame i - 1.
Position(i) == IF i > Last THEN Total ELSE stream[i].at

\* BitReader's limit and available() at the start of the next frame.
Limit == received - from
Available == received - Position(next)

Arrived(i) == End(stream[i]) <= received

Init ==
  /\ stream \in Streams
  /\ received = 0
  /\ from = 0
  /\ next = 1
  /\ reading = FALSE
  /\ short = FALSE
  /\ fate = [i \in 1..Len(stream) |-> "coming"]
  /\ spoilt = FALSE
  /\ overrun = FALSE
  /\ state = "open"

(***************************************************************************)
(* onSocketRecv, as far as its loop.                                       *)
(***************************************************************************)
\* Fewer than three bytes are only stored, whatever they complete.
StoreShort(n) ==
  /\ n < 3
  /\ short' = TRUE
  /\ UNCHANGED <<stream, from, next, reading, fate, spoilt, overrun, state>>

\* The switch on the opcode of the first frame of the buffer.
StartLoop ==
  /\ stream[next].kind = "data"
  /\ reading' = TRUE
  /\ UNCHANGED <<next, fate, spoilt, state>>

EndConnection ==
  /\ stream[next].kind = "close"
  /\ fate' = [fate EXCEPT ![next] = "ended"]
  /\ state' = "closed"
  /\ UNCHANGED <<next, reading, spoilt>>

\* pong() and return: the buffer goes with the ping, and what arrives next is taken
\* for the beginning of a frame.
AnswerPing ==
  /\ stream[next].kind = "ping"
  /\ \/ \E i \in (next + 1)..(Last + 1) :
          /\ Position(i) = received'
          /\ next' = i
          /\ fate' = [j \in 1..Last |->
                        IF j = next THEN "answered"
                        ELSE IF j \in next..(i - 1) THEN "dropped" ELSE fate[j]]
          /\ UNCHANGED state
     \/ /\ \A i \in (next + 1)..(Last + 1) : Position(i) # received'
        /\ state' = "out_of_step"
        /\ UNCHANGED <<next, fate>>
  /\ spoilt' = FALSE
  /\ UNCHANGED reading

Receive(n) ==
  /\ state = "open" /\ ~reading
  /\ received + n <= Total
  /\ received' = received + n
  /\ \/ StoreShort(n)
     \/ /\ n >= 3
        /\ short' = FALSE
        /\ from' = Position(next)
        /\ StartLoop \/ EndConnection \/ AnswerPing
        /\ UNCHANGED <<stream, overrun>>

(***************************************************************************)
(* readFrame, once for each turn of the loop.                              *)
(***************************************************************************)
\* BitReader::get throws what nobody catches: half of the first two bytes, or a
\* masked frame that ends before the payload length counted from the mask.
Throws(f) ==
  \/ Available < 2
  \/ LengthByte(f) <= Available - 2 /\ Available - 2 < HeaderBytes(f)

TooShort_AtTheEnd(f) ==   \* mutant: a frame that ends with the buffer is put aside
  LengthByte(f) >= Available - 2 \/ f.len > Limit

\* The returns before the payload is looked at.
TooShort(f) == LengthByte(f) > Available - 2 \/ f.len > Limit

Incomplete_NoHeader(f) == f.at + f.len > received   \* mutant: the header is not counted

Incomplete(f) == Payload(f) + f.len > received

Terminate(f) ==
  /\ Throws(f)
  /\ state' = "terminated"
  /\ reading' = FALSE
  /\ UNCHANGED <<next, fate, spoilt, overrun>>

Store_Nothing ==   \* mutant: a frame cut by the end of the buffer is not kept
  /\ reading' = FALSE
  /\ next' = next + 1
  /\ fate' = [fate EXCEPT ![next] = "dropped"]
  /\ UNCHANGED state

\* storeBuf takes the rest of the buffer.
Store ==
  /\ reading' = FALSE
  /\ UNCHANGED <<next, fate, state>>

WaitForMore(f) ==
  /\ ~Throws(f) /\ TooShort(f)
  /\ Store
  /\ UNCHANGED <<spoilt, overrun>>

WaitUnmasked_Plain(f) ==   \* mutant: the mask bit is not asked for
  /\ ~Throws(f) /\ ~TooShort(f) /\ Incomplete(f)
  /\ Store
  /\ spoilt' = TRUE
  /\ overrun' = TRUE

\* The payload is unmasked before it is known to be there.
WaitUnmasked(f) ==
  /\ ~Throws(f) /\ ~TooShort(f) /\ Incomplete(f)
  /\ Store
  /\ spoilt' = (spoilt \/ (f.masked /\ Payload(f) < received))
  /\ overrun' = (overrun \/ f.masked)

WaitEmpty_HandsOn(f) ==   \* mutant: a frame without payload is handed on
  /\ ~Throws(f) /\ ~TooShort(f) /\ ~Incomplete(f) /\ f.len = 0
  /\ fate' = [fate EXCEPT ![next] = "handed"]
  /\ next' = next + 1
  /\ reading' = (Position(next + 1) < received)
  /\ UNCHANGED <<spoilt, overrun, state>>

\* A payload of no bytes is taken for a frame that is not complete.
WaitEmpty(f) ==
  /\ ~Throws(f) /\ ~TooShort(f) /\ ~Incomplete(f) /\ f.len = 0
  /\ Store
  /\ UNCHANGED <<spoilt, overrun>>

HandOn_OneOnly(f) ==   \* mutant: a joined frame is left until the next chunk
  /\ ~Throws(f) /\ ~TooShort(f) /\ ~Incomplete(f) /\ f.len > 0
  /\ fate' = [fate EXCEPT ![next] = IF spoilt THEN "garbled" ELSE "handed"]
  /\ spoilt' = FALSE
  /\ next' = next + 1
  /\ reading' = FALSE
  /\ UNCHANGED <<overrun, state>>

HandOn(f) ==
  /\ ~Throws(f) /\ ~TooShort(f) /\ ~Incomplete(f) /\ f.len > 0
  /\ fate' = [fate EXCEPT ![next] = IF spoilt THEN "garbled" ELSE "handed"]
  /\ spoilt' = FALSE
  /\ next' = next + 1
  /\ reading' = (Position(next + 1) < received)
  /\ UNCHANGED <<overrun, state>>

ReadFrame ==
  /\ reading
  /\ LET f == stream[next]
     IN  Terminate(f) \/ WaitForMore(f) \/ WaitUnmasked(f) \/ WaitEmpty(f) \/ HandOn(f)
  /\ UNCHANGED <<stream, received, from, short>>

Next == (\E n \in 1..Total : Receive(n)) \/ ReadFrame

Spec == Init /\ [][Next]_vars

\* The loop runs on, and what was sent arrives.
Fairness == WF_vars(ReadFrame) /\ WF_vars(\E n \in 1..Total : Receive(n))

FairSpec == Spec /\ Fairness

(***************************************************************************)
(* Properties.                                                             *)
(***************************************************************************)
\* Every variable has its type.
TypeOK ==
  /\ stream \in Streams
  /\ received \in 0..Total
  /\ from \in 0..received
  /\ next \in 1..(Last + 1)
  /\ reading \in BOOLEAN
  /\ short \in BOOLEAN
  /\ fate \in [1..Last -> Fates]
  /\ spoilt \in BOOLEAN
  /\ overrun \in BOOLEAN
  /\ state \in {"open", "closed", "out_of_step", "terminated"}

\* The reader is a FrameChannel: frames reach the listener whole, in order, once.
Channel == INSTANCE FrameChannel WITH
  whole <- {i \in 1..Last : Arrived(i)},
  passed <- next,
  handed <- {i \in 1..Last : fate[i] \in {"handed", "garbled"}}

ImplementsChannel == Channel!Spec

\* Between chunks no frame that has arrived whole waits to be handed on, except
\* behind a last chunk of one or two bytes, which "do not make a frame", and
\* behind a frame without payload.
NotHeldBack ==
  state = "open" /\ ~reading /\ next <= Last /\ Arrived(next)
    => short \/ stream[next].len = 0

\* Once a frame without payload has arrived and is next, nothing is handed on, answered
\* or ended any more: a loss of hearing that the next chunks do not cure.
Deaf ==
  /\ state = "open" /\ next <= Last /\ Arrived(next)
  /\ stream[next].len = 0 /\ stream[next].kind = "data"
DeafForEver == [][Deaf => fate' = fate /\ Deaf']_vars

\* A frame that is not handed on was in the buffer of a ping, behind it.
DroppedBehindPing ==
  \A i \in 1..Last :
    fate[i] = "dropped" =>
      \E p \in 1..(i - 1) :
        /\ stream[p].kind = "ping" /\ fate[p] = "answered"
        /\ \A j \in (p + 1)..i : fate[j] = "dropped"

\* A payload is garbled, and memory behind the buffer written, only on a link with
\* masked frames: viewers of RestApi, never the signalling server.
OnlyMaskedGarbled ==
  (\A i \in 1..Last : ~stream[i].masked)
    => ~overrun /\ \A i \in 1..Last : fate[i] # "garbled"

\* Without masks the process ends only when a frame's first byte comes at the end
\* of a buffer with other frames in front of it; with one, also when a payload of
\* less than 12 bytes is cut within four bytes of its end.
TerminatedByCut ==
  state = "terminated" =>
    \/ Available = 1 /\ from < Position(next)
    \/ /\ stream[next].masked /\ stream[next].len < 12
       /\ stream[next].len + 2 <= Available
       /\ received < End(stream[next])

\* If the stream is data with payloads, unmasked, and no buffer is cut behind the
\* first byte of a frame, all of it but a short end reaches the listener.
PlainData == \A i \in 1..Last :
  stream[i].kind = "data" /\ stream[i].len > 0 /\ ~stream[i].masked
AllArrive ==
  PlainData ~> (received = Total /\ ~reading /\ (short \/ next > Last))
                 \/ state = "terminated"
=============================================================================
