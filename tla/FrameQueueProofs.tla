--------------------------- MODULE FrameQueueProofs ---------------------------
(***************************************************************************)
(* Proofs about FrameQueue, for any viewers and any number of pictures.    *)
(*                                                                         *)
(* The inductive invariant IInv adds to the types                          *)
(*   Filled   what stFrame holds at each step of the capture thread,       *)
(*   Ordered  that everything an encoder was told of or has read is at     *)
(*            most as new as the Store in the queue,                       *)
(*   OnTime   where an encoder stands that is not late: it has nothing to  *)
(*            do while the queue changes, and has not read since clear     *)
(*            when its turn comes.                                         *)
(***************************************************************************)
EXTENDS FrameQueue, TLAPS

Rest == {"sleep", "parse", "ended"}

Filled ==
  /\ m_params <= pictures
  /\ pc = "params" => m_params < pictures
  /\ pc = "push" => ncount = 0
  /\ pc \in {"params", "clear", "push"} => queue[0].picture < pictures
  /\ pc \in {"post"} \union Rest =>
       /\ queue[0] = [picture |-> pictures, params |-> m_params]
       /\ pictures > 0 => ncount = 1

Ordered ==
  \A e \in Encoders :
    /\ taken[e] <= posted[e] /\ posted[e] <= queue[0].picture
    /\ pc = "post" => posted[e] < pictures
    /\ sent[e].picture <= queue[0].picture
    /\ enc[e] # "idle" => taken[e] > 0
    /\ enc[e] = "copy" => /\ taken[e] <= payload[e].picture
                          /\ sent[e].picture <= payload[e].picture
                          /\ payload[e].picture <= queue[0].picture
    /\ sink[e] = "gone" => enc[e] = "idle"

OnTime ==
  \A e \in Encoders \ late :
    /\ Behind(e) => pc \in Rest /\ posted[e] = pictures
    /\ pc \in {"push", "post"} => mapIt[e] = 0
    /\ enc[e] # "idle" => taken[e] = pictures
    /\ enc[e] = "encode" \/ taken[e] < posted[e] => mapIt[e] = 0
    /\ enc[e] = "copy" => payload[e] = [picture |-> pictures, params |-> m_params]

IInv == TypeOK /\ Filled /\ Ordered /\ OnTime /\ OnTimeIsExact

LEMMA InitIInv == Init => IInv
BY PicturesAssumption, SMTT(30)
DEF Init, IInv, TypeOK, Filled, Ordered, OnTime, OnTimeIsExact, Behind, Stores, NoStore, Pass,
    NoFault, Rest

USE DEF captureVars, queueVars, viewerVars, encVars, Capture, InPass, Encoder, CountRead, NoFault,
        Rest, Pass

(***************************************************************************)
(* The capture thread.                                                     *)
(***************************************************************************)
LEMMA CaptureStepIInv ==
  ASSUME IInv, CaptureStep
  PROVE  IInv'
<1> USE PicturesAssumption
<1> USE DEF IInv
<1>1. CASE BeginPass \/ EndThread \/ EndPass
  <2>1. TypeOK' /\ Filled' /\ Ordered'
    BY <1>1 DEF BeginPass, EndThread, EndPass, TypeOK, Filled, Ordered
  <2>2. OnTime'
    BY <1>1 DEF BeginPass, EndThread, EndPass, OnTime, Behind
  <2>3. OnTimeIsExact'
    BY <1>1 DEF BeginPass, EndThread, EndPass, OnTimeIsExact
  <2> QED
    BY <2>1, <2>2, <2>3
<1>2. CASE Picture
  <2>1. TypeOK' /\ Filled'
    BY <1>2, SMTT(30) DEF Picture, TypeOK, Filled, Stores
  <2>2. Ordered'
    BY <1>2, SMTT(30) DEF Picture, TypeOK, Filled, Ordered, Stores
  <2>3. OnTime' /\ OnTimeIsExact'
    <3> SUFFICES ASSUME NEW e \in Encoders, ~Behind(e)
                 PROVE  /\ ~(posted'[e] > taken'[e]) /\ enc'[e] = "idle"
                        /\ taken'[e] # pictures' /\ taken'[e] = posted'[e]
                        /\ pc' \in {"params", "clear"} /\ fault' = NoFault
      BY <1>2, SMTT(30) DEF Picture, OnTime, OnTimeIsExact, Behind
    <3>1. enc[e] = "idle" /\ taken[e] = posted[e] /\ taken[e] <= pictures
      <4>1. pc = "parse"
        BY <1>2 DEF Picture
      <4>2. queue[0].picture = pictures
        BY <4>1 DEF Filled
      <4>3. taken[e] \in Nat /\ posted[e] \in Nat /\ pictures \in Nat
        BY DEF TypeOK
      <4>4. enc[e] = "idle" /\ ~(posted[e] > taken[e])
        BY DEF Behind
      <4>5. taken[e] <= posted[e] /\ posted[e] <= queue[0].picture
        BY DEF Ordered
      <4> QED
        BY <4>2, <4>3, <4>4, <4>5
    <3>2. /\ pictures' = pictures + 1 /\ pc' \in {"params", "clear"} /\ fault' = NoFault
          /\ taken' = taken /\ enc' = enc /\ posted' = posted
      BY <1>2 DEF Picture
    <3>3. /\ taken'[e] = posted'[e] /\ enc'[e] = "idle" /\ taken'[e] # pictures'
          /\ ~(posted'[e] > taken'[e])
      BY <3>1, <3>2 DEF TypeOK
    <3> QED
      BY <3>2, <3>3
  <2> QED
    BY <2>1, <2>2, <2>3
<1>3. CASE PushParams
  BY <1>3, SMTT(30) DEF PushParams, TypeOK, Filled, Ordered, OnTime, OnTimeIsExact, Behind, Stores
<1>4. CASE Clear
  BY <1>4, SMTT(30) DEF Clear, TypeOK, Filled, Ordered, OnTime, OnTimeIsExact, Behind, Stores
<1>5. CASE Push
  <2>1. /\ queue' = [queue EXCEPT ![0] = [picture |-> pictures, params |-> m_params]]
        /\ ncount' = 1
    BY <1>5 DEF Push, Filled
  <2>2. TypeOK' /\ Filled'
    BY <1>5, <2>1, SMTT(30) DEF Push, TypeOK, Filled, Stores
  <2>3. Ordered'
    BY <1>5, <2>1, SMTT(30) DEF Push, TypeOK, Filled, Ordered, Stores
  <2>4. OnTime'
    BY <1>5 DEF Push, OnTime, Behind
  <2>5. OnTimeIsExact'
    BY <1>5 DEF Push, OnTimeIsExact
  <2> QED
    BY <2>2, <2>3, <2>4, <2>5
<1>6. CASE Post
  <2>1. TypeOK' /\ Filled'
    BY <1>6, SMTT(30) DEF Post, TypeOK, Filled, Stores
  <2>2. Ordered'
    BY <1>6, SMTT(30) DEF Post, TypeOK, Filled, Ordered, Stores
  <2>3. OnTime' /\ OnTimeIsExact'
    BY <1>6, SMTT(30) DEF Post, TypeOK, Ordered, OnTime, OnTimeIsExact, Behind
  <2> QED
    BY <2>1, <2>2, <2>3
<1>7. CASE CaptureDangles
  BY <1>7, SMTT(30) DEF CaptureDangles, TypeOK, Filled, Ordered, OnTime, OnTimeIsExact, Behind
<1> QED
  BY <1>1, <1>2, <1>3, <1>4, <1>5, <1>6, <1>7 DEF CaptureStep

(***************************************************************************)
(* The encoders.                                                           *)
(***************************************************************************)
\* What next() finds is the Store at index 0.
LEMMA FoundFirst ==
  ASSUME IInv, NEW e \in Encoders, Found(e)
  PROVE  mapIt[e] = 0
BY DEF Found, Reached, IInv, TypeOK

\* An encoder that is on time finds the picture it was called for.
LEMMA OnTimeFinds ==
  ASSUME IInv, NEW e \in Encoders \ late, enc[e] = "encode"
  PROVE  /\ Found(e) /\ ~IsNull(e)
         /\ queue[0] = [picture |-> pictures, params |-> m_params]
         /\ pc \in Rest
BY SMTT(30) DEF Found, IsNull, Reached, IInv, TypeOK, Filled, Ordered, OnTime, Behind, NoStore

LEMMA EncoderStepIInv ==
  ASSUME IInv, NEW e \in Encoders, EncoderStep(e)
  PROVE  IInv'
<1> USE PicturesAssumption
<1> USE DEF IInv
<1>1. CASE Take(e)
  BY <1>1, SMTT(30) DEF Take, TypeOK, Filled, Ordered, OnTime, OnTimeIsExact, Behind
<1>2. CASE Next_(e)
  <2>1. mapIt[e] = 0 /\ queue[0] \in Stores
    BY <1>2, FoundFirst DEF Next_, TypeOK
  <2>2. TypeOK' /\ Filled' /\ Ordered'
    BY <1>2, <2>1, SMTT(30) DEF Next_, TypeOK, Filled, Ordered, Stores
  <2>3. OnTime'
    BY <1>2, <2>1, SMTT(30) DEF Next_, TypeOK, OnTime, Behind
  <2>4. OnTimeIsExact'
    <3>1. e \notin late => queue[0] = [picture |-> pictures, params |-> m_params]
      BY <1>2, OnTimeFinds DEF Next_
    <3> QED
      <4>1. e \notin late => sent'[e] = [picture |-> pictures, fits |-> TRUE]
        <5>1. e \notin late => queue[mapIt[e]].picture = pictures
          BY <2>1, <3>1
        <5>2. sent'[e] = [picture |-> queue[mapIt[e]].picture, fits |-> TRUE]
          BY <1>2 DEF Next_, TypeOK
        <5> QED
          BY <5>1, <5>2
      <4>2. fault' = NoFault /\ pictures' = pictures /\ taken' = taken /\ late' = late
        BY <1>2 DEF Next_
      <4>3. \A f \in Encoders \ {e} : sent'[f] = sent[f] /\ enc'[f] = enc[f]
        BY <1>2 DEF Next_, TypeOK
      <4> QED
        BY <4>1, <4>2, <4>3 DEF OnTimeIsExact
  <2> QED
    BY <2>2, <2>3, <2>4
<1>3. CASE Key(e)
  <2>1. mapIt[e] = 0 /\ queue[0] \in Stores
    BY <1>3, FoundFirst DEF Key, TypeOK
  <2>2. TypeOK' /\ Filled' /\ Ordered'
    BY <1>3, <2>1, SMTT(30) DEF Key, TypeOK, Filled, Ordered, Stores
  <2>3. OnTime' /\ OnTimeIsExact'
    BY <1>3, <2>1, OnTimeFinds, SMTT(30) DEF Key, TypeOK, OnTime, OnTimeIsExact, Behind
  <2> QED
    BY <2>2, <2>3
<1>4. CASE CopyParams(e)
  <2> PICK p \in IF pc = "params" THEN {m_params, m_params + 1, Torn} ELSE {m_params} :
        sent' = [sent EXCEPT ![e] = [picture |-> payload[e].picture,
                                     fits |-> p = payload[e].params]]
    BY <1>4 DEF CopyParams
  <2>1. (p = payload[e].params) \in BOOLEAN
    OBVIOUS
  <2>2. TypeOK' /\ Filled' /\ Ordered'
    BY <1>4, <2>1, SMTT(30) DEF CopyParams, TypeOK, Filled, Ordered, Stores, NoStore
  <2>3. e \notin late => /\ p = payload[e].params
                         /\ payload[e] = [picture |-> pictures, params |-> m_params]
    BY <1>4 DEF CopyParams, OnTime, Behind
  <2>4. OnTime'
    BY <1>4, SMTT(30) DEF CopyParams, TypeOK, OnTime, Behind
  <2>5. OnTimeIsExact'
    <3>1. e \notin late => sent'[e] = [picture |-> pictures, fits |-> TRUE]
      <4>1. e \in late \/ ((p = payload[e].params) = TRUE /\ payload[e].picture = pictures)
        BY <2>3
      <4>2. sent'[e] = [picture |-> payload[e].picture, fits |-> p = payload[e].params]
        BY DEF TypeOK
      <4> QED
        BY <4>1, <4>2, Zenon
    <3>2. fault' = NoFault /\ pictures' = pictures /\ taken' = taken /\ late' = late
      BY <1>4 DEF CopyParams
    <3>3. \A f \in Encoders \ {e} : sent'[f] = sent[f] /\ enc'[f] = enc[f]
      BY <1>4 DEF CopyParams, TypeOK
    <3> QED
      BY <3>1, <3>2, <3>3 DEF OnTimeIsExact
  <2> QED
    BY <2>2, <2>4, <2>5
<1>5. CASE ReadNothing(e)
  <2>1. e \in late
    BY <1>5, OnTimeFinds DEF ReadNothing
  <2> QED
    BY <1>5, <2>1, SMTT(30) DEF ReadNothing, TypeOK, Filled, Ordered, OnTime, OnTimeIsExact, Behind
<1>6. CASE ReadNull(e)
  <2>1. e \in late
    BY <1>6, OnTimeFinds DEF ReadNull
  <2> QED
    BY <1>6, <2>1, SMTT(30) DEF ReadNull, TypeOK, Filled, Ordered, OnTime, OnTimeIsExact, Behind
<1>7. CASE EncoderDangles(e)
  BY <1>7, SMTT(30) DEF EncoderDangles, TypeOK, Filled, Ordered, OnTime, OnTimeIsExact, Behind
<1> QED
  BY <1>1, <1>2, <1>3, <1>4, <1>5, <1>6, <1>7 DEF EncoderStep

LEMMA LoopStepIInv ==
  ASSUME IInv, LoopStep
  PROVE  IInv'
<1>1. fault' = fault /\ UNCHANGED <<captureVars, queueVars, posted, encVars, late>>
  BY DEF LoopStep, AddSink, RemoveSink, DeletePeer, StopLiveThread, DeleteSource
<1>2. TypeOK' /\ \A e \in Encoders : sink'[e] = "gone" => sink[e] = "gone" \/ enc[e] = "idle"
  <2>1. /\ sink' \in [Encoders -> {"none", "added", "removed", "gone"}]
        /\ \A e \in Encoders : sink'[e] = "gone" => sink[e] = "gone" \/ enc[e] = "idle"
    <3>1. CASE \E e \in Encoders : AddSink(e) \/ RemoveSink(e)
      BY <3>1 DEF AddSink, RemoveSink, IInv, TypeOK
    <3>2. CASE \E e \in Encoders : DeletePeer(e)
      BY <3>2 DEF DeletePeer, IInv, TypeOK
    <3>3. CASE sink' = sink
      BY <3>3 DEF IInv, TypeOK
    <3> QED
      BY <3>1, <3>2, <3>3 DEF LoopStep, StopLiveThread, DeleteSource
  <2>2. source' \in {"live", "stopped", "deleted"}
    BY DEF LoopStep, AddSink, RemoveSink, DeletePeer, StopLiveThread, DeleteSource, IInv, TypeOK
  <2> QED
    BY <1>1, <2>1, <2>2 DEF IInv, TypeOK
<1>3. Filled' /\ Ordered'
  BY <1>1, <1>2 DEF IInv, Filled, Ordered
<1>4. OnTime' /\ OnTimeIsExact'
  BY <1>1 DEF IInv, OnTime, OnTimeIsExact, Behind
<1> QED
  BY <1>2, <1>3, <1>4 DEF IInv

LEMMA NextIInv == IInv /\ [Next]_vars => IInv'
<1> SUFFICES ASSUME IInv, [Next]_vars PROVE IInv'
  OBVIOUS
<1>1. CASE Next
  BY <1>1, CaptureStepIInv, EncoderStepIInv, LoopStepIInv DEF Next
<1>2. CASE UNCHANGED vars
  BY <1>2 DEF vars, IInv, TypeOK, Filled, Ordered, OnTime, OnTimeIsExact, Behind
<1> QED
  BY <1>1, <1>2

\* The inductive invariant.
THEOREM IInvHolds == Spec => []IInv
BY InitIInv, NextIInv, PTL DEF Spec

(***************************************************************************)
(* The properties.                                                         *)
(***************************************************************************)
\* Every variable stays in its range; stFrame never holds a second picture.
THEOREM TypeCorrect == Spec => []TypeOK
BY IInvHolds, PTL DEF IInv

\* An encoder that keeps up delivers every picture, with its own parameter sets, and
\* reads no null pointer.
THEOREM InTimeExact == Spec => []OnTimeIsExact
BY IInvHolds, PTL DEF IInv

\* No encoder delivers an older picture than it was called for or has delivered.
THEOREM PicturesAdvance == Spec => NeverBackward
<1>1. ASSUME IInv, [Next]_vars, NEW e \in Encoders, sent'[e] # sent[e]
      PROVE  sent'[e].picture >= taken[e] /\ sent'[e].picture >= sent[e].picture
  <2>1. CASE Next_(e)
    BY <1>1, <2>1, FoundFirst, SMTT(30) DEF Next_, IInv, TypeOK, Ordered, Stores
  <2>2. CASE CopyParams(e)
    BY <1>1, <2>2, SMTT(30) DEF CopyParams, IInv, TypeOK, Ordered, Stores
  <2>3. CASE CaptureStep
    BY <1>1, <2>3 DEF CaptureStep, BeginPass, EndThread, EndPass, Picture, PushParams, Clear, Push,
       Post, CaptureDangles
  <2>4. CASE LoopStep
    BY <1>1, <2>4 DEF LoopStep, AddSink, RemoveSink, DeletePeer, StopLiveThread, DeleteSource
  <2>5. ASSUME NEW f \in Encoders, EncoderStep(f) PROVE f = e /\ (Next_(e) \/ CopyParams(e))
    BY <1>1, <2>5, SMTT(30) DEF EncoderStep, Take, Next_, Key, CopyParams, ReadNothing, ReadNull,
       EncoderDangles, IInv, TypeOK
  <2> QED
    BY <1>1, <2>1, <2>2, <2>3, <2>4, <2>5 DEF Next, vars
<1>2. IInv /\ [Next]_vars =>
        [\A e \in Encoders : sent'[e] # sent[e] =>
           sent'[e].picture >= taken[e] /\ sent'[e].picture >= sent[e].picture]_vars
  BY <1>1
<1> QED
  BY <1>2, IInvHolds, PTL DEF Spec, NeverBackward

\* A source deleted at rest is not used again, by its thread or by an encoder.
THEOREM RestIsFinal == Spec => QuietForEver
<1>1. ASSUME IInv, [Next]_vars, AtRest PROVE AtRest' /\ fault' = fault
  <2>1. CASE CaptureStep
    BY <1>1, <2>1 DEF CaptureStep, BeginPass, EndThread, EndPass, Picture, PushParams, Clear, Push,
       Post, CaptureDangles, AtRest, Behind
  <2>2. CASE LoopStep
    BY <1>1, <2>2 DEF LoopStep, AddSink, RemoveSink, DeletePeer, StopLiveThread, DeleteSource, AtRest,
       Behind, LoopFree, IInv, TypeOK
  <2>3. ASSUME NEW e \in Encoders, EncoderStep(e) PROVE FALSE
    BY <1>1, <2>3, SMTT(30) DEF EncoderStep, Take, Next_, Key, CopyParams, ReadNothing, ReadNull,
       EncoderDangles, AtRest, Behind, IInv, TypeOK, Ordered
  <2> QED
    BY <1>1, <2>1, <2>2, <2>3 DEF Next, vars, AtRest, Behind
<1> QED
  BY <1>1, IInvHolds, PTL DEF Spec, QuietForEver

(***************************************************************************)
(* What PictureArrives rests on, but for the fairness of the threads.      *)
(***************************************************************************)
\* Between two pictures, a viewer that was told of any was told of the last; one that
\* has not come yet was told of none.
ToldOfLast ==
  \A e \in Encoders :
    /\ sink[e] = "none" => posted[e] = 0
    /\ sink[e] = "added" /\ posted[e] > 0 /\ pc \in Rest => posted[e] = pictures

\* A viewer that was told of a picture it has not delivered has it in hand or waiting,
\* or the next one is on its way to it.
PictureComes ==
  \A e \in Encoders \ late :
    sink[e] = "added" /\ posted[e] > sent[e].picture /\ fault = NoFault
      => Behind(e) \/ pc \notin Rest

LEMMA LastIsTold == Spec => []ToldOfLast
<1>1. Init => ToldOfLast
  BY DEF Init, ToldOfLast
<1>2. IInv /\ ToldOfLast /\ [Next]_vars => ToldOfLast'
  <2> SUFFICES ASSUME IInv, ToldOfLast, [Next]_vars, NEW e \in Encoders
               PROVE  /\ sink'[e] = "none" => posted'[e] = 0
                      /\ sink'[e] = "added" /\ posted'[e] > 0 /\ pc' \in Rest
                           => posted'[e] = pictures'
    BY DEF ToldOfLast
  <2>1. CASE CaptureStep
    <3>1. CASE Post
      BY <3>1 DEF Post, IInv, TypeOK, ToldOfLast
    <3>2. CASE BeginPass \/ EndThread \/ EndPass \/ CaptureDangles
      BY <3>2 DEF BeginPass, EndThread, EndPass, CaptureDangles, ToldOfLast
    <3>3. CASE Picture \/ PushParams \/ Clear \/ Push
      BY <3>3 DEF Picture, PushParams, Clear, Push, ToldOfLast
    <3> QED
      BY <2>1, <3>1, <3>2, <3>3 DEF CaptureStep
  <2>2. CASE LoopStep
    <3>1. UNCHANGED <<pc, pictures, posted>>
      BY <2>2 DEF LoopStep, AddSink, RemoveSink, DeletePeer, StopLiveThread, DeleteSource
    <3>2. /\ sink'[e] = "none" => sink[e] = "none"
          /\ sink'[e] = "added" => sink[e] \in {"none", "added"}
      BY <2>2 DEF LoopStep, AddSink, RemoveSink, DeletePeer, StopLiveThread, DeleteSource, IInv, TypeOK
    <3> QED
      BY <3>1, <3>2 DEF ToldOfLast
  <2>3. CASE UNCHANGED <<pc, pictures, posted, sink>>
    BY <2>3 DEF ToldOfLast
  <2>4. ASSUME NEW f \in Encoders, EncoderStep(f) PROVE UNCHANGED <<pc, pictures, posted, sink>>
    BY <2>4 DEF EncoderStep, Take, Next_, Key, CopyParams, ReadNothing, ReadNull, EncoderDangles
  <2> QED
    BY <2>1, <2>2, <2>3, <2>4 DEF Next, vars
<1> QED
  BY <1>1, <1>2, IInvHolds, PTL DEF Spec

\* A viewer that keeps up never loses a picture it was told of: with nothing in hand and
\* none on its way, it has delivered the last it was told of.
THEOREM PictureNotLost == Spec => []PictureComes
<1>1. IInv /\ ToldOfLast => PictureComes
  <2> SUFFICES ASSUME IInv, ToldOfLast, NEW e \in Encoders \ late, sink[e] = "added", pc \in Rest,
                      posted[e] > sent[e].picture, ~Behind(e)
               PROVE  FALSE
    BY DEF PictureComes
  <2>1. posted[e] \in Nat /\ taken[e] \in Nat /\ sent[e].picture \in Nat /\ pictures \in Nat
    BY PicturesAssumption DEF IInv, TypeOK
  <2>2. posted[e] = pictures /\ taken[e] = pictures /\ enc[e] = "idle"
    BY <2>1 DEF Behind, ToldOfLast, IInv, Ordered
  <2>3. sent[e].picture = pictures
    BY <2>2 DEF IInv, OnTimeIsExact
  <2> QED
    BY <2>1, <2>2, <2>3
<1> QED
  BY <1>1, IInvHolds, LastIsTold, PTL
=============================================================================
