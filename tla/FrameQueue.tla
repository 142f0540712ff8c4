------------------------------ MODULE FrameQueue ------------------------------
(***************************************************************************)
(* The way of a picture from the camera to its viewers.  LiveThread reads  *)
(* the stream and calls VideoPacketSource::run, which cuts it into         *)
(* pictures; NULLDecoder::runNULLEnc keeps the last intra picture in a     *)
(* stFrame and announces it to WebRTC with OnFrame.  What it announces     *)
(* holds no picture but a plain pointer to the stFrame: each viewer's      *)
(* NULLEncoder fetches the picture there, on its own queue, when its turn  *)
(* comes.                                                                  *)
(*                                                                         *)
(* Three kinds of thread meet: the capture thread, one encoder queue per   *)
(* viewer, and the libuv loop, which adds and removes viewers and destroys *)
(* the source with its last viewer.  stFrame's methods hold its lock; the  *)
(* parameter sets and the life of the source are not locked.               *)
(*                                                                         *)
(* One source and the viewers that come to it are modelled.  Pictures are  *)
(* numbered from 1; 0 is no picture.                                       *)
(***************************************************************************)
EXTENDS Integers

CONSTANTS
  Encoders,     \* the viewers' NULLEncoder objects
  MaxPictures   \* bound on the intra pictures of the stream

ASSUME PicturesAssumption == MaxPictures \in Nat

NoStore == [picture |-> 0, params |-> 0]
Torn    == -1    \* parameter sets copied while they are being replaced

VARIABLES
  pc,        \* the capture thread's next step
  pictures,  \* intra pictures parsed so far
  m_params,  \* number of parameter sets (m_sps, m_pps) stored so far
  queue,     \* stFrame: index -> Store, NoStore if there is none
  ncount,    \* stFrame: number of Stores pushed since clear
  mapIt,     \* stFrame: encoder -> number of reads since clear
  source,    \* "live", "stopped" (its thread is told to stop) or "deleted"
  sink,      \* encoder -> "none", "added", "removed" or "gone"
  posted,    \* encoder -> last picture posted to its queue
  taken,     \* encoder -> last picture its Encode was called for
  enc,       \* encoder -> "idle", "encode" or "copy"
  payload,   \* encoder -> the Store key() copied, NoStore outside of it
  sent,      \* encoder -> what it delivered last
  late,      \* encoders that had not finished when the last picture began
  fault      \* the first undefined access, and who made it

captureVars == <<pc, pictures, m_params>>
queueVars   == <<queue, ncount, mapIt>>
viewerVars  == <<sink, posted>>
encVars     == <<taken, enc, payload, sent>>
vars == <<captureVars, queueVars, source, viewerVars, encVars, late, fault>>

Pass == {"parse", "params", "clear", "push", "post"}   \* inside VideoPacketSource::run
NoFault == [what |-> "none", who |-> "none"]

Init ==
  /\ pc = "sleep" /\ pictures = 0 /\ m_params = 0
  /\ queue = [n \in 0 .. 1 |-> NoStore] /\ ncount = 0
  /\ mapIt = [e \in Encoders |-> 0]
  /\ source = "live"
  /\ sink = [e \in Encoders |-> "none"] /\ posted = [e \in Encoders |-> 0]
  /\ taken = [e \in Encoders |-> 0] /\ enc = [e \in Encoders |-> "idle"]
  /\ payload = [e \in Encoders |-> NoStore]
  /\ sent = [e \in Encoders |-> [picture |-> 0, fits |-> TRUE]]
  /\ late = {}
  /\ fault = NoFault

\* An encoder that still has a picture to fetch or to send.
Behind(e) == enc[e] # "idle" \/ posted[e] > taken[e]

(***************************************************************************)
(* The capture thread                                                      *)
(***************************************************************************)
Capture(from, to) == fault = NoFault /\ pc = from /\ pc' = to

\* Inside run the thread uses the source and its decoder.
InPass(from, to) == Capture(from, to) /\ source # "deleted"

\* LiveThread::run tests stopped() once per pass and hands one chunk to the source.
BeginPass_Unasked ==    \* mutant: the stop flag is not looked at
  /\ Capture("sleep", "parse")
  /\ UNCHANGED <<pictures, m_params, queueVars, source, viewerVars, encVars, late, fault>>

BeginPass ==
  /\ Capture("sleep", "parse")
  /\ source = "live"
  /\ UNCHANGED <<pictures, m_params, queueVars, source, viewerVars, encVars, late, fault>>

EndThread ==
  /\ Capture("sleep", "ended")
  /\ source # "live"
  /\ UNCHANGED <<pictures, m_params, queueVars, source, viewerVars, encVars, late, fault>>

\* The parser has nothing more to give: run returns and the thread sleeps.
EndPass ==
  /\ Capture("parse", "sleep")
  /\ UNCHANGED <<pictures, m_params, queueVars, source, viewerVars, encVars, late, fault>>

\* The parser gives an intra picture, with or without parameter sets of its own.
\* Other pictures are dropped.
Picture ==
  /\ \E step \in {"params", "clear"} : InPass("parse", step)
  /\ pictures < MaxPictures
  /\ pictures' = pictures + 1
  /\ late' = {e \in Encoders : Behind(e)}
  /\ UNCHANGED <<m_params, queueVars, source, viewerVars, encVars, fault>>

\* pushsps and pushpps replace the sets without the lock; this is the end of it.
PushParams ==
  /\ InPass("params", "clear")
  /\ m_params' = m_params + 1
  /\ UNCHANGED <<pictures, queueVars, source, viewerVars, encVars, late, fault>>

Clear_KeepReads ==    \* mutant: the reads are not forgotten
  /\ InPass("clear", "push")
  /\ ncount' = 0
  /\ UNCHANGED <<pictures, m_params, queue, mapIt, source, viewerVars, encVars, late,
                 fault>>

Clear_KeepCount ==    \* mutant: the Stores are not forgotten
  /\ InPass("clear", "push")
  /\ mapIt' = [e \in Encoders |-> 0]
  /\ UNCHANGED <<pictures, m_params, queue, ncount, source, viewerVars, encVars, late,
                 fault>>

Clear ==
  /\ InPass("clear", "push")
  /\ mapIt' = [e \in Encoders |-> 0]
  /\ ncount' = 0
  /\ UNCHANGED <<pictures, m_params, queue, source, viewerVars, encVars, late, fault>>

\* The Store at this index is deleted and replaced in one locked section.
Push_Keep ==    \* mutant: a Store that is there stays
  /\ InPass("push", "post")
  /\ queue' = IF queue[ncount] # NoStore THEN queue
              ELSE [queue EXCEPT ![ncount] = [picture |-> pictures, params |-> m_params]]
  /\ ncount' = ncount + 1
  /\ UNCHANGED <<pictures, m_params, mapIt, source, viewerVars, encVars, late, fault>>

Push ==
  /\ InPass("push", "post")
  /\ queue' = [queue EXCEPT ![ncount] = [picture |-> pictures, params |-> m_params]]
  /\ ncount' = ncount + 1
  /\ UNCHANGED <<pictures, m_params, mapIt, source, viewerVars, encVars, late, fault>>

\* cb_frame: OnFrame posts the announcement to the encoder of every viewer.
Post ==
  /\ InPass("post", "parse")
  /\ posted' = [e \in Encoders |-> IF sink[e] = "added" THEN pictures ELSE posted[e]]
  /\ UNCHANGED <<pictures, m_params, queueVars, source, sink, encVars, late, fault>>

CaptureDangles ==
  /\ fault = NoFault
  /\ pc \in Pass /\ source = "deleted"
  /\ fault' = [what |-> "deleted", who |-> "capture"]
  /\ UNCHANGED <<captureVars, queueVars, source, viewerVars, encVars, late>>

(***************************************************************************)
(* The encoder of a viewer.  Of the pictures posted to it WebRTC gives it  *)
(* the last; NULLEncoder::Encode fetches the Store through the pointer.    *)
(***************************************************************************)
Take_Dropped(e) ==    \* mutant: native pictures are taken for muted ones
  /\ fault = NoFault
  /\ enc[e] = "idle" /\ posted[e] > taken[e] /\ sink[e] # "gone"
  /\ taken' = [taken EXCEPT ![e] = posted[e]]
  /\ UNCHANGED <<captureVars, queueVars, source, viewerVars, enc, payload, sent, late,
                 fault>>

Take(e) ==
  /\ fault = NoFault
  /\ enc[e] = "idle" /\ posted[e] > taken[e] /\ sink[e] # "gone"
  /\ taken' = [taken EXCEPT ![e] = posted[e]]
  /\ enc' = [enc EXCEPT ![e] = "encode"]
  /\ UNCHANGED <<captureVars, queueVars, source, viewerVars, payload, sent, late, fault>>

Encoder(e, at, to) ==
  /\ fault = NoFault /\ source # "deleted"
  /\ enc[e] = at
  /\ enc' = [enc EXCEPT ![e] = to]
  /\ UNCHANGED <<captureVars, queue, ncount, source, viewerVars, taken, late>>

\* stFrame::next: the n-th read since clear gets the n-th Store.  A missing entry of
\* the map is created as a null pointer and copied from.
Reached(e) == queue[0] # NoStore /\ mapIt[e] <= ncount
Found(e)   == Reached(e) /\ queue[mapIt[e]] # NoStore
IsNull(e)  == Reached(e) /\ queue[mapIt[e]] = NoStore

CountRead(e) == mapIt' = [mapIt EXCEPT ![e] = @ + 1]

\* A delta frame is asked for: the picture is delivered as it is.
Next_(e) ==
  /\ Encoder(e, "encode", "idle")
  /\ Found(e)
  /\ CountRead(e)
  /\ sent' = [sent EXCEPT ![e] = [picture |-> queue[mapIt[e]].picture, fits |-> TRUE]]
  /\ UNCHANGED <<payload, fault>>

\* A key frame is asked for: the parameter sets are put before the picture, after
\* the lock is given back.
Key(e) ==
  /\ Encoder(e, "encode", "copy")
  /\ Found(e)
  /\ CountRead(e)
  /\ payload' = [payload EXCEPT ![e] = queue[mapIt[e]]]
  /\ UNCHANGED <<sent, fault>>

CopyParams(e) ==
  /\ Encoder(e, "copy", "idle")
  /\ \E p \in IF pc = "params" THEN {m_params, m_params + 1, Torn} ELSE {m_params} :
       sent' = [sent EXCEPT ![e] = [picture |-> payload[e].picture,
                                    fits |-> p = payload[e].params]]
  /\ payload' = [payload EXCEPT ![e] = NoStore]
  /\ UNCHANGED <<mapIt, fault>>

\* "Not possible state", or no Store at all: nothing is delivered.
ReadNothing(e) ==
  /\ Encoder(e, "encode", "idle")
  /\ ~Found(e) /\ ~IsNull(e)
  /\ CountRead(e)
  /\ UNCHANGED <<payload, sent, fault>>

ReadNull(e) ==
  /\ Encoder(e, "encode", "idle")
  /\ IsNull(e)
  /\ CountRead(e)
  /\ fault' = [what |-> "null", who |-> e]
  /\ UNCHANGED <<payload, sent>>

EncoderDangles(e) ==
  /\ fault = NoFault
  /\ enc[e] # "idle" /\ source = "deleted"
  /\ fault' = [what |-> "deleted", who |-> e]
  /\ UNCHANGED <<captureVars, queueVars, source, viewerVars, encVars, late>>

(***************************************************************************)
(* The loop.  It closes one session at a time: the track is taken from the *)
(* connection, the source goes with its last viewer, and only then is the  *)
(* Peer deleted, with it the connection and its encoder.                   *)
(***************************************************************************)
Leaving(e) == sink[e] = "removed"
LoopFree == fault = NoFault /\ ~ \E e \in Encoders : Leaving(e)

AddSink(e) ==
  /\ LoopFree /\ source = "live"
  /\ sink[e] = "none"
  /\ sink' = [sink EXCEPT ![e] = "added"]
  /\ UNCHANGED <<captureVars, queueVars, source, posted, encVars, late, fault>>

RemoveSink(e) ==
  /\ LoopFree
  /\ sink[e] = "added"
  /\ sink' = [sink EXCEPT ![e] = "removed"]
  /\ UNCHANGED <<captureVars, queueVars, source, posted, encVars, late, fault>>

Watched == \E e \in Encoders : sink[e] = "added"

\* ~VideoPacketSource tells its thread to stop and does not wait for it.
StopLiveThread ==
  /\ fault = NoFault
  /\ source = "live" /\ ~Watched /\ \E e \in Encoders : Leaving(e)
  /\ source' = "stopped"
  /\ UNCHANGED <<captureVars, queueVars, viewerVars, encVars, late, fault>>

DeleteSource ==
  /\ fault = NoFault
  /\ source = "stopped"
  /\ source' = "deleted"
  /\ UNCHANGED <<captureVars, queueVars, viewerVars, encVars, late, fault>>

\* The connection's destruction waits for an Encode that is running.
DeletePeer(e) ==
  /\ fault = NoFault
  /\ Leaving(e)
  /\ Watched \/ source = "deleted"
  /\ enc[e] = "idle"
  /\ sink' = [sink EXCEPT ![e] = "gone"]
  /\ UNCHANGED <<captureVars, queueVars, source, posted, encVars, late, fault>>

(***************************************************************************)
(* The specification                                                       *)
(***************************************************************************)
CaptureStep == BeginPass \/ EndThread \/ EndPass \/ Picture \/ PushParams \/ Clear
                 \/ Push \/ Post \/ CaptureDangles
EncoderStep(e) == Take(e) \/ Next_(e) \/ Key(e) \/ CopyParams(e) \/ ReadNothing(e)
                    \/ ReadNull(e) \/ EncoderDangles(e)
LoopStep == \/ \E e \in Encoders : AddSink(e) \/ RemoveSink(e) \/ DeletePeer(e)
            \/ StopLiveThread
            \/ DeleteSource

Next == CaptureStep \/ LoopStep \/ \E e \in Encoders : EncoderStep(e)

Spec == Init /\ [][Next]_vars

\* The capture thread and the encoder queues are scheduled whenever they can run.
Fairness == WF_vars(CaptureStep) /\ \A e \in Encoders : WF_vars(EncoderStep(e))
FairSpec == Spec /\ Fairness

(***************************************************************************)
(* Properties                                                              *)
(***************************************************************************)
Stores == [picture : 0 .. MaxPictures, params : 0 .. MaxPictures]

\* Every variable stays in its range; stFrame never holds a second picture.
TypeOK ==
  /\ pc \in {"sleep", "ended"} \union Pass
  /\ pictures \in 0 .. MaxPictures /\ m_params \in 0 .. MaxPictures
  /\ queue \in [0 .. 1 -> Stores] /\ queue[1] = NoStore
  /\ ncount \in 0 .. 1
  /\ mapIt \in [Encoders -> Nat]
  /\ source \in {"live", "stopped", "deleted"}
  /\ sink \in [Encoders -> {"none", "added", "removed", "gone"}]
  /\ posted \in [Encoders -> 0 .. MaxPictures] /\ taken \in [Encoders -> 0 .. MaxPictures]
  /\ enc \in [Encoders -> {"idle", "encode", "copy"}]
  /\ payload \in [Encoders -> Stores]
  /\ sent \in [Encoders -> [picture : 0 .. MaxPictures, fits : BOOLEAN]]
  /\ late \in SUBSET Encoders
  /\ fault \in [what : {"none", "null", "deleted"}, who : {"none", "capture"} \union Encoders]

\* An encoder that had caught up before the last picture began delivers exactly that
\* picture, with its own parameter sets, and reads no null pointer, whatever the other
\* encoders do; one that fell behind is exact again from the next picture it is in
\* time for.
OnTimeIsExact ==
  \A e \in Encoders \ late :
    /\ ~(fault.who = e /\ fault.what = "null")
    /\ taken[e] = pictures /\ enc[e] = "idle" =>
         sent[e] = [picture |-> pictures, fits |-> TRUE]

\* Late or not, what an encoder delivers is never older than the picture it was called
\* for, nor than what it delivered before.
NeverBackward ==
  [][\A e \in Encoders : sent'[e] # sent[e] =>
        sent'[e].picture >= taken[e] /\ sent'[e].picture >= sent[e].picture]_vars

\* Once the source is deleted, and neither its thread is inside run nor any encoder has
\* a picture to fetch, nothing of it is ever used again.
AtRest == /\ source = "deleted" /\ pc \notin Pass
          /\ \A e \in Encoders : sink[e] # "gone" => ~Behind(e)
QuietForEver == [][AtRest => AtRest' /\ fault' = fault]_vars

\* The capture thread of a source that is let go ends.
CaptureEnds == source # "live" ~> pc = "ended" \/ fault # NoFault

\* A picture that is posted to a viewer is delivered to it, unless the viewer leaves or
\* its encoder falls behind.
PictureArrives ==
  \A e \in Encoders :
    posted[e] > sent[e].picture ~> \/ posted[e] = sent[e].picture
                                   \/ e \in late
                                   \/ sink[e] # "added"
                                   \/ fault # NoFault
=============================================================================
