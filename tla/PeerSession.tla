----------------------------- MODULE PeerSession -----------------------------
(***************************************************************************)
(* The viewer sessions of the camera: the Peer objects of Signaler and     *)
(* PeerManager, and the video sources that MultiplexMediaCapturer shares   *)
(* among the viewers of a camera.                                          *)
(*                                                                         *)
(* These threads run this code at once:                                    *)
(*   "loop"   the libuv loop: browser messages,                            *)
(*   "sig"    the WebRTC signaling thread: Peer::OnSuccess and OnFailure,  *)
(*   Workers  the worker loops of RestApi: HTTP DELETE of a camera.        *)
(* One step is one locked section, one unlocked map access, or one call    *)
(* into WebRTC.  A call into WebRTC from the loop is executed by the       *)
(* signaling thread while the loop waits, so it happens only between two   *)
(* callbacks (CanCall).                                                    *)
(*                                                                         *)
(* Peer objects and video sources are named by the number of the offer     *)
(* that created them; Nil is the null pointer and the missing map entry.   *)
(***************************************************************************)
EXTENDS Integers, FiniteSets

CONSTANTS
  Ids,            \* socket ids of the browsers
  Cams,           \* camera names
  Workers,        \* worker loops of the HTTPS server
  MaxOffers,      \* bound on the offers the browsers send
  OfferMayFail,   \* WebRTC may answer CreateOffer with OnFailure
  ReOffer         \* a browser may offer again inside its session

ASSUME BoundAssumption == MaxOffers \in Nat
ASSUME WorkersAssumption == "loop" \notin Workers /\ "sig" \notin Workers
ASSUME EnvironmentAssumption == OfferMayFail \in BOOLEAN /\ ReOffer \in BOOLEAN

Nil     == 0
Handles == 1 .. MaxOffers
Threads == {"loop", "sig"} \union Workers

VARIABLES
  offers,          \* number of offers received so far
  browser,         \* what each browser takes its session to be
  told,            \* browsers sent the "error" message since their last offer
  table,           \* PeerManager: socket id -> Peer
  life,            \* Peer -> "none", "alive" or "deleted"
  peerid,          \* Peer -> socket id it was created for
  peerCam,         \* Peer -> camera it was created for
  pending,         \* Peer -> CreateOffer requests WebRTC has not answered
  tracks,          \* Peer -> sources whose track its connection sends
  mapVideoSource,  \* camera -> VideoPacketSource
  mapvideo_track,  \* camera -> track, named by the source it plays
  setPeerid,       \* VideoPacketSource -> registered viewers
  mutexCap,        \* holder of MultiplexMediaCapturer::mutexCap, or "free"
  pc,              \* next step of each thread
  conn,            \* the Peer each thread works on
  vsItr,           \* the map iterator remove() found, named by its source
  stopCam,         \* the camera stop() works on
  sPeerIds,        \* the viewers stop() handed back, still to be told
  fault            \* the first undefined access, exception or assertion

browserVars == <<offers, browser, told>>
peerVars    == <<table, life, peerid, peerCam, pending, tracks>>
sourceVars  == <<mapVideoSource, mapvideo_track, setPeerid>>
localVars   == <<conn, vsItr, stopCam, sPeerIds>>
vars == <<browserVars, peerVars, sourceVars, mutexCap, pc, localVars, fault>>

(***************************************************************************)
(* The steps of the handlers, named for what the thread does next.         *)
(***************************************************************************)
AddSteps    == {"addTracks", "createTrack", "setEnabled", "addTrack", "addRef",
                "createOffer"}
RemoveSteps == {"removeTracks", "find", "release", "lock", "eraseTrack",
                "eraseSource"}
StopSteps   == {"reset", "tell"}
LoopSteps   == {"idle", "get", "deliver", "delete"} \union AddSteps \union RemoveSteps
SigSteps    == {"idle", "drop"} \union RemoveSteps
WorkerSteps == {"idle"} \union StopSteps
Steps       == LoopSteps \union SigSteps \union WorkerSteps

Faults == {"none", "bad_access", "stale_iterator", "use_after_delete",
           "not_found", "peer_mismatch", "late_callback"}

Init ==
  /\ offers = 0
  /\ browser = [i \in Ids |-> "out"]
  /\ told = {}
  /\ table = [i \in Ids |-> Nil]
  /\ life = [p \in Handles |-> "none"]
  /\ peerid = [p \in Handles |-> Nil]
  /\ peerCam = [p \in Handles |-> Nil]
  /\ pending = [p \in Handles |-> 0]
  /\ tracks = [p \in Handles |-> {}]
  /\ mapVideoSource = [c \in Cams |-> Nil]
  /\ mapvideo_track = [c \in Cams |-> Nil]
  /\ setPeerid = [s \in Handles |-> {}]
  /\ mutexCap = "free"
  /\ pc = [t \in Threads |-> "idle"]
  /\ conn = [t \in Threads |-> Nil]
  /\ vsItr = [t \in Threads |-> Nil]
  /\ stopCam = [t \in Threads |-> Nil]
  /\ sPeerIds = [t \in Threads |-> {}]
  /\ fault = "none"

Cam(t)  == peerCam[conn[t]]     \* conn->getCam() in thread t
Goto(t, step) == pc' = [pc EXCEPT ![t] = step]

(***************************************************************************)
(* A proxied WebRTC call runs on the signaling thread: at once when the    *)
(* caller is that thread, between two of its callbacks otherwise.          *)
(***************************************************************************)
CanCall_NoWait(t) == TRUE   \* mutant: the call does not wait for a running callback

CanCall(t) == t = "sig" \/ pc["sig"] = "idle"

(***************************************************************************)
(* What goes wrong if thread t takes its next step now: a deleted Peer is  *)
(* used, an erased map entry is dereferenced (operator[] inserts a null    *)
(* pointer), an iterator is erased twice, get() does not find its item.    *)
(***************************************************************************)
FaultAt(t) ==
  LET UsesConn == pc[t] \in AddSteps \union {"deliver", "removeTracks", "release",
                                              "delete", "drop"}
  IN  IF UsesConn /\ life[conn[t]] = "deleted" THEN "use_after_delete"
      ELSE IF pc[t] = "get" /\ table[peerid[conn[t]]] = Nil THEN "not_found"
      ELSE IF \/ pc[t] = "setEnabled" /\ mapvideo_track[Cam(t)] = Nil
              \/ pc[t] \in {"addRef", "release"} /\ mapVideoSource[Cam(t)] = Nil
              \/ pc[t] = "reset" /\ mapVideoSource[stopCam[t]] = Nil
           THEN "bad_access"
      ELSE IF pc[t] = "eraseSource" /\ mapVideoSource[Cam(t)] # vsItr[t]
           THEN "stale_iterator"
      ELSE "none"

Crash(t) ==
  /\ fault = "none"
  /\ FaultAt(t) # "none"
  /\ fault' = FaultAt(t)
  /\ UNCHANGED <<browserVars, peerVars, sourceVars, mutexCap, pc, localVars>>

At(t, step) == fault = "none" /\ pc[t] = step /\ FaultAt(t) = "none"

(***************************************************************************)
(* Signaler::onPeerOffer on the loop.  A browser without a Peer gets a new *)
(* one, put in the table before its tracks are added; a browser that has   *)
(* one keeps it, and get() looks it up again after exists().               *)
(***************************************************************************)
ReceiveOffer(i) ==
  /\ At("loop", "idle")
  /\ offers < MaxOffers
  /\ browser[i] = "out" \/ ReOffer
  /\ offers' = offers + 1
  /\ told' = told \ {i}

OfferNew(i, c) ==
  /\ ReceiveOffer(i)
  /\ table[i] = Nil
  /\ CanCall("loop")
  /\ browser' = [browser EXCEPT ![i] = "asked"]
  /\ table' = [table EXCEPT ![i] = offers']
  /\ life' = [life EXCEPT ![offers'] = "alive"]
  /\ peerid' = [peerid EXCEPT ![offers'] = i]
  /\ peerCam' = [peerCam EXCEPT ![offers'] = c]
  /\ conn' = [conn EXCEPT !["loop"] = offers']
  /\ Goto("loop", "addTracks")
  /\ UNCHANGED <<pending, tracks, sourceVars, mutexCap, vsItr, stopCam, sPeerIds, fault>>

OfferAgain(i) ==
  /\ ReceiveOffer(i)
  /\ table[i] # Nil
  /\ browser' = [browser EXCEPT ![i] = "reasked"]
  /\ conn' = [conn EXCEPT !["loop"] = table[i]]
  /\ Goto("loop", "get")
  /\ UNCHANGED <<peerVars, sourceVars, mutexCap, vsItr, stopCam, sPeerIds, fault>>

GetPeer ==
  /\ At("loop", "get")
  /\ Goto("loop", "addTracks")
  /\ UNCHANGED <<browserVars, peerVars, sourceVars, mutexCap, localVars, fault>>

(***************************************************************************)
(* MultiplexMediaCapturer::addMediaTracks.  The first viewer of a camera   *)
(* creates the source and, still holding mutexCap, calls WebRTC for the    *)
(* track.  What follows the unlock looks both maps up again, unlocked.     *)
(***************************************************************************)
AddTracks ==
  /\ At("loop", "addTracks")
  /\ mutexCap = "free"
  /\ IF mapVideoSource[Cam("loop")] = Nil
       THEN /\ mapVideoSource' = [mapVideoSource EXCEPT ![Cam("loop")] = offers]
            /\ mutexCap' = "loop"
            /\ Goto("loop", "createTrack")
       ELSE /\ Goto("loop", "setEnabled")
            /\ UNCHANGED <<mapVideoSource, mutexCap>>
  /\ UNCHANGED <<browserVars, peerVars, mapvideo_track, setPeerid, localVars, fault>>

CreateTrack_Lost ==    \* mutant: the new track is not put in its map
  /\ At("loop", "createTrack")
  /\ CanCall("loop")
  /\ mutexCap' = "free"
  /\ Goto("loop", "setEnabled")
  /\ UNCHANGED <<browserVars, peerVars, sourceVars, localVars, fault>>

CreateTrack ==
  /\ At("loop", "createTrack")
  /\ CanCall("loop")
  /\ mapvideo_track' =
       [mapvideo_track EXCEPT ![Cam("loop")] = mapVideoSource[Cam("loop")]]
  /\ mutexCap' = "free"
  /\ Goto("loop", "setEnabled")
  /\ UNCHANGED <<browserVars, peerVars, mapVideoSource, setPeerid, localVars, fault>>

SetEnabled ==
  /\ At("loop", "setEnabled")
  /\ CanCall("loop")
  /\ Goto("loop", "addTrack")
  /\ UNCHANGED <<browserVars, peerVars, sourceVars, mutexCap, localVars, fault>>

\* AddTrack refuses a null track and one that is already sent; its result is ignored.
AddTrack ==
  /\ At("loop", "addTrack")
  /\ CanCall("loop")
  /\ tracks' = [tracks EXCEPT ![conn["loop"]] =
                  @ \union ({mapvideo_track[Cam("loop")]} \ {Nil})]
  /\ Goto("loop", "addRef")
  /\ UNCHANGED <<browserVars, table, life, peerid, peerCam, pending, sourceVars,
                 mutexCap, localVars, fault>>

AddRef ==
  /\ At("loop", "addRef")
  /\ setPeerid' = [setPeerid EXCEPT ![mapVideoSource[Cam("loop")]] =
                     @ \union {peerid[conn["loop"]]}]
  /\ Goto("loop", "createOffer")
  /\ UNCHANGED <<browserVars, peerVars, mapVideoSource, mapvideo_track, mutexCap,
                 localVars, fault>>

CreateOffer ==
  /\ At("loop", "createOffer")
  /\ CanCall("loop")
  /\ pending' = [pending EXCEPT ![conn["loop"]] = @ + 1]
  /\ Goto("loop", "idle")
  /\ UNCHANGED <<browserVars, table, life, peerid, peerCam, tracks, sourceVars,
                 mutexCap, localVars, fault>>

(***************************************************************************)
(* An answer or a candidate of a browser that has received our offer:      *)
(* PeerManager::recvSDP and recvCandidate assert that the Peer is there.   *)
(* A command: onPeerCommand looks the Peer up with an exception instead.   *)
(***************************************************************************)
ReceiveForPeer(i, missing) ==
  /\ At("loop", "idle")
  /\ browser[i] \in {"offered", "reoffered"}
  /\ IF table[i] = Nil
       THEN fault' = missing /\ UNCHANGED <<pc, conn>>
       ELSE /\ conn' = [conn EXCEPT !["loop"] = table[i]]
            /\ Goto("loop", "deliver")
            /\ UNCHANGED fault
  /\ UNCHANGED <<browserVars, peerVars, sourceVars, mutexCap, vsItr, stopCam, sPeerIds>>

RecvSdpOrCandidate(i) == ReceiveForPeer(i, "peer_mismatch")
OnPeerCommand(i)      == ReceiveForPeer(i, "not_found")

Deliver ==
  /\ At("loop", "deliver")
  /\ CanCall("loop")
  /\ Goto("loop", "idle")
  /\ UNCHANGED <<browserVars, peerVars, sourceVars, mutexCap, localVars, fault>>

(***************************************************************************)
(* Signaler::onPeerDiconnected, for a "bye" and for the "disconnectClient" *)
(* of a browser that is gone: whoever removes the Peer from the table owns *)
(* it, takes its tracks away and deletes it.                               *)
(***************************************************************************)
Bye(i) ==
  /\ At("loop", "idle")
  /\ browser[i] # "out"
  /\ browser' = [browser EXCEPT ![i] = "out"]
  /\ IF table[i] = Nil
       THEN UNCHANGED <<table, conn, pc>>
       ELSE /\ table' = [table EXCEPT ![i] = Nil]
            /\ conn' = [conn EXCEPT !["loop"] = table[i]]
            /\ Goto("loop", "removeTracks")
  /\ UNCHANGED <<offers, told, life, peerid, peerCam, pending, tracks, sourceVars,
                 mutexCap, vsItr, stopCam, sPeerIds, fault>>

(***************************************************************************)
(* ~Peer releases the connection, which is destroyed on the signaling      *)
(* thread.  Nothing keeps the Peer for a CreateOffer still unanswered      *)
(* (AddRef and Release do nothing): its callback may run on what is left.  *)
(***************************************************************************)
DestroyPeer(t, p) ==
  /\ CanCall(t)
  /\ life' = [life EXCEPT ![p] = "deleted"]
  /\ tracks' = [tracks EXCEPT ![p] = {}]
  /\ pending' = [pending EXCEPT ![p] = 0]
  /\ fault' \in {"none"} \union (IF pending[p] > 0 THEN {"late_callback"} ELSE {})

Delete ==
  /\ At("loop", "delete")
  /\ DestroyPeer("loop", conn["loop"])
  /\ Goto("loop", "idle")
  /\ UNCHANGED <<browserVars, table, peerid, peerCam, sourceVars, mutexCap, localVars>>

(***************************************************************************)
(* MultiplexMediaCapturer::remove in thread t, then what its caller does.  *)
(***************************************************************************)
AfterRemove_Same(t) == "drop"   \* mutant: onPeerDiconnected ends like onFailure

AfterRemove(t) == IF t = "loop" THEN "delete" ELSE "drop"

RemoveTracks(t) ==
  /\ At(t, "removeTracks")
  /\ CanCall(t)
  /\ tracks' = [tracks EXCEPT ![conn[t]] = {}]
  /\ Goto(t, "find")
  /\ UNCHANGED <<browserVars, table, life, peerid, peerCam, pending, sourceVars,
                 mutexCap, localVars, fault>>

FindSource(t) ==
  /\ At(t, "find")
  /\ vsItr' = [vsItr EXCEPT ![t] = mapVideoSource[Cam(t)]]
  /\ Goto(t, IF mapVideoSource[Cam(t)] = Nil THEN AfterRemove(t) ELSE "release")
  /\ UNCHANGED <<browserVars, peerVars, sourceVars, mutexCap, conn, stopCam, sPeerIds,
                 fault>>

\* myRelease also reports the last reference when the viewer was not registered.
DropsLast_OffByOne(left, known) == Cardinality(left) <= 1        \* mutant
DropsLast_OnlyKnown(left, known) == known /\ left = {}           \* mutant
DropsLast(left, known) == left = {}

ReleaseSource(t) ==
  /\ At(t, "release")
  /\ LET s == mapVideoSource[Cam(t)]
         i == peerid[conn[t]]
     IN  /\ setPeerid' = [setPeerid EXCEPT ![s] = @ \ {i}]
         /\ Goto(t, IF DropsLast(setPeerid[s] \ {i}, i \in setPeerid[s])
                      THEN "lock" ELSE AfterRemove(t))
  /\ UNCHANGED <<browserVars, peerVars, mapVideoSource, mapvideo_track, mutexCap,
                 localVars, fault>>

LockForErase(t) ==
  /\ At(t, "lock")
  /\ mutexCap = "free"
  /\ mutexCap' = t
  /\ Goto(t, "eraseTrack")
  /\ UNCHANGED <<browserVars, peerVars, sourceVars, localVars, fault>>

\* Erasing the last reference to a track destroys it on the signaling thread.
LastReference(s) == s # Nil /\ \A p \in Handles : s \notin tracks[p]

EraseTrack(t) ==
  /\ At(t, "eraseTrack")
  /\ LastReference(mapvideo_track[Cam(t)]) => CanCall(t)
  /\ mapvideo_track' = [mapvideo_track EXCEPT ![Cam(t)] = Nil]
  /\ Goto(t, "eraseSource")
  /\ UNCHANGED <<browserVars, peerVars, mapVideoSource, setPeerid, mutexCap,
                 localVars, fault>>

EraseSource_NoUnlock(t) ==    \* mutant: mutexCap is not given back
  /\ At(t, "eraseSource")
  /\ mapVideoSource' = [mapVideoSource EXCEPT ![Cam(t)] = Nil]
  /\ Goto(t, AfterRemove(t))
  /\ UNCHANGED <<browserVars, peerVars, mapvideo_track, setPeerid, mutexCap, localVars,
                 fault>>

EraseSource(t) ==
  /\ At(t, "eraseSource")
  /\ mapVideoSource' = [mapVideoSource EXCEPT ![Cam(t)] = Nil]
  /\ mutexCap' = "free"
  /\ Goto(t, AfterRemove(t))
  /\ UNCHANGED <<browserVars, peerVars, mapvideo_track, setPeerid, localVars, fault>>

(***************************************************************************)
(* The callbacks of a CreateOffer request.  OnSuccess sends the offer to   *)
(* the browser; OnFailure takes the Peer's tracks away and only then       *)
(* removes it from the table, deleting it if it was still there.           *)
(***************************************************************************)
Answered(p) ==
  /\ At("sig", "idle")
  /\ life[p] = "alive"
  /\ pending[p] > 0
  /\ pending' = [pending EXCEPT ![p] = @ - 1]

Offered(b) == CASE b = "asked" -> "offered"
                [] b = "reasked" -> "reoffered"
                [] OTHER -> b

OnSuccess_Twice(p) ==    \* mutant: the request stays open and can still fail
  /\ At("sig", "idle") /\ life[p] = "alive" /\ pending[p] > 0
  /\ browser' = [browser EXCEPT ![peerid[p]] = Offered(@)]
  /\ UNCHANGED <<offers, told, peerVars, sourceVars, mutexCap, pc, localVars, fault>>

OnSuccess(p) ==
  /\ Answered(p)
  /\ browser' = [browser EXCEPT ![peerid[p]] = Offered(@)]
  /\ UNCHANGED <<offers, told, table, life, peerid, peerCam, tracks, sourceVars,
                 mutexCap, pc, localVars, fault>>

OnFailure(p) ==
  /\ OfferMayFail
  /\ Answered(p)
  /\ conn' = [conn EXCEPT !["sig"] = p]
  /\ Goto("sig", "removeTracks")
  /\ UNCHANGED <<browserVars, table, life, peerid, peerCam, tracks, sourceVars,
                 mutexCap, vsItr, stopCam, sPeerIds, fault>>

Drop_Always ==    \* mutant: the Peer is deleted whoever removed it from the table
  /\ At("sig", "drop")
  /\ table' = [i \in Ids |-> IF table[i] = conn["sig"] THEN Nil ELSE table[i]]
  /\ DestroyPeer("sig", conn["sig"])
  /\ Goto("sig", "idle")
  /\ UNCHANGED <<browserVars, peerid, peerCam, sourceVars, mutexCap, localVars>>

Drop ==
  /\ At("sig", "drop")
  /\ LET p == conn["sig"] IN
       IF \E i \in Ids : table[i] = p
         THEN /\ table' = [i \in Ids |-> IF table[i] = p THEN Nil ELSE table[i]]
              /\ DestroyPeer("sig", p)
         ELSE UNCHANGED <<table, life, tracks, pending, fault>>
  /\ Goto("sig", "idle")
  /\ UNCHANGED <<browserVars, peerid, peerCam, sourceVars, mutexCap, localVars>>

(***************************************************************************)
(* Signaler::postcloseCamera, on a worker loop for HTTP DELETE: the        *)
(* viewers are taken out of the source and each is sent an "error"         *)
(* message.                                                                *)
(***************************************************************************)
StopCamera(t, c) ==
  /\ At(t, "idle")
  /\ mapVideoSource[c] # Nil
  /\ stopCam' = [stopCam EXCEPT ![t] = c]
  /\ Goto(t, "reset")
  /\ UNCHANGED <<browserVars, peerVars, sourceVars, mutexCap, conn, vsItr, sPeerIds, fault>>

Reset_Forgets(t) ==    \* mutant: the viewers are not handed back to be told
  /\ At(t, "reset")
  /\ setPeerid' = [setPeerid EXCEPT ![mapVideoSource[stopCam[t]]] = {}]
  /\ Goto(t, "tell")
  /\ UNCHANGED <<browserVars, peerVars, mapVideoSource, mapvideo_track, mutexCap,
                 localVars, fault>>

Reset(t) ==
  /\ At(t, "reset")
  /\ LET s == mapVideoSource[stopCam[t]] IN
       /\ sPeerIds' = [sPeerIds EXCEPT ![t] = setPeerid[s]]
       /\ setPeerid' = [setPeerid EXCEPT ![s] = {}]
  /\ Goto(t, "tell")
  /\ UNCHANGED <<browserVars, peerVars, mapVideoSource, mapvideo_track, mutexCap,
                 conn, vsItr, stopCam, fault>>

Tell(t) ==
  /\ At(t, "tell")
  /\ told' = told \union sPeerIds[t]
  /\ sPeerIds' = [sPeerIds EXCEPT ![t] = {}]
  /\ Goto(t, "idle")
  /\ UNCHANGED <<offers, browser, peerVars, sourceVars, mutexCap, conn, vsItr,
                 stopCam, fault>>

(***************************************************************************)
(* The specification                                                       *)
(***************************************************************************)
Remove(t) == RemoveTracks(t) \/ FindSource(t) \/ ReleaseSource(t) \/ LockForErase(t)
               \/ EraseTrack(t) \/ EraseSource(t)
Add == GetPeer \/ AddTracks \/ CreateTrack \/ SetEnabled \/ AddTrack \/ AddRef
         \/ CreateOffer

\* Once a handler is entered, its thread runs it to the end.
LoopContinues == Add \/ Deliver \/ Delete \/ Remove("loop") \/ Crash("loop")
SigContinues  == Remove("sig") \/ Drop \/ Crash("sig")
WorkerContinues(w) == Reset(w) \/ Tell(w) \/ Crash(w)

BrowserMessage ==
  \E i \in Ids : \/ \E c \in Cams : OfferNew(i, c)
                 \/ OfferAgain(i)
                 \/ RecvSdpOrCandidate(i)
                 \/ OnPeerCommand(i)
                 \/ Bye(i)
OfferAnswered == \E p \in Handles : OnSuccess(p) \/ OnFailure(p)
CameraDelete  == \E w \in Workers, c \in Cams : StopCamera(w, c)

Next ==
  \/ BrowserMessage
  \/ OfferAnswered
  \/ CameraDelete
  \/ LoopContinues
  \/ SigContinues
  \/ \E w \in Workers : WorkerContinues(w)

Spec == Init /\ [][Next]_vars

\* The schedulers run every thread that can take a step; what the browsers
\* and WebRTC do is up to them.
Fairness ==
  /\ WF_vars(LoopContinues)
  /\ WF_vars(SigContinues)
  /\ \A w \in Workers : WF_vars(WorkerContinues(w))

FairSpec == Spec /\ Fairness

(***************************************************************************)
(* Properties                                                              *)
(***************************************************************************)

\* Every variable stays in its range; each thread only reaches its own steps.
TypeOK ==
  /\ offers \in 0 .. MaxOffers
  /\ browser \in [Ids -> {"out", "asked", "offered", "reasked", "reoffered"}]
  /\ told \in SUBSET Ids
  /\ table \in [Ids -> Handles \union {Nil}]
  /\ life \in [Handles -> {"none", "alive", "deleted"}]
  /\ peerid \in [Handles -> Ids \union {Nil}]
  /\ peerCam \in [Handles -> Cams \union {Nil}]
  /\ pending \in [Handles -> Nat]
  /\ tracks \in [Handles -> SUBSET Handles]
  /\ mapVideoSource \in [Cams -> Handles \union {Nil}]
  /\ mapvideo_track \in [Cams -> Handles \union {Nil}]
  /\ setPeerid \in [Handles -> SUBSET Ids]
  /\ mutexCap \in Threads \union {"free"}
  /\ pc \in [Threads -> Steps]
  /\ pc["loop"] \in LoopSteps /\ pc["sig"] \in SigSteps
  /\ \A w \in Workers : pc[w] \in WorkerSteps
  /\ conn \in [Threads -> Handles \union {Nil}]
  /\ vsItr \in [Threads -> Handles \union {Nil}]
  /\ stopCam \in [Threads -> Cams \union {Nil}]
  /\ sPeerIds \in [Threads -> SUBSET Ids]
  /\ fault \in Faults

\* The loop took the Peer out of the table and has not deleted it yet.
OwnedByLoop(p) == pc["loop"] \in RemoveSteps \union {"delete"} /\ conn["loop"] = p

\* A Peer that is alive is either in the table, under the id it was created
\* for, or in the hands of the one handler that removed it, and never both; a
\* deleted Peer is in neither.  So however "bye", "disconnectClient" and
\* OnFailure interleave on the two threads, a Peer is deleted once and no Peer
\* is lost (PointerCollection::remove decides who deletes).
PeerOwnedOnce ==
  /\ \A i \in Ids : table[i] # Nil => /\ life[table[i]] = "alive"
                                      /\ peerid[table[i]] = i
                                      /\ ~OwnedByLoop(table[i])
  /\ \A p \in Handles : life[p] = "alive" => OwnedByLoop(p) \/ table[peerid[p]] = p
  /\ \A p \in Handles : OwnedByLoop(p) => life[p] = "alive"

\* The Peer whose OnFailure is running is not deleted under it: the loop may
\* have removed it from the table, but its delete waits for the callback.
CallbackPeerAlive == pc["sig"] # "idle" => life[conn["sig"]] = "alive"

\* A source stays in the map only for a reason: some session of its camera is
\* open or being closed.  Nothing else would ever take the source out, and its
\* capture thread would run for nobody.
Quiet == fault = "none" /\ \A t \in Threads : pc[t] = "idle"
NoSourceLeak ==
  Quiet => \A c \in Cams : mapVideoSource[c] # Nil =>
             \E i \in Ids : table[i] # Nil /\ peerCam[table[i]] = c

\* A viewer in session watches the source other viewers of its camera share and
\* is registered with it, unless it was told that its camera is closed.
BeingAdded(p) == pc["loop"] \in AddSteps \union {"get"} /\ conn["loop"] = p
BeingTold(i)  == \E t \in Threads : i \in sPeerIds[t]
NoSilentCutOff ==
  fault = "none" =>
    \A i \in Ids :
      (table[i] # Nil /\ ~BeingAdded(table[i]) /\ i \notin told /\ ~BeingTold(i)) =>
        LET s == mapVideoSource[peerCam[table[i]]] IN
          s # Nil /\ s \in tracks[table[i]] /\ i \in setPeerid[s]

\* As long as no callback fails, no map of the capturer is used after an entry of
\* it is erased, no entry is erased twice and no Peer is used after its delete,
\* however cameras are deleted - but for one access: stop() on a worker loop looks
\* its source up twice without mutexCap.
OnlyStopRaces ==
  fault \in {"bad_access", "stale_iterator", "use_after_delete"} =>
    fault = "bad_access" /\ \E w \in Workers : pc[w] = "reset"

\* The loop and the signaling thread never wait for each other, one for
\* mutexCap and the other for a callback to return.
NoLockCycle ==
  ~ /\ fault = "none"
    /\ pc["sig"] = "lock" /\ mutexCap = "loop"
    /\ \/ pc["loop"] = "createTrack"
       \/ pc["loop"] = "eraseTrack" /\ LastReference(mapvideo_track[Cam("loop")])

\* "peer mismath": an answer or candidate always finds its Peer.
NoPeerMismatch == fault # "peer_mismatch"
\* A browser that offered once in its session, and has our offer, has its Peer in the
\* table, whatever WebRTC fails for it or for others: a Peer whose request failed never
\* got as far as an offer to its browser.
MessagesFindPeer == \A i \in Ids : browser[i] = "offered" => table[i] # Nil
\* A Peer is deleted only when no callback of it is still to come.
NoLateCallback == fault # "late_callback"

\* A handler that was entered returns.
LoopReturns == pc["loop"] # "idle" ~> pc["loop"] = "idle" \/ fault # "none"
\* Once every browser has left, the camera is captured no longer.
AllLeft == \A i \in Ids : browser[i] = "out"
SourceFreed ==
  \A c \in Cams : AllLeft ~> mapVideoSource[c] = Nil \/ ~AllLeft \/ fault # "none"

\* The capturer keeps its promise: what the maps and the viewer sets go through
\* is a history of SharedCamera, where no camera stops under a viewer.
Shared == INSTANCE SharedCamera WITH
  capturing <- [c \in Cams |-> mapVideoSource[c] # Nil],
  viewers   <- [c \in Cams |-> IF mapVideoSource[c] = Nil THEN {}
                               ELSE setPeerid[mapVideoSource[c]]]
CapturesShared == Shared!Spec
=============================================================================
