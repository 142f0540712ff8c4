-------------------------- MODULE SourceLeakProofs --------------------------
(***************************************************************************)
(* A source is captured at rest only for an open session of its camera,    *)
(* in every environment: offers may fail, so that the signaling thread     *)
(* runs remove() beside the loop's addMediaTracks and remove().            *)
(***************************************************************************)
EXTENDS PeerSessionProofs

(***************************************************************************)
(* A source is of one camera, and a new one has no viewers.                *)
(***************************************************************************)
Entering == {"get", "addTracks"}
FreshSource ==
  /\ \A c \in Cams : /\ mapVideoSource[c] <= offers
                     /\ pc["loop"] \in Entering => mapVideoSource[c] < offers
  /\ \A s \in Handles : s > offers => setPeerid[s] = {}
  /\ pc["loop"] \in Entering => setPeerid[offers] = {}
OneCamera ==
  \A c, d \in Cams : mapVideoSource[c] # Nil /\ mapVideoSource[c] = mapVideoSource[d] => c = d

(***************************************************************************)
(* The loop is adding the tracks of a Peer that OnFailure is deleting or   *)
(* has deleted.  It gets no further than the next call into WebRTC, where  *)
(* the program meets the deleted Peer.                                     *)
(***************************************************************************)
Doomed ==
  /\ pc["loop"] \in AddingSteps
  /\ life[conn["loop"]] = "deleted" \/ Failing(conn["loop"])

(***************************************************************************)
(* Why a viewer is in the set of a source, and a source in the map: there  *)
(* is a session, which the signaling thread is not just about to drop, or  *)
(* a thread is on its way to take the viewer or the source out.            *)
(***************************************************************************)
InSession(i, c) == table[i] # Nil /\ peerCam[table[i]] = c
Dropping(p) == pc["sig"] = "drop" /\ conn["sig"] = p
Removing(t, steps, c) == pc[t] \in steps /\ Cam(t) = c

OpenSteps == {"removeTracks", "find", "release"}
LateSteps == {"lock", "eraseTrack", "eraseSource", "drop"}

Registered ==
  \A c \in Cams : mapVideoSource[c] # Nil =>
    \A i \in setPeerid[mapVideoSource[c]] :
      \/ InSession(i, c)
      \/ Removing("loop", OpenSteps, c) /\ peerid[conn["loop"]] = i
\* After its release the signaling thread's viewer is not in the set again.
Released ==
  pc["sig"] \in LateSteps /\ mapVideoSource[Cam("sig")] # Nil =>
    peerid[conn["sig"]] \notin setPeerid[mapVideoSource[Cam("sig")]]
Wanted ==
  \A c \in Cams : mapVideoSource[c] # Nil =>
    \/ Removing("loop", RemoveSteps, c)
    \/ Removing("sig", RemoveSteps, c)
    \/ \E i \in Ids : InSession(i, c) /\ ~Dropping(table[i])

Reasons == Registered /\ Released /\ Wanted
Intact  == fault = "none" /\ ~Doomed
KeptInv == FreshSource /\ OneCamera /\ (Intact => Reasons)

USE WorkersAssumption
    DEF Nil, Handles, Threads, At, Goto, Cam, FaultAt, Faults, Steps, LoopSteps, SigSteps,
        WorkerSteps, AddSteps, RemoveSteps, StopSteps, browserVars, peerVars,
        sourceVars, localVars

LEMMA InitKept == Init => KeptInv
  BY BoundAssumption
  DEF Init, KeptInv, FreshSource, Entering, OneCamera, Reasons, Registered, Released, Wanted, OpenSteps, LateSteps

(***************************************************************************)
(* What a step of a thread does to the program counters.                   *)
(***************************************************************************)
LoopMoves(from, to) ==
  /\ pc["loop"] = from /\ pc'["loop"] = to
  /\ pc'["sig"] = pc["sig"]
  /\ \A w \in Workers : pc'[w] = pc[w]
SigMoves(from, to) ==
  /\ pc["sig"] = from /\ pc'["sig"] = to
  /\ pc'["loop"] = pc["loop"]
WorkerMoves == pc'["loop"] = pc["loop"] /\ pc'["sig"] = pc["sig"]

LEMMA LoopGoes ==
  ASSUME IInv, NEW from, NEW to, pc["loop"] = from, Goto("loop", to)
  PROVE  LoopMoves(from, to)
  BY DEF IInv, TypeOK, LoopMoves

LEMMA SigGoes ==
  ASSUME IInv, NEW from, NEW to, pc["sig"] = from, Goto("sig", to)
  PROVE  SigMoves(from, to)
  BY DEF IInv, TypeOK, SigMoves

LEMMA WorkerGoes ==
  ASSUME IInv, NEW w \in Workers, NEW to, Goto(w, to)
  PROVE  WorkerMoves
  BY DEF IInv, TypeOK, WorkerMoves

SessionsStill == UNCHANGED <<table, life, peerid, peerCam>>

\* The Peer of the loop while it adds, when nothing is lost.
LEMMA AddingFacts ==
  ASSUME IInv, ~Doomed, pc["loop"] \in AddingSteps
  PROVE  /\ conn["loop"] \in Handles
         /\ life[conn["loop"]] = "alive"
         /\ peerid[conn["loop"]] \in Ids
         /\ Cam("loop") \in Cams
         /\ table[peerid[conn["loop"]]] = conn["loop"]
         /\ ~Failing(conn["loop"])
<1> DEFINE p == conn["loop"]
<1>1. pc["loop"] # "idle" /\ pc["loop"] \notin OwningSteps
  BY DEF AddingSteps, OwningSteps
<1>2. p \in Handles /\ life[p] # "none" /\ life[p] # "deleted" /\ ~Failing(p)
  BY <1>1 DEF IInv, LoopPeer, Doomed
<1>3. life[p] = "alive"
  BY <1>2 DEF IInv, TypeOK
<1>4. ~OwnedByLoop(p)
  BY <1>1 DEF OwnedByLoop, OwningSteps
<1> QED
  BY <1>2, <1>3, <1>4 DEF IInv, PeersNamed, PeerOwnedOnce

\* The Peer of the signaling thread.
LEMMA FailingFacts ==
  ASSUME IInv, pc["sig"] # "idle"
  PROVE  /\ conn["sig"] \in Handles
         /\ life[conn["sig"]] = "alive"
         /\ peerid[conn["sig"]] \in Ids
         /\ Cam("sig") \in Cams
         /\ OwnedByLoop(conn["sig"]) \/ table[peerid[conn["sig"]]] = conn["sig"]
  BY DEF IInv, SigPeer, CallbackPeerAlive, PeersNamed, PeerOwnedOnce

(***************************************************************************)
(* A doomed loop stays where it is until the program faults.               *)
(***************************************************************************)
LEMMA DoomStays ==
  ASSUME IInv, Doomed, Next, fault' = "none"
  PROVE  Doomed'
<1> DEFINE p == conn["loop"]
<1>1. p \in Handles /\ life[p] \in {"alive", "deleted"} /\ pc["loop"] \in AddingSteps
  BY DEF Doomed, AddingSteps, IInv, LoopPeer, TypeOK
<1>2. ASSUME conn' = conn, life' = life, pc'["loop"] \in AddingSteps,
             pc["sig"] # "idle" => pc'["sig"] # "idle"
      PROVE  Doomed'
  BY <1>2 DEF Doomed, Failing
<1>3. CASE BrowserMessage
  BY <1>1, <1>3 DEF BrowserMessage, OfferNew, OfferAgain, ReceiveOffer, RecvSdpOrCandidate,
      OnPeerCommand, ReceiveForPeer, Bye, AddingSteps
<1>4. CASE OfferAnswered
  <2>1. ASSUME NEW q \in Handles, OnSuccess(q) PROVE Doomed'
    BY <1>1, <1>2, <2>1 DEF OnSuccess
  <2>2. ASSUME NEW q \in Handles, OnFailure(q) PROVE Doomed'
    BY <2>2 DEF OnFailure, Answered, Doomed, Failing, IInv, TypeOK
  <2> QED
    BY <1>4, <2>1, <2>2 DEF OfferAnswered
<1>5. CASE LoopContinues
  <2>1. CASE GetPeer
    <3>1. LoopMoves("get", "addTracks") /\ conn' = conn /\ life' = life
      BY <2>1, LoopGoes DEF GetPeer
    <3> QED
      BY <1>2, <3>1 DEF LoopMoves, AddingSteps
  <2>2. CASE AddTracks
    <3>1. LoopMoves("addTracks", "createTrack") \/ LoopMoves("addTracks", "setEnabled")
      BY <2>2, LoopGoes DEF AddTracks
    <3> QED
      BY <1>2, <2>2, <3>1 DEF AddTracks, LoopMoves, AddingSteps
  <2>3. CASE AddRef
    <3>1. LoopMoves("addRef", "createOffer") /\ conn' = conn /\ life' = life
      BY <2>3, LoopGoes DEF AddRef
    <3> QED
      BY <1>2, <3>1 DEF LoopMoves, AddingSteps
  <2>4. ~CreateTrack /\ ~SetEnabled /\ ~AddTrack /\ ~CreateOffer
    BY DEF CreateTrack, SetEnabled, AddTrack, CreateOffer, CanCall, Doomed, Failing
  <2>5. ~Deliver /\ ~Delete /\ ~Remove("loop")
    BY <1>1 DEF Deliver, Delete, Remove, RemoveTracks, FindSource, ReleaseSource,
        LockForErase, EraseTrack, EraseSource, AddingSteps
  <2>6. ~Crash("loop")
    BY DEF Crash
  <2> QED
    BY <1>5, <2>1, <2>2, <2>3, <2>4, <2>5, <2>6 DEF LoopContinues, Add
<1>6. CASE SigContinues
  <2>1. CASE Remove("sig")
    <3>1. conn' = conn /\ life' = life
      BY <2>1 DEF Remove, RemoveTracks, FindSource, ReleaseSource, LockForErase, EraseTrack,
          EraseSource
    <3>2. \E to \in RemoveSteps \union {"drop"} : Goto("sig", to)
      BY <2>1, Zenon DEF Remove, RemoveTracks, FindSource, ReleaseSource, LockForErase, EraseTrack,
          EraseSource, AfterRemove
    <3>3. pc'["loop"] = pc["loop"] /\ pc'["sig"] # "idle"
      BY <3>2 DEF IInv, TypeOK
    <3> QED
      BY <1>1, <1>2, <3>1, <3>3, SMTT(30)
  <2>2. CASE Drop
    <3>1. /\ pc'["loop"] = pc["loop"] /\ conn' = conn
          /\ pc["sig"] = "drop"
      BY <2>2 DEF Drop, IInv, TypeOK
    <3>2. life[p] = "deleted" => life'[p] = "deleted"
      BY <1>1, <2>2 DEF Drop, DestroyPeer, IInv, TypeOK
    <3>3. CASE life[p] = "deleted"
      BY <1>1, <3>1, <3>2, <3>3 DEF Doomed
    <3>4. CASE life[p] = "alive"
      <4>1. conn["sig"] = p /\ ~OwnedByLoop(p)
        BY <1>1, <3>4 DEF Doomed, Failing, OwnedByLoop, AddingSteps
      <4>2. peerid[p] \in Ids /\ table[peerid[p]] = p
        BY <1>1, <3>4, <4>1 DEF IInv, PeersNamed, PeerOwnedOnce
      <4>3. life' = [life EXCEPT ![p] = "deleted"]
        BY <2>2, <4>1, <4>2 DEF Drop, DestroyPeer
      <4>4. life'[p] = "deleted"
        BY <1>1, <4>3 DEF IInv, TypeOK
      <4> QED
        BY <1>1, <3>1, <4>4 DEF Doomed
    <3> QED
      BY <1>1, <3>3, <3>4
  <2>3. ~Crash("sig")
    BY DEF Crash
  <2> QED
    BY <1>6, <2>1, <2>2, <2>3 DEF SigContinues
<1>7. CASE CameraDelete \/ \E w \in Workers : WorkerContinues(w)
  <2>1. \A w \in Workers : ~Crash(w)
    BY DEF Crash
  <2>2. /\ conn' = conn /\ life' = life
        /\ \E w \in Workers : \E to \in WorkerSteps : Goto(w, to)
    BY <1>7, <2>1 DEF CameraDelete, StopCamera, WorkerContinues, Reset, Tell
  <2>3. pc'["loop"] = pc["loop"] /\ pc'["sig"] = pc["sig"]
    BY <2>2 DEF IInv, TypeOK
  <2> QED
    BY <1>1, <1>2, <2>2, <2>3
<1> QED
  BY <1>3, <1>4, <1>5, <1>6, <1>7 DEF Next

(***************************************************************************)
(* New sources are new.                                                    *)
(***************************************************************************)
\* Sources only leave the map, viewers only leave the sets.
LEMMA FreshFrame ==
  ASSUME IInv, FreshSource, OneCamera, offers' = offers,
         \A c \in Cams : mapVideoSource'[c] \in {mapVideoSource[c], Nil},
         \A s \in Handles : setPeerid'[s] \subseteq setPeerid[s],
         pc'["loop"] \in Entering => pc["loop"] \in Entering
  PROVE  FreshSource' /\ OneCamera'
<1>1. OneCamera'
  BY DEF OneCamera
<1>2. pc["loop"] \in Entering => offers \in Handles
  <2>1. pc["loop"] \in Entering => pc["loop"] # "idle"
    BY DEF Entering
  <2>2. pc["loop"] # "idle" => conn["loop"] \in Handles /\ conn["loop"] <= offers
    BY BoundAssumption DEF IInv, LoopPeer, HandlesFresh, TypeOK
  <2> QED
    BY <2>1, <2>2, BoundAssumption DEF IInv, TypeOK
<1>3. offers \in Nat
  BY BoundAssumption DEF IInv, TypeOK
<1>4. \A c \in Cams : /\ mapVideoSource'[c] <= offers
                      /\ pc'["loop"] \in Entering => mapVideoSource'[c] < offers
  <2> SUFFICES ASSUME NEW c \in Cams
               PROVE  /\ mapVideoSource'[c] <= offers
                      /\ pc'["loop"] \in Entering => mapVideoSource'[c] < offers
    OBVIOUS
  <2>1. CASE mapVideoSource'[c] = mapVideoSource[c]
    BY <2>1 DEF FreshSource
  <2>2. CASE mapVideoSource'[c] = Nil
    BY <1>2, <1>3, <2>2
  <2> QED
    BY <2>1, <2>2
<1>5. FreshSource'
  BY <1>2, <1>3, <1>4 DEF FreshSource
<1> QED
  BY <1>1, <1>5

LEMMA FreshStep ==
  ASSUME IInv, FreshSource, OneCamera, Next
  PROVE  FreshSource' /\ OneCamera'
<1> DEFINE Kept == FreshSource' /\ OneCamera'
<1>0. offers \in Nat
  BY BoundAssumption DEF IInv, TypeOK
<1>1. ASSUME NEW i \in Ids, ReceiveOffer(i), mapVideoSource' = mapVideoSource, setPeerid' = setPeerid
      PROVE  Kept
  <2>1. offers' = offers + 1 /\ offers' \in Handles
    BY <1>0, <1>1, BoundAssumption DEF ReceiveOffer
  <2>2. \A c \in Cams : mapVideoSource[c] \in Int /\ mapVideoSource[c] <= offers
    BY DEF FreshSource, IInv, TypeOK
  <2>3. FreshSource'
    BY <1>0, <1>1, <2>1, <2>2 DEF FreshSource
  <2>4. OneCamera'
    BY <1>1 DEF OneCamera
  <2> QED
    BY <2>3, <2>4
<1>2. CASE AddTracks
  <2> DEFINE c == Cam("loop")
  <2>1. /\ pc["loop"] = "addTracks" /\ pc'["loop"] \notin Entering
        /\ offers' = offers /\ setPeerid' = setPeerid
    BY <1>2 DEF AddTracks, IInv, TypeOK, Entering
  <2>2. \A d \in Cams : mapVideoSource[d] \in Int /\ mapVideoSource[d] < offers
    BY <2>1 DEF FreshSource, Entering, IInv, TypeOK
  <2>3. \A d \in Cams : \/ mapVideoSource'[d] = mapVideoSource[d]
                        \/ d = c /\ mapVideoSource'[d] = offers
    BY <1>2 DEF AddTracks, IInv, TypeOK
  <2>4. OneCamera'
    BY <2>2, <2>3 DEF OneCamera
  <2>5. FreshSource'
    <3>1. \A d \in Cams : mapVideoSource'[d] <= offers
      BY <1>0, <2>2, <2>3
    <3> QED
      BY <2>1, <3>1 DEF FreshSource
  <2> QED
    BY <2>4, <2>5
<1>3. CASE AddRef
  <2> DEFINE s == mapVideoSource[Cam("loop")]
  <2>1. /\ pc["loop"] = "addRef" /\ pc'["loop"] \notin Entering
        /\ offers' = offers /\ mapVideoSource' = mapVideoSource
        /\ s # Nil
    BY <1>3 DEF AddRef, IInv, TypeOK, Entering
  <2>2. Cam("loop") \in Cams
    BY <2>1 DEF IInv, LoopPeer, PeersNamed
  <2>3. s \in Handles /\ s <= offers
    BY <2>1, <2>2 DEF FreshSource, IInv, TypeOK
  <2>4. \A r \in Handles : r # s => setPeerid'[r] = setPeerid[r]
    BY <1>3 DEF AddRef, IInv, TypeOK
  <2>5. FreshSource'
    BY <1>0, <2>1, <2>3, <2>4 DEF FreshSource
  <2>6. OneCamera'
    BY <2>1 DEF OneCamera
  <2> QED
    BY <2>5, <2>6
<1>4. ASSUME offers' = offers,
             mapVideoSource' = mapVideoSource \/ \E t \in Threads : EraseSource(t),
             setPeerid' = setPeerid \/ (\E t \in Threads : ReleaseSource(t)) \/ (\E w \in Workers : Reset(w)),
             pc'["loop"] \in Entering => pc["loop"] \in Entering
      PROVE  Kept
  <2>1. \A c \in Cams : mapVideoSource'[c] \in {mapVideoSource[c], Nil}
    BY <1>4 DEF EraseSource, IInv, TypeOK
  <2>2. \A s \in Handles : setPeerid'[s] \subseteq setPeerid[s]
    <3>1. CASE setPeerid' = setPeerid
      BY <3>1
    <3>2. CASE \E t \in Threads : ReleaseSource(t)
      BY <3>2 DEF ReleaseSource, IInv, TypeOK
    <3>3. CASE \E w \in Workers : Reset(w)
      BY <3>3 DEF Reset, IInv, TypeOK
    <3> QED
      BY <1>4, <3>1, <3>2, <3>3
  <2> QED
    BY <1>4, <2>1, <2>2, FreshFrame
<1>5. CASE BrowserMessage
  <2>1. ASSUME NEW i \in Ids, NEW c \in Cams, OfferNew(i, c) PROVE Kept
    BY <1>1, <2>1 DEF OfferNew
  <2>2. ASSUME NEW i \in Ids, OfferAgain(i) PROVE Kept
    BY <1>1, <2>2 DEF OfferAgain
  <2>3. ASSUME NEW i \in Ids, NEW m \in Faults, ReceiveForPeer(i, m) \/ Bye(i) PROVE Kept
    <3>1. UNCHANGED <<offers, mapVideoSource, setPeerid>>
      BY <2>3 DEF ReceiveForPeer, Bye
    <3>2. pc["loop"] = "idle" /\ (pc' = pc \/ Goto("loop", "deliver") \/ Goto("loop", "removeTracks"))
      BY <2>3 DEF ReceiveForPeer, Bye
    <3>3. pc'["loop"] \notin Entering
      BY <3>2 DEF Entering, IInv, TypeOK
    <3> QED
      BY <1>4, <3>1, <3>3
  <2>4. "peer_mismatch" \in Faults /\ "not_found" \in Faults
    OBVIOUS
  <2> QED
    BY <1>5, <2>1, <2>2, <2>3, <2>4 DEF BrowserMessage, RecvSdpOrCandidate, OnPeerCommand
<1>6. ASSUME NEW t \in Threads \ {"loop"}, NEW to \in Steps, Goto(t, to) \/ pc' = pc,
             offers' = offers, mapVideoSource' = mapVideoSource,
             setPeerid' = setPeerid \/ \E w \in Workers : Reset(w)
      PROVE  Kept
  <2>1. pc'["loop"] = pc["loop"]
    BY <1>6 DEF IInv, TypeOK
  <2> QED
    BY <1>4, <1>6, <2>1
<1>9. CASE OfferAnswered
  <2>1. UNCHANGED <<offers, mapVideoSource, setPeerid>>
    BY <1>9 DEF OfferAnswered, OnSuccess, OnFailure
  <2>2. pc' = pc \/ Goto("sig", "removeTracks")
    BY <1>9 DEF OfferAnswered, OnSuccess, OnFailure
  <2> QED
    BY <1>6, <2>1, <2>2
<1>10. CASE CameraDelete
  <2>1. PICK w \in Workers, c \in Cams : StopCamera(w, c)
    BY <1>10 DEF CameraDelete
  <2>2. Goto(w, "reset") /\ UNCHANGED <<offers, mapVideoSource, setPeerid>>
    BY <2>1 DEF StopCamera
  <2> QED
    BY <1>6, <2>2
<1>11. ASSUME NEW w \in Workers, WorkerContinues(w) PROVE Kept
  <2>1. offers' = offers /\ mapVideoSource' = mapVideoSource
    BY <1>11 DEF WorkerContinues, Reset, Tell, Crash
  <2>2. setPeerid' = setPeerid \/ Reset(w)
    BY <1>11 DEF WorkerContinues, Tell, Crash
  <2>3. pc' = pc \/ Goto(w, "tell") \/ Goto(w, "idle")
    BY <1>11 DEF WorkerContinues, Reset, Tell, Crash
  <2> QED
    BY <1>6, <2>1, <2>2, <2>3
<1>7. ASSUME NEW t \in {"loop", "sig"}, Remove(t) PROVE Kept
  <2>1. offers' = offers
    BY <1>7 DEF Remove, RemoveTracks, FindSource, ReleaseSource, LockForErase, EraseTrack, EraseSource
  <2>2. mapVideoSource' = mapVideoSource \/ EraseSource(t)
    BY <1>7 DEF Remove, RemoveTracks, FindSource, ReleaseSource, LockForErase, EraseTrack
  <2>3. setPeerid' = setPeerid \/ ReleaseSource(t)
    BY <1>7 DEF Remove, RemoveTracks, FindSource, LockForErase, EraseTrack, EraseSource
  <2>4. \E to \in RemoveSteps \union {"delete", "drop"} : Goto(t, to)
    BY <1>7, Zenon DEF Remove, RemoveTracks, FindSource, ReleaseSource, LockForErase, EraseTrack,
        EraseSource, AfterRemove
  <2>5. pc'["loop"] \in Entering => pc["loop"] \in Entering
    BY <2>4 DEF IInv, TypeOK, Entering
  <2> QED
    BY <1>4, <2>1, <2>2, <2>3, <2>5
<1>8. CASE \/ GetPeer \/ CreateTrack \/ SetEnabled \/ AddTrack \/ CreateOffer \/ Deliver \/ Delete
           \/ Drop \/ Crash("loop") \/ Crash("sig")
  <2>1. UNCHANGED <<offers, mapVideoSource, setPeerid>>
    BY <1>8 DEF GetPeer, CreateTrack, SetEnabled, AddTrack, CreateOffer, Deliver, Delete, Drop, Crash
  <2>2. \/ pc' = pc \/ GetPeer
        \/ Goto("sig", "idle")
        \/ \E to \in {"setEnabled", "addTrack", "addRef", "idle"} : Goto("loop", to)
    BY <1>8 DEF CreateTrack, SetEnabled, AddTrack, CreateOffer, Deliver, Delete, Drop, Crash
  <2>3. pc'["loop"] \in Entering => pc["loop"] \in Entering
    BY <2>2 DEF IInv, TypeOK, Entering, GetPeer
  <2> QED
    BY <1>4, <2>1, <2>3
<1> QED
  BY <1>2, <1>3, <1>5, <1>7, <1>8, <1>9, <1>10, <1>11 DEF Next, LoopContinues, SigContinues, Add

(***************************************************************************)
(* The reasons.  Most steps leave sessions and sources alone, or take      *)
(* viewers out.                                                            *)
(***************************************************************************)
LEMMA ReasonsFrame ==
  ASSUME IInv, Reasons,
         table' = table, peerid' = peerid, peerCam' = peerCam,
         mapVideoSource' = mapVideoSource,
         \A s \in Handles : setPeerid'[s] \subseteq setPeerid[s],
         pc["loop"] \in RemoveSteps => pc'["loop"] \in RemoveSteps /\ conn'["loop"] = conn["loop"],
         pc["loop"] \in OpenSteps => pc'["loop"] \in OpenSteps,
         pc["sig"] \in RemoveSteps => pc'["sig"] \in RemoveSteps /\ conn'["sig"] = conn["sig"],
         pc'["sig"] \in LateSteps => pc["sig"] \in LateSteps /\ conn'["sig"] = conn["sig"],
         pc'["sig"] = "drop" => pc["sig"] = "drop"
  PROVE  Reasons'
<1>1. \A c \in Cams : mapVideoSource[c] # Nil => mapVideoSource[c] \in Handles
  BY DEF IInv, TypeOK
<1>2. OpenSteps \subseteq RemoveSteps /\ "drop" \in LateSteps
  BY DEF OpenSteps, LateSteps
<1>3. Registered'
  <2>1. /\ OpenSteps' = OpenSteps
        /\ pc["loop"] \in OpenSteps => pc'["loop"] \in OpenSteps /\ conn'["loop"] = conn["loop"]
    BY <1>2 DEF OpenSteps
  <2>2. \A c \in Cams : Removing("loop", OpenSteps, c) => Removing("loop", OpenSteps, c)'
    BY <2>1 DEF Removing
  <2> SUFFICES ASSUME NEW c \in Cams, mapVideoSource[c] # Nil,
                      NEW i \in setPeerid'[mapVideoSource[c]]
               PROVE  InSession(i, c)' \/ (Removing("loop", OpenSteps, c)' /\ peerid[conn'["loop"]] = i)
    BY DEF Registered
  <2>3. \/ InSession(i, c)
        \/ Removing("loop", OpenSteps, c) /\ peerid[conn["loop"]] = i
    BY <1>1 DEF Reasons, Registered
  <2>4. InSession(i, c) => InSession(i, c)'
    BY DEF InSession
  <2> QED
    BY <2>1, <2>2, <2>3, <2>4 DEF Removing
<1>4. Released'
  <2> SUFFICES ASSUME pc'["sig"] \in LateSteps, mapVideoSource[Cam("sig")] # Nil
               PROVE  peerid[conn["sig"]] \notin setPeerid'[mapVideoSource[Cam("sig")]]
    BY DEF Released
  <2>1. pc["sig"] # "idle"
    BY DEF LateSteps
  <2>2. Cam("sig") \in Cams
    BY <2>1, FailingFacts
  <2> QED
    BY <1>1, <2>2 DEF Reasons, Released
<1>5. Wanted'
  <2>1. \A q : Dropping(q)' => Dropping(q)
    BY <1>2 DEF Dropping
  <2> QED
    BY <2>1 DEF Reasons, Wanted, InSession, Removing
<1> QED
  BY <1>3, <1>4, <1>5 DEF Reasons

\* A step that leaves the sources and the sessions as they are.
LEMMA LoopFrame ==
  ASSUME IInv, Reasons, NEW from, NEW to, LoopMoves(from, to),
         from \notin RemoveSteps \/ (conn' = conn /\ to \in RemoveSteps),
         from \in OpenSteps => to \in OpenSteps,
         conn'["sig"] = conn["sig"],
         UNCHANGED <<table, peerid, peerCam, mapVideoSource, setPeerid>>
  PROVE  Reasons'
  BY ReasonsFrame DEF LoopMoves

LEMMA SigFrame ==
  ASSUME IInv, Reasons, NEW from, NEW to, SigMoves(from, to),
         from \notin RemoveSteps \/ (conn' = conn /\ to \in RemoveSteps),
         to \in LateSteps => from \in LateSteps /\ conn' = conn,
         to # "drop",
         conn'["loop"] = conn["loop"],
         UNCHANGED <<table, peerid, peerCam, mapVideoSource, setPeerid>>
  PROVE  Reasons'
  BY ReasonsFrame DEF SigMoves

LEMMA WorkerReasons ==
  ASSUME IInv, Reasons, fault' = "none",
         CameraDelete \/ \E w \in Workers : WorkerContinues(w)
  PROVE  Reasons'
<1>1. \A w \in Workers : ~Crash(w)
  BY DEF Crash
<1>2. /\ UNCHANGED <<table, peerid, peerCam, mapVideoSource, conn>>
      /\ \E w \in Workers : \E to \in WorkerSteps : Goto(w, to)
  BY <1>1 DEF CameraDelete, StopCamera, WorkerContinues, Reset, Tell
<1>3. pc'["loop"] = pc["loop"] /\ pc'["sig"] = pc["sig"]
  <2> PICK w \in Workers, to \in WorkerSteps : Goto(w, to)
    BY <1>2
  <2> QED
    BY DEF IInv, TypeOK
<1>4. \A s \in Handles : setPeerid'[s] \subseteq setPeerid[s]
  <2>1. CASE setPeerid' = setPeerid
    BY <2>1
  <2>2. CASE \E w \in Workers : Reset(w)
    BY <2>2 DEF Reset, IInv, TypeOK
  <2> QED
    BY <1>1, <2>1, <2>2 DEF CameraDelete, StopCamera, WorkerContinues, Tell
<1> QED
  BY <1>2, <1>3, <1>4, ReasonsFrame

(***************************************************************************)
(* addMediaTracks.  The loop's Peer is in the table and nobody drops it.   *)
(***************************************************************************)
LEMMA AddTracksReasons ==
  ASSUME IInv, FreshSource, Reasons, ~Doomed, AddTracks
  PROVE  Reasons'
<1> DEFINE p == conn["loop"]
           c == Cam("loop")
<1>1. /\ pc["loop"] = "addTracks"
      /\ UNCHANGED <<table, peerid, peerCam, setPeerid, conn>>
      /\ LoopMoves("addTracks", "setEnabled") \/ LoopMoves("addTracks", "createTrack")
  BY LoopGoes DEF AddTracks
<1>2. CASE mapVideoSource' = mapVideoSource
  <2>1. "addTracks" \notin RemoveSteps /\ "addTracks" \notin OpenSteps
    BY DEF OpenSteps
  <2> QED
    BY <1>1, <1>2, <2>1, LoopFrame
<1>3. CASE mapVideoSource' # mapVideoSource
  <2>1. /\ p \in Handles /\ c \in Cams /\ peerid[p] \in Ids /\ table[peerid[p]] = p /\ ~Failing(p)
    BY <1>1, AddingFacts DEF AddingSteps
  <2>2. /\ mapVideoSource'[c] = offers /\ setPeerid[offers] = {}
        /\ \A d \in Cams : d # c => mapVideoSource'[d] = mapVideoSource[d]
    BY <1>1, <1>3, <2>1 DEF AddTracks, FreshSource, Entering, IInv, TypeOK
  <2>3. /\ pc["loop"] \notin RemoveSteps /\ pc["loop"] \notin OpenSteps
        /\ pc'["sig"] = pc["sig"]
    BY <1>1 DEF OpenSteps, LoopMoves
  <2>4. Registered'
    BY <1>1, <2>2, <2>3 DEF Reasons, Registered, InSession, Removing
  <2>5. Released'
    <3> SUFFICES ASSUME pc["sig"] \in LateSteps, mapVideoSource'[Cam("sig")] # Nil
                 PROVE  peerid[conn["sig"]] \notin setPeerid[mapVideoSource'[Cam("sig")]]
      BY <1>1, <2>3 DEF Released
    <3>1. Cam("sig") \in Cams
      BY FailingFacts DEF LateSteps
    <3> QED
      BY <2>2, <3>1 DEF Reasons, Released
  <2>6. Wanted'
    <3>1. \A q : Dropping(q)' <=> Dropping(q)
      BY <1>1, <2>3 DEF Dropping
    <3>2. InSession(peerid[p], c)' /\ ~Dropping(table[peerid[p]])'
      BY <1>1, <2>1, <3>1 DEF InSession, Dropping, Failing
    <3>3. ASSUME NEW d \in Cams, d # c, mapVideoSource[d] # Nil
          PROVE  Removing("sig", RemoveSteps, d)' \/ \E i \in Ids : InSession(i, d)' /\ ~Dropping(table[i])'
      BY <1>1, <2>3, <3>1, <3>3 DEF Reasons, Wanted, Removing, InSession
    <3>4. ASSUME NEW d \in Cams, mapVideoSource'[d] # Nil
          PROVE  \/ Removing("loop", RemoveSteps, d)' \/ Removing("sig", RemoveSteps, d)'
                 \/ \E i \in Ids : InSession(i, d)' /\ ~Dropping(table[i])'
      <4>1. CASE d = c
        BY <1>1, <2>1, <3>2, <4>1 DEF InSession
      <4>2. CASE d # c
        <5>1. mapVideoSource[d] # Nil
          BY <2>2, <3>4, <4>2
        <5> QED
          BY <3>3, <4>2, <5>1, Zenon
      <4> QED
        BY <4>1, <4>2
    <3> QED
      BY <3>4, Zenon DEF Wanted
  <2> QED
    BY <2>4, <2>5, <2>6 DEF Reasons
<1> QED
  BY <1>2, <1>3

LEMMA AddRefReasons ==
  ASSUME IInv, OneCamera, Reasons, ~Doomed, AddRef
  PROVE  Reasons'
<1> DEFINE p == conn["loop"]
           c == Cam("loop")
           s == mapVideoSource[c]
<1>1. /\ pc["loop"] = "addRef" /\ s # Nil
      /\ UNCHANGED <<table, peerid, peerCam, mapVideoSource, conn>>
      /\ LoopMoves("addRef", "createOffer")
  BY LoopGoes DEF AddRef
<1>2. /\ p \in Handles /\ c \in Cams /\ peerid[p] \in Ids /\ table[peerid[p]] = p /\ ~Failing(p)
  BY <1>1, AddingFacts DEF AddingSteps
<1>3. /\ s \in Handles
      /\ setPeerid'[s] = setPeerid[s] \union {peerid[p]}
      /\ \A r \in Handles : r # s => setPeerid'[r] = setPeerid[r]
  BY <1>1, <1>2 DEF AddRef, IInv, TypeOK
<1>4. /\ pc["loop"] \notin RemoveSteps /\ pc["loop"] \notin OpenSteps
      /\ pc'["sig"] = pc["sig"]
  BY <1>1 DEF OpenSteps, LoopMoves
<1>5. \A d \in Cams : mapVideoSource[d] # Nil => /\ mapVideoSource[d] \in Handles
                                                 /\ mapVideoSource[d] = s => d = c
  BY <1>2 DEF OneCamera, IInv, TypeOK
<1>6. Registered'
  <2>1. InSession(peerid[p], c)
    BY <1>2 DEF InSession
  <2>2. \A d \in Cams : mapVideoSource[d] # Nil => \A i \in setPeerid'[mapVideoSource[d]] : InSession(i, d)
    BY <1>3, <1>4, <1>5, <2>1 DEF Reasons, Registered, Removing
  <2> QED
    BY <1>1, <2>2 DEF Registered, InSession
<1>7. Released'
  <2> SUFFICES ASSUME pc["sig"] \in LateSteps, mapVideoSource[Cam("sig")] # Nil
               PROVE  peerid[conn["sig"]] \notin setPeerid'[mapVideoSource[Cam("sig")]]
    BY <1>1, <1>4 DEF Released
  <2>1. pc["sig"] # "idle"
    BY DEF LateSteps
  <2>2. Cam("sig") \in Cams /\ table[peerid[conn["sig"]]] = conn["sig"]
    BY <1>1, <2>1, FailingFacts DEF OwnedByLoop
  <2>3. peerid[conn["sig"]] # peerid[p]
    BY <1>2, <2>1, <2>2 DEF Failing
  <2>4. peerid[conn["sig"]] \notin setPeerid[mapVideoSource[Cam("sig")]]
    BY DEF Reasons, Released
  <2> QED
    BY <1>3, <1>5, <2>2, <2>3, <2>4
<1>8. Wanted'
  <2>1. \A q : Dropping(q)' <=> Dropping(q)
    BY <1>1, <1>4 DEF Dropping
  <2> QED
    BY <1>1, <1>4, <2>1 DEF Reasons, Wanted, Removing, InSession
<1> QED
  BY <1>6, <1>7, <1>8 DEF Reasons

(***************************************************************************)
(* The steps that leave the table, the map and the viewer sets alone.      *)
(***************************************************************************)
LEMMA LoopQuietReasons ==
  ASSUME IInv, Reasons,
         \/ GetPeer \/ CreateTrack \/ SetEnabled \/ AddTrack \/ CreateOffer \/ Deliver \/ Delete
         \/ RemoveTracks("loop") \/ LockForErase("loop") \/ EraseTrack("loop")
  PROVE  Reasons'
<1>1. ASSUME NEW from, NEW to, pc["loop"] = from, Goto("loop", to), conn' = conn,
             from \notin RemoveSteps \/ to \in RemoveSteps,
             from \in OpenSteps => to \in OpenSteps,
             UNCHANGED <<table, peerid, peerCam, mapVideoSource, setPeerid>>
      PROVE  Reasons'
  <2>1. LoopMoves(from, to)
    BY <1>1, LoopGoes
  <2> QED
    BY <1>1, <2>1, LoopFrame
<1>2. UNCHANGED <<table, peerid, peerCam, mapVideoSource, setPeerid>> /\ conn' = conn
  BY DEF GetPeer, CreateTrack, SetEnabled, AddTrack, CreateOffer, Deliver, Delete, RemoveTracks,
      LockForErase, EraseTrack
<1>3. CASE GetPeer \/ CreateTrack \/ SetEnabled \/ AddTrack \/ CreateOffer \/ Deliver \/ Delete
  <2>1. \E from \in {"get", "createTrack", "setEnabled", "addTrack", "createOffer", "deliver", "delete"},
           to \in {"idle", "addTracks", "setEnabled", "addTrack", "addRef"} :
           pc["loop"] = from /\ Goto("loop", to)
    BY <1>3, Zenon DEF GetPeer, CreateTrack, SetEnabled, AddTrack, CreateOffer, Deliver, Delete
  <2>2. PICK from \in {"get", "createTrack", "setEnabled", "addTrack", "createOffer", "deliver", "delete"},
             to \in {"idle", "addTracks", "setEnabled", "addTrack", "addRef"} :
             pc["loop"] = from /\ Goto("loop", to)
    BY <2>1
  <2>3. from \notin RemoveSteps /\ from \notin OpenSteps
    BY DEF OpenSteps
  <2> HIDE DEF Goto
  <2> QED
    BY <1>1, <1>2, <2>2, <2>3
<1>4. CASE RemoveTracks("loop")
  <2>1. pc["loop"] = "removeTracks" /\ Goto("loop", "find")
    BY <1>4 DEF RemoveTracks
  <2>2. "find" \in RemoveSteps /\ "find" \in OpenSteps
    BY DEF OpenSteps
  <2> HIDE DEF Goto
  <2> QED
    BY <1>1, <1>2, <2>1, <2>2
<1>5. CASE LockForErase("loop") \/ EraseTrack("loop")
  <2>1. \/ pc["loop"] = "lock" /\ Goto("loop", "eraseTrack")
        \/ pc["loop"] = "eraseTrack" /\ Goto("loop", "eraseSource")
    BY <1>5 DEF LockForErase, EraseTrack
  <2>2. /\ "eraseTrack" \in RemoveSteps /\ "eraseSource" \in RemoveSteps
        /\ "lock" \notin OpenSteps /\ "eraseTrack" \notin OpenSteps
    BY DEF OpenSteps
  <2> HIDE DEF Goto
  <2> QED
    BY <1>1, <1>2, <2>1, <2>2
<1> QED
  BY <1>3, <1>4, <1>5

LEMMA SigQuietReasons ==
  ASSUME IInv, Reasons,
         \/ RemoveTracks("sig") \/ LockForErase("sig") \/ EraseTrack("sig")
         \/ \E p \in Handles : OnSuccess(p) \/ OnFailure(p)
  PROVE  Reasons'
<1>1. UNCHANGED <<table, peerid, peerCam, mapVideoSource, setPeerid>>
  BY DEF RemoveTracks, LockForErase, EraseTrack, OnSuccess, OnFailure
<1>2. CASE RemoveTracks("sig")
  <2>1. conn' = conn /\ SigMoves("removeTracks", "find")
    BY <1>2, SigGoes DEF RemoveTracks
  <2>2. "find" \in RemoveSteps /\ "find" \notin LateSteps
    BY DEF LateSteps
  <2> QED
    BY <1>1, <2>1, <2>2, SigFrame
<1>3. CASE LockForErase("sig") \/ EraseTrack("sig")
  <2>1. conn' = conn /\ (SigMoves("lock", "eraseTrack") \/ SigMoves("eraseTrack", "eraseSource"))
    BY <1>3, SigGoes DEF LockForErase, EraseTrack
  <2>2. /\ "eraseTrack" \in RemoveSteps /\ "eraseSource" \in RemoveSteps
        /\ "lock" \in LateSteps /\ "eraseTrack" \in LateSteps
    BY DEF LateSteps
  <2> QED
    BY <1>1, <2>1, <2>2, SigFrame
<1>4. CASE \E p \in Handles : OnSuccess(p)
  BY <1>1, <1>4, ReasonsFrame DEF OnSuccess
<1>5. CASE \E p \in Handles : OnFailure(p)
  <2> PICK p \in Handles : OnFailure(p)
    BY <1>5
  <2>1. conn'["loop"] = conn["loop"] /\ SigMoves("idle", "removeTracks")
    BY SigGoes DEF OnFailure, Answered, IInv, TypeOK
  <2>2. "idle" \notin RemoveSteps /\ "removeTracks" \notin LateSteps
    BY DEF LateSteps
  <2> QED
    BY <1>1, <2>1, <2>2, SigFrame
<1> QED
  BY <1>2, <1>3, <1>4, <1>5

LEMMA MessageReasons ==
  ASSUME IInv, Reasons, fault' = "none", NEW i \in Ids,
         OfferAgain(i) \/ RecvSdpOrCandidate(i) \/ OnPeerCommand(i)
  PROVE  Reasons'
<1>1. \/ LoopMoves("idle", "get")
      \/ LoopMoves("idle", "deliver")
  <2>1. /\ pc["loop"] = "idle"
        /\ Goto("loop", "get") \/ Goto("loop", "deliver")
    BY DEF OfferAgain, ReceiveOffer, RecvSdpOrCandidate, OnPeerCommand, ReceiveForPeer
  <2> QED
    BY <2>1, LoopGoes
<1>2. /\ conn'["sig"] = conn["sig"]
      /\ UNCHANGED <<table, peerid, peerCam, mapVideoSource, setPeerid>>
  BY DEF OfferAgain, ReceiveOffer, RecvSdpOrCandidate, OnPeerCommand, ReceiveForPeer, IInv, TypeOK
<1>3. "idle" \notin RemoveSteps /\ "idle" \notin OpenSteps
  BY DEF OpenSteps
<1> QED
  BY <1>1, <1>2, <1>3, LoopFrame

(***************************************************************************)
(* remove() is over for a source that is no longer in the map.             *)
(***************************************************************************)
LEMMA LoopLeavesReasons ==
  ASSUME IInv, Reasons, NEW from \in RemoveSteps, LoopMoves(from, "delete"),
         UNCHANGED <<table, peerid, peerCam, setPeerid, conn>>,
         mapVideoSource'[Cam("loop")] = Nil,
         \A d \in Cams : d # Cam("loop") => mapVideoSource'[d] = mapVideoSource[d]
  PROVE  Reasons'
<1>1. \A d \in Cams : mapVideoSource'[d] # Nil =>
        /\ mapVideoSource'[d] = mapVideoSource[d]
        /\ Cam("loop") # d
  OBVIOUS
<1>2. pc'["sig"] = pc["sig"] /\ \A q : Dropping(q)' <=> Dropping(q)
  BY DEF LoopMoves, Dropping
<1>3. Registered'
  <2> SUFFICES ASSUME NEW c \in Cams, mapVideoSource'[c] # Nil, NEW i \in setPeerid[mapVideoSource'[c]]
               PROVE  InSession(i, c)'
    BY Zenon DEF Registered
  <2>1. InSession(i, c)
    BY <1>1 DEF Reasons, Registered, Removing
  <2> QED
    BY <2>1 DEF InSession
<1>4. Released'
  <2> SUFFICES ASSUME pc["sig"] \in LateSteps, mapVideoSource'[Cam("sig")] # Nil
               PROVE  peerid[conn["sig"]] \notin setPeerid[mapVideoSource'[Cam("sig")]]
    BY <1>2 DEF Released
  <2>1. Cam("sig") \in Cams
    BY FailingFacts DEF LateSteps
  <2> QED
    BY <1>1, <2>1 DEF Reasons, Released
<1>5. Wanted'
  <2> SUFFICES ASSUME NEW c \in Cams, mapVideoSource'[c] # Nil
               PROVE  Removing("sig", RemoveSteps, c)' \/ \E i \in Ids : InSession(i, c)' /\ ~Dropping(table[i])'
    BY Zenon DEF Wanted
  <2> QED
    BY <1>1, <1>2 DEF Reasons, Wanted, Removing, InSession
<1> QED
  BY <1>3, <1>4, <1>5 DEF Reasons

LEMMA SigLeavesReasons ==
  ASSUME IInv, Reasons, NEW from \in RemoveSteps, SigMoves(from, "drop"),
         UNCHANGED <<table, peerid, peerCam, setPeerid, conn>>,
         mapVideoSource'[Cam("sig")] = Nil,
         \A d \in Cams : d # Cam("sig") => mapVideoSource'[d] = mapVideoSource[d]
  PROVE  Reasons'
<1>1. \A d \in Cams : mapVideoSource'[d] # Nil =>
        /\ mapVideoSource'[d] = mapVideoSource[d]
        /\ Cam("sig") # d
  OBVIOUS
<1>2. pc'["loop"] = pc["loop"] /\ pc["sig"] # "drop"
  BY DEF SigMoves
<1>3. Registered'
  <2> SUFFICES ASSUME NEW c \in Cams, mapVideoSource'[c] # Nil, NEW i \in setPeerid[mapVideoSource'[c]]
               PROVE  InSession(i, c)' \/ (Removing("loop", OpenSteps, c)' /\ peerid[conn["loop"]] = i)
    BY Zenon DEF Registered
  <2>1. InSession(i, c) \/ (Removing("loop", OpenSteps, c) /\ peerid[conn["loop"]] = i)
    BY <1>1 DEF Reasons, Registered
  <2> QED
    BY <1>2, <2>1 DEF InSession, Removing, OpenSteps
<1>4. Released'
  BY DEF Released
<1>5. Wanted'
  <2> SUFFICES ASSUME NEW c \in Cams, mapVideoSource'[c] # Nil
               PROVE  Removing("loop", RemoveSteps, c)' \/ \E i \in Ids : InSession(i, c)' /\ ~Dropping(table[i])'
    BY Zenon DEF Wanted
  <2>1. Removing("loop", RemoveSteps, c) \/ \E i \in Ids : InSession(i, c)
    BY <1>1 DEF Reasons, Wanted, Removing
  <2>2. Removing("loop", RemoveSteps, c) => Removing("loop", RemoveSteps, c)'
    BY <1>2 DEF Removing
  <2>3. ASSUME NEW i \in Ids, InSession(i, c)
        PROVE  InSession(i, c)' /\ ~Dropping(table[i])'
    BY <1>1, <2>3 DEF InSession, Dropping
  <2> QED
    BY <2>1, <2>2, <2>3
<1> QED
  BY <1>3, <1>4, <1>5 DEF Reasons

LEMMA FindReasons ==
  ASSUME IInv, Reasons, NEW t \in {"loop", "sig"}, FindSource(t)
  PROVE  Reasons'
<1>1. /\ pc[t] = "find"
      /\ UNCHANGED <<table, peerid, peerCam, mapVideoSource, setPeerid, conn>>
  BY DEF FindSource
<1>2. "find" \in RemoveSteps /\ "release" \in RemoveSteps /\ "release" \in OpenSteps /\ "release" \notin LateSteps
  BY DEF OpenSteps, LateSteps
<1>3. CASE t = "loop"
  <2>1. CASE mapVideoSource[Cam("loop")] # Nil
    <3>1. LoopMoves("find", "release")
      BY <1>1, <1>3, <2>1, LoopGoes DEF FindSource
    <3> QED
      BY <1>1, <1>2, <3>1, LoopFrame
  <2>2. CASE mapVideoSource[Cam("loop")] = Nil
    <3>1. LoopMoves("find", "delete")
      BY <1>1, <1>3, <2>2, LoopGoes DEF FindSource, AfterRemove
    <3> QED
      BY <1>1, <1>2, <2>2, <3>1, LoopLeavesReasons
  <2> QED
    BY <2>1, <2>2
<1>4. CASE t = "sig"
  <2>1. CASE mapVideoSource[Cam("sig")] # Nil
    <3>1. SigMoves("find", "release")
      BY <1>1, <1>4, <2>1, SigGoes DEF FindSource
    <3> QED
      BY <1>1, <1>2, <3>1, SigFrame
  <2>2. CASE mapVideoSource[Cam("sig")] = Nil
    <3>1. SigMoves("find", "drop")
      BY <1>1, <1>4, <2>2, SigGoes DEF FindSource, AfterRemove
    <3> QED
      BY <1>1, <1>2, <2>2, <3>1, SigLeavesReasons
  <2> QED
    BY <2>1, <2>2
<1> QED
  BY <1>3, <1>4

LEMMA EraseReasons ==
  ASSUME IInv, Reasons, NEW t \in {"loop", "sig"}, EraseSource(t)
  PROVE  Reasons'
<1>1. /\ pc[t] = "eraseSource" /\ "eraseSource" \in RemoveSteps
      /\ Goto(t, AfterRemove(t))
      /\ UNCHANGED <<table, peerid, peerCam, setPeerid, conn>>
  BY DEF EraseSource
<1>2. /\ mapVideoSource'[Cam(t)] = Nil
      /\ \A d \in Cams : d # Cam(t) => mapVideoSource'[d] = mapVideoSource[d]
  <2>1. Cam(t) \in Cams
    BY <1>1 DEF IInv, LoopPeer, SigPeer, CallbackPeerAlive, PeersNamed
  <2> QED
    BY <2>1 DEF EraseSource, IInv, TypeOK
<1>3. CASE t = "loop"
  <2>1. LoopMoves("eraseSource", "delete")
    BY <1>1, <1>3, LoopGoes DEF AfterRemove
  <2> QED
    BY <1>1, <1>2, <1>3, <2>1, LoopLeavesReasons
<1>4. CASE t = "sig"
  <2>1. SigMoves("eraseSource", "drop")
    BY <1>1, <1>4, SigGoes DEF AfterRemove
  <2> QED
    BY <1>1, <1>2, <1>4, <2>1, SigLeavesReasons
<1> QED
  BY <1>3, <1>4

(***************************************************************************)
(* myRelease: the viewer that leaves is the only one taken out.            *)
(***************************************************************************)
LEMMA LoopReleaseReasons ==
  ASSUME IInv, OneCamera, Reasons, ReleaseSource("loop")
  PROVE  Reasons'
<1> DEFINE c == Cam("loop")
           s == mapVideoSource[c]
           i == peerid[conn["loop"]]
<1>1. /\ pc["loop"] = "release" /\ s # Nil
      /\ UNCHANGED <<table, peerid, peerCam, mapVideoSource, conn>>
  BY DEF ReleaseSource
<1>2. c \in Cams /\ conn["loop"] \in Handles
  BY <1>1 DEF IInv, LoopPeer, PeersNamed
<1>3. /\ s \in Handles
      /\ setPeerid'[s] = setPeerid[s] \ {i}
      /\ \A r \in Handles : r # s => setPeerid'[r] = setPeerid[r]
  BY <1>1, <1>2 DEF ReleaseSource, IInv, TypeOK
<1>4. \/ LoopMoves("release", "lock") /\ setPeerid'[s] = {}
      \/ LoopMoves("release", "delete") /\ setPeerid'[s] # {}
  BY <1>1, <1>3, LoopGoes DEF ReleaseSource, DropsLast, AfterRemove
<1>5. pc'["sig"] = pc["sig"] /\ \A q : Dropping(q)' <=> Dropping(q)
  BY <1>1, <1>4 DEF LoopMoves, Dropping
<1>6. \A d \in Cams : mapVideoSource[d] # Nil => /\ mapVideoSource[d] \in Handles
                                                 /\ mapVideoSource[d] = s => d = c
  BY <1>2 DEF OneCamera, IInv, TypeOK
<1>7. ASSUME NEW d \in Cams, mapVideoSource[d] # Nil, NEW j \in setPeerid'[mapVideoSource[d]]
      PROVE  j \in setPeerid[mapVideoSource[d]] /\ InSession(j, d)
  <2>1. j \in setPeerid[mapVideoSource[d]] /\ (d = c => j # i)
    BY <1>3, <1>6, <1>7
  <2>2. InSession(j, d) \/ (Removing("loop", OpenSteps, d) /\ i = j)
    BY <1>7, <2>1 DEF Reasons, Registered
  <2> QED
    BY <2>1, <2>2 DEF Removing
<1>8. Registered'
  <2> SUFFICES ASSUME NEW d \in Cams, mapVideoSource[d] # Nil, NEW j \in setPeerid'[mapVideoSource[d]]
               PROVE  InSession(j, d)'
    BY <1>1, Zenon DEF Registered
  <2> QED
    BY <1>1, <1>7 DEF InSession
<1>9. Released'
  <2> SUFFICES ASSUME pc["sig"] \in LateSteps, mapVideoSource[Cam("sig")] # Nil
               PROVE  peerid[conn["sig"]] \notin setPeerid'[mapVideoSource[Cam("sig")]]
    BY <1>1, <1>5 DEF Released
  <2>1. Cam("sig") \in Cams
    BY FailingFacts DEF LateSteps
  <2> QED
    BY <1>7, <2>1 DEF Reasons, Released
<1>10. Wanted'
  <2> SUFFICES ASSUME NEW d \in Cams, mapVideoSource[d] # Nil
               PROVE  \/ Removing("loop", RemoveSteps, d)' \/ Removing("sig", RemoveSteps, d)'
                      \/ \E j \in Ids : InSession(j, d)' /\ ~Dropping(table[j])'
    BY <1>1, Zenon DEF Wanted
  <2>1. CASE d # c
    <3>1. Removing("sig", RemoveSteps, d) \/ \E j \in Ids : InSession(j, d) /\ ~Dropping(table[j])
      BY <2>1 DEF Reasons, Wanted, Removing
    <3>2. Removing("sig", RemoveSteps, d) => Removing("sig", RemoveSteps, d)'
      BY <1>1, <1>5 DEF Removing
    <3>3. ASSUME NEW j \in Ids, InSession(j, d), ~Dropping(table[j])
          PROVE  InSession(j, d)' /\ ~Dropping(table[j])'
      BY <1>1, <1>5, <3>3 DEF InSession, Dropping
    <3> QED
      BY <3>1, <3>2, <3>3
  <2>2. CASE d = c /\ setPeerid'[s] = {}
    BY <1>1, <1>4, <2>2 DEF LoopMoves, Removing
  <2>3. CASE d = c /\ setPeerid'[s] # {}
    <3>1. PICK j \in setPeerid'[mapVideoSource[d]] : TRUE
      BY <2>3
    <3>2. j \in setPeerid[mapVideoSource[d]] /\ InSession(j, d)
      BY <1>7, <3>1
    <3>3. j \in Ids
      BY <1>6, <3>2 DEF IInv, TypeOK
    <3>4. table[j] # Nil /\ peerid[table[j]] = j /\ peerCam[table[j]] = d
      BY <3>2, <3>3, TableFacts DEF InSession
    <3>5. ~Dropping(table[j])
      BY <3>2, <3>4 DEF Dropping, Reasons, Released, LateSteps
    <3>6. InSession(j, d)' /\ ~Dropping(table[j])'
      BY <1>1, <1>5, <3>2, <3>5 DEF InSession, Dropping
    <3> QED
      BY <3>3, <3>6
  <2> QED
    BY <2>1, <2>2, <2>3
<1> QED
  BY <1>8, <1>9, <1>10 DEF Reasons

LEMMA SigReleaseReasons ==
  ASSUME IInv, OneCamera, Reasons, ReleaseSource("sig")
  PROVE  Reasons'
<1> DEFINE c == Cam("sig")
           s == mapVideoSource[c]
           i == peerid[conn["sig"]]
<1>1. /\ pc["sig"] = "release" /\ s # Nil
      /\ UNCHANGED <<table, peerid, peerCam, mapVideoSource, conn>>
  BY DEF ReleaseSource
<1>2. c \in Cams
  BY <1>1, FailingFacts
<1>3. /\ s \in Handles
      /\ setPeerid'[s] = setPeerid[s] \ {i}
      /\ \A r \in Handles : r # s => setPeerid'[r] = setPeerid[r]
  BY <1>1, <1>2 DEF ReleaseSource, IInv, TypeOK
<1>4. \/ SigMoves("release", "lock") /\ setPeerid'[s] = {}
      \/ SigMoves("release", "drop") /\ setPeerid'[s] # {}
  BY <1>1, <1>3, SigGoes DEF ReleaseSource, DropsLast, AfterRemove
<1>5. pc'["loop"] = pc["loop"]
  BY <1>4 DEF SigMoves
<1>6. \A d \in Cams : mapVideoSource[d] # Nil => mapVideoSource[d] \in Handles
  BY DEF IInv, TypeOK
<1>7. ASSUME NEW d \in Cams, mapVideoSource[d] # Nil, NEW j \in setPeerid'[mapVideoSource[d]]
      PROVE  /\ j \in Ids
             /\ d = c => j # i
             /\ InSession(j, d) \/ (Removing("loop", OpenSteps, d) /\ peerid[conn["loop"]] = j)
  <2>1. j \in setPeerid[mapVideoSource[d]] /\ (d = c => j # i)
    BY <1>3, <1>6, <1>7
  <2>2. j \in Ids
    BY <1>6, <1>7, <2>1 DEF IInv, TypeOK
  <2> QED
    BY <1>7, <2>1, <2>2 DEF Reasons, Registered
<1>8. \A d : Removing("loop", OpenSteps, d) => Removing("loop", OpenSteps, d)' /\ Removing("loop", RemoveSteps, d)'
  BY <1>1, <1>5 DEF Removing, OpenSteps
<1>9. Registered'
  <2> SUFFICES ASSUME NEW d \in Cams, mapVideoSource[d] # Nil, NEW j \in setPeerid'[mapVideoSource[d]]
               PROVE  InSession(j, d)' \/ (Removing("loop", OpenSteps, d)' /\ peerid[conn["loop"]] = j)
    BY <1>1, Zenon DEF Registered
  <2>1. InSession(j, d) => InSession(j, d)'
    BY <1>1 DEF InSession
  <2> QED
    BY <1>7, <1>8, <2>1
<1>10. Released'
  BY <1>1, <1>3 DEF Released
<1>11. Wanted'
  <2> SUFFICES ASSUME NEW d \in Cams, mapVideoSource[d] # Nil
               PROVE  \/ Removing("loop", RemoveSteps, d)' \/ Removing("sig", RemoveSteps, d)'
                      \/ \E j \in Ids : InSession(j, d)' /\ ~Dropping(table[j])'
    BY <1>1, Zenon DEF Wanted
  <2>1. CASE d # c
    <3>1. Removing("loop", RemoveSteps, d) \/ \E j \in Ids : InSession(j, d)
      BY <2>1 DEF Reasons, Wanted, Removing
    <3>2. Removing("loop", RemoveSteps, d) => Removing("loop", RemoveSteps, d)'
      BY <1>1, <1>5 DEF Removing
    <3>3. ASSUME NEW j \in Ids, InSession(j, d)
          PROVE  InSession(j, d)' /\ ~Dropping(table[j])'
      BY <1>1, <2>1, <3>3 DEF InSession, Dropping
    <3> QED
      BY <3>1, <3>2, <3>3
  <2>2. CASE d = c /\ setPeerid'[s] = {}
    BY <1>1, <1>4, <2>2 DEF SigMoves, Removing
  <2>3. CASE d = c /\ setPeerid'[s] # {}
    <3>1. PICK j \in setPeerid'[mapVideoSource[d]] : TRUE
      BY <2>3
    <3>2. j \in Ids /\ j # i
      BY <1>7, <2>3, <3>1
    <3>3. CASE InSession(j, d)
      <4>1. table[j] # Nil /\ peerid[table[j]] = j
        BY <3>2, <3>3, TableFacts DEF InSession
      <4>2. InSession(j, d)' /\ ~Dropping(table[j])'
        BY <1>1, <3>2, <3>3, <4>1 DEF InSession, Dropping
      <4> QED
        BY <3>2, <4>2
    <3>4. CASE Removing("loop", OpenSteps, d)
      BY <1>8, <3>4
    <3> QED
      BY <1>7, <3>1, <3>3, <3>4
  <2> QED
    BY <2>1, <2>2, <2>3
<1> QED
  BY <1>9, <1>10, <1>11 DEF Reasons

(***************************************************************************)
(* The steps that open and end a session.                                  *)
(***************************************************************************)
LEMMA OfferNewReasons ==
  ASSUME IInv, Reasons, NEW i \in Ids, NEW c \in Cams, OfferNew(i, c)
  PROVE  Reasons'
<1> DEFINE h == offers'
<1>1. /\ pc["loop"] = "idle" /\ pc["sig"] = "idle" /\ table[i] = Nil
      /\ UNCHANGED <<mapVideoSource, setPeerid>>
      /\ LoopMoves("idle", "addTracks")
  BY LoopGoes DEF OfferNew, ReceiveOffer, CanCall
<1>2. h \in Handles /\ life[h] = "none"
  BY BoundAssumption DEF OfferNew, ReceiveOffer, IInv, HandlesFresh, TypeOK
<1>3. ASSUME NEW j \in Ids, NEW d, InSession(j, d)
      PROVE  InSession(j, d)'
  <2>1. table[j] # Nil /\ table[j] \in Handles /\ table[j] # h /\ j # i
    BY <1>1, <1>2, <1>3, TableFacts DEF InSession
  <2>2. table'[j] = table[j] /\ peerCam'[table[j]] = peerCam[table[j]]
    BY <1>2, <2>1 DEF OfferNew, IInv, TypeOK
  <2> QED
    BY <1>3, <2>1, <2>2 DEF InSession
<1>4. /\ \A t, d : t \in {"loop", "sig"} => ~Removing(t, OpenSteps, d) /\ ~Removing(t, RemoveSteps, d)
      /\ pc'["sig"] = "idle"
  BY <1>1 DEF Removing, OpenSteps, LoopMoves
<1>5. \A d \in Cams : mapVideoSource[d] # Nil => setPeerid[mapVideoSource[d]] \subseteq Ids
  BY DEF IInv, TypeOK
<1>6. Registered'
  <2> SUFFICES ASSUME NEW d \in Cams, mapVideoSource[d] # Nil, NEW j \in setPeerid[mapVideoSource[d]]
               PROVE  InSession(j, d)'
    BY <1>1, Zenon DEF Registered
  <2>1. j \in Ids /\ InSession(j, d)
    BY <1>4, <1>5 DEF Reasons, Registered
  <2> QED
    BY <1>3, <2>1
<1>7. Released'
  BY <1>4 DEF Released, LateSteps
<1>8. Wanted'
  <2> SUFFICES ASSUME NEW d \in Cams, mapVideoSource[d] # Nil
               PROVE  \E j \in Ids : InSession(j, d)' /\ ~Dropping(table[j])'
    BY <1>1, Zenon DEF Wanted
  <2>1. PICK j \in Ids : InSession(j, d)
    BY <1>4 DEF Reasons, Wanted
  <2>2. InSession(j, d)' /\ ~Dropping(table[j])'
    BY <1>3, <1>4, <2>1 DEF Dropping
  <2> QED
    BY <2>2
<1> QED
  BY <1>6, <1>7, <1>8 DEF Reasons

LEMMA ByeReasons ==
  ASSUME IInv, Reasons, NEW i \in Ids, Bye(i)
  PROVE  Reasons'
<1> DEFINE q == table[i]
<1>1. /\ pc["loop"] = "idle"
      /\ UNCHANGED <<peerid, peerCam, mapVideoSource, setPeerid>>
  BY DEF Bye
<1>2. CASE table[i] = Nil
  BY <1>1, <1>2, ReasonsFrame DEF Bye
<1>3. CASE table[i] # Nil
  <2>1. /\ LoopMoves("idle", "removeTracks")
        /\ conn'["sig"] = conn["sig"] /\ conn'["loop"] = q
        /\ \A j \in Ids : j # i => table'[j] = table[j]
    BY <1>1, <1>3, LoopGoes DEF Bye, IInv, TypeOK
  <2>2. peerid[q] = i
    BY <1>3, TableFacts
  <2>3. \A d : ~Removing("loop", OpenSteps, d) /\ ~Removing("loop", RemoveSteps, d)
    BY <1>1 DEF Removing, OpenSteps
  <2>4. \A d : peerCam[q] = d => Removing("loop", OpenSteps, d)' /\ Removing("loop", RemoveSteps, d)'
    BY <1>1, <2>1 DEF Removing, OpenSteps, LoopMoves
  <2>5. pc'["sig"] = pc["sig"] /\ \A r : Dropping(r)' <=> Dropping(r)
    BY <2>1 DEF LoopMoves, Dropping
  <2>6. ASSUME NEW j \in Ids, NEW d, InSession(j, d)
        PROVE  IF j = i THEN peerCam[q] = d ELSE InSession(j, d)' /\ table'[j] = table[j]
    BY <1>1, <2>1, <2>6 DEF InSession
  <2>7. \A d \in Cams : mapVideoSource[d] # Nil => setPeerid[mapVideoSource[d]] \subseteq Ids
    BY DEF IInv, TypeOK
  <2>8. Registered'
    <3> SUFFICES ASSUME NEW d \in Cams, mapVideoSource[d] # Nil, NEW j \in setPeerid[mapVideoSource[d]]
                 PROVE  InSession(j, d)' \/ (Removing("loop", OpenSteps, d)' /\ peerid[conn'["loop"]] = j)
      BY <1>1, Zenon DEF Registered
    <3>1. j \in Ids /\ InSession(j, d)
      BY <2>3, <2>7 DEF Reasons, Registered
    <3> QED
      BY <2>1, <2>2, <2>4, <2>6, <3>1
  <2>9. Released'
    BY <1>1, <2>1, <2>5 DEF Reasons, Released
  <2>10. Wanted'
    <3> SUFFICES ASSUME NEW d \in Cams, mapVideoSource[d] # Nil
                 PROVE  \/ Removing("loop", RemoveSteps, d)' \/ Removing("sig", RemoveSteps, d)'
                        \/ \E j \in Ids : InSession(j, d)' /\ ~Dropping(table[j])'
      BY <1>1, Zenon DEF Wanted
    <3>1. Removing("sig", RemoveSteps, d) \/ \E j \in Ids : InSession(j, d) /\ ~Dropping(table[j])
      BY <2>3 DEF Reasons, Wanted
    <3>2. Removing("sig", RemoveSteps, d) => Removing("sig", RemoveSteps, d)'
      BY <1>1, <2>1, <2>5 DEF Removing
    <3>3. ASSUME NEW j \in Ids, InSession(j, d), ~Dropping(table[j])
          PROVE  \/ Removing("loop", RemoveSteps, d)'
                 \/ InSession(j, d)' /\ ~Dropping(table[j])'
      <4>1. CASE j = i
        BY <2>4, <2>6, <3>3, <4>1
      <4>2. CASE j # i
        BY <2>1, <2>5, <2>6, <3>3, <4>2 DEF Dropping
      <4> QED
        BY <4>1, <4>2
    <3> QED
      BY <3>1, <3>2, <3>3
  <2> QED
    BY <2>8, <2>9, <2>10 DEF Reasons
<1> QED
  BY <1>2, <1>3

LEMMA DropReasons ==
  ASSUME IInv, Reasons, Drop
  PROVE  Reasons'
<1> DEFINE p == conn["sig"]
<1>1. /\ pc["sig"] = "drop" /\ p \in Handles
      /\ UNCHANGED <<peerid, peerCam, mapVideoSource, setPeerid, conn>>
      /\ SigMoves("drop", "idle")
  BY SigGoes DEF Drop, IInv, SigPeer
<1>2. \A j \in Ids : table[j] # p => table'[j] = table[j]
  BY DEF Drop, IInv, TypeOK
<1>3. /\ pc'["loop"] = pc["loop"] /\ pc'["sig"] = "idle"
      /\ \A d : ~Removing("sig", RemoveSteps, d)
  BY <1>1 DEF SigMoves, Removing
<1>4. /\ \A d : Removing("loop", OpenSteps, d) => Removing("loop", OpenSteps, d)'
      /\ \A d : Removing("loop", RemoveSteps, d) => Removing("loop", RemoveSteps, d)'
  BY <1>1, <1>3 DEF Removing, OpenSteps
<1>5. ASSUME NEW j \in Ids, NEW d, InSession(j, d), table[j] # p
      PROVE  InSession(j, d)'
  BY <1>1, <1>2, <1>5 DEF InSession
<1>6. \A d \in Cams : mapVideoSource[d] # Nil => setPeerid[mapVideoSource[d]] \subseteq Ids
  BY DEF IInv, TypeOK
<1>7. Registered'
  <2> SUFFICES ASSUME NEW d \in Cams, mapVideoSource[d] # Nil, NEW j \in setPeerid[mapVideoSource[d]]
               PROVE  InSession(j, d)' \/ (Removing("loop", OpenSteps, d)' /\ peerid[conn["loop"]] = j)
    BY <1>1, Zenon DEF Registered
  <2>1. j \in Ids
    BY <1>6
  <2>2. CASE InSession(j, d)
    <3>1. table[j] # Nil /\ peerid[table[j]] = j /\ peerCam[table[j]] = d
      BY <2>1, <2>2, TableFacts DEF InSession
    <3>2. table[j] # p
      BY <1>1, <3>1 DEF Reasons, Released, LateSteps
    <3> QED
      BY <1>5, <2>1, <2>2, <3>2
  <2>3. CASE Removing("loop", OpenSteps, d) /\ peerid[conn["loop"]] = j
    BY <1>4, <2>3
  <2> QED
    BY <2>2, <2>3 DEF Reasons, Registered
<1>8. Released'
  BY <1>3 DEF Released, LateSteps
<1>9. Wanted'
  <2> SUFFICES ASSUME NEW d \in Cams, mapVideoSource[d] # Nil
               PROVE  \/ Removing("loop", RemoveSteps, d)'
                      \/ \E j \in Ids : InSession(j, d)' /\ ~Dropping(table[j])'
    BY <1>1, Zenon DEF Wanted
  <2>1. \/ Removing("loop", RemoveSteps, d)
        \/ \E j \in Ids : InSession(j, d) /\ ~Dropping(table[j])
    BY <1>3 DEF Reasons, Wanted
  <2>2. ASSUME NEW j \in Ids, InSession(j, d), ~Dropping(table[j])
        PROVE  InSession(j, d)' /\ ~Dropping(table[j])'
    BY <1>1, <1>3, <1>5, <2>2 DEF Dropping
  <2> QED
    BY <1>4, <2>1, <2>2
<1> QED
  BY <1>7, <1>8, <1>9 DEF Reasons

(***************************************************************************)
(* Every step keeps the reasons, up to a fault or a deleted Peer.          *)
(***************************************************************************)
LEMMA ReasonsStep ==
  ASSUME IInv, FreshSource, OneCamera, Reasons, ~Doomed, Next, fault' = "none"
  PROVE  Reasons'
<1>1. CASE BrowserMessage
  BY <1>1, OfferNewReasons, ByeReasons, MessageReasons DEF BrowserMessage
<1>2. CASE OfferAnswered
  BY <1>2, SigQuietReasons DEF OfferAnswered
<1>3. CASE CameraDelete \/ \E w \in Workers : WorkerContinues(w)
  BY <1>3, WorkerReasons
<1>4. \A t : ~Crash(t)
  BY DEF Crash
<1>5. CASE Add \/ Deliver \/ Delete
  BY <1>5, LoopQuietReasons, AddTracksReasons, AddRefReasons DEF Add
<1>6. CASE Remove("loop")
  BY <1>6, LoopQuietReasons, FindReasons, LoopReleaseReasons, EraseReasons DEF Remove
<1>7. CASE Remove("sig")
  BY <1>7, SigQuietReasons, FindReasons, SigReleaseReasons, EraseReasons DEF Remove
<1>8. CASE Drop
  BY <1>8, DropReasons
<1> QED
  BY <1>1, <1>2, <1>3, <1>4, <1>5, <1>6, <1>7, <1>8 DEF Next, LoopContinues, SigContinues

\* Nothing happens after a fault.
LEMMA FaultIsLast ==
  ASSUME Next
  PROVE  fault = "none"
<1>1. CASE BrowserMessage
  BY <1>1 DEF BrowserMessage, OfferNew, OfferAgain, ReceiveOffer, RecvSdpOrCandidate, OnPeerCommand,
      ReceiveForPeer, Bye
<1>2. CASE OfferAnswered \/ CameraDelete
  BY <1>2 DEF OfferAnswered, OnSuccess, OnFailure, Answered, CameraDelete, StopCamera
<1>3. CASE Add
  BY <1>3 DEF Add, GetPeer, AddTracks, CreateTrack, SetEnabled, AddTrack, AddRef, CreateOffer
<1>4. CASE Remove("loop") \/ Remove("sig")
  BY <1>4 DEF Remove, RemoveTracks, FindSource, ReleaseSource, LockForErase, EraseTrack, EraseSource
<1>5. CASE (\E t \in Threads : Crash(t)) \/ \E w \in Workers : Reset(w) \/ Tell(w)
  BY <1>5 DEF Crash, Reset, Tell
<1>6. CASE Deliver \/ Delete \/ Drop
  BY <1>6 DEF Deliver, Delete, Drop
<1> QED
  BY <1>1, <1>2, <1>3, <1>4, <1>5, <1>6 DEF Next, LoopContinues, SigContinues, WorkerContinues

LEMMA NextKept ==
  ASSUME IInv, KeptInv, [Next]_vars
  PROVE  KeptInv'
<1>1. CASE UNCHANGED vars
  BY <1>1 DEF vars, KeptInv, FreshSource, OneCamera, Intact, Doomed, Failing, Reasons, Registered, Released,
      Wanted, InSession, Removing, Dropping
<1>2. CASE Next
  <2>1. FreshSource' /\ OneCamera'
    BY <1>2, FreshStep DEF KeptInv
  <2>2. ASSUME Intact' PROVE Reasons'
    <3>1. fault' = "none" /\ ~Doomed'
      BY <2>2 DEF Intact
    <3>2. fault = "none"
      BY <1>2, <3>1, FaultIsLast
    <3>3. ~Doomed
      BY <1>2, <3>1, DoomStays
    <3>4. Reasons
      BY <3>2, <3>3 DEF KeptInv, Intact
    <3> QED
      BY <1>2, <3>1, <3>3, <3>4, ReasonsStep DEF KeptInv
  <2> QED
    BY <2>1, <2>2 DEF KeptInv
<1> QED
  BY <1>1, <1>2

\* The invariant: nothing in a viewer set or in the map without a reason.
THEOREM KeptInvHolds == Spec => []KeptInv
<1>1. Init => KeptInv
  BY InitKept
<1>2. IInv /\ KeptInv /\ [Next]_vars => KeptInv'
  BY NextKept
<1>3. Spec => []IInv
  BY IInvHolds
<1> QED
  BY <1>1, <1>2, <1>3, PTL DEF Spec

\* At rest a source is in the map only for an open session of its camera, whatever
\* the browsers, WebRTC and the workers do: the cleanup of a request that failed and
\* a "bye" together leave no capture behind.
THEOREM NoSourceLeaks == Spec => []NoSourceLeak
<1>1. IInv /\ KeptInv => NoSourceLeak
  <2> SUFFICES ASSUME IInv, KeptInv, Quiet, NEW c \in Cams, mapVideoSource[c] # Nil
               PROVE  \E i \in Ids : InSession(i, c)
    BY DEF NoSourceLeak, InSession
  <2>1. pc["loop"] = "idle" /\ pc["sig"] = "idle" /\ fault = "none"
    BY DEF Quiet
  <2>2. ~Doomed
    BY <2>1 DEF Doomed, AddingSteps
  <2>3. Wanted
    BY <2>1, <2>2 DEF KeptInv, Intact, Reasons
  <2> QED
    BY <2>1, <2>3 DEF Wanted, Removing
<1>2. Spec => []IInv
  BY IInvHolds
<1> QED
  BY <1>1, <1>2, KeptInvHolds, PTL

=============================================================================
