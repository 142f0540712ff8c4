-------------------------- MODULE PeerSessionProofs --------------------------
(***************************************************************************)
(* For any set of browsers and cameras, any number of offers and any       *)
(* environment: the types, the ownership of Peers, and the life of the     *)
(* Peer under a callback.  The three are inductive together with what      *)
(* HandlesFresh, PeersNamed, LoopPeer, SigPeer and StopsCamera say of the  *)
(* handles the threads hold.                                               *)
(***************************************************************************)
EXTENDS PeerSession, TLAPS

\* Handles are given out in order.
HandlesFresh == \A p \in Handles : p > offers => life[p] = "none"

\* A Peer that was created has an id and a camera.
PeersNamed ==
  \A p \in Handles : life[p] # "none" => peerid[p] \in Ids /\ peerCam[p] \in Cams

\* The Peer and the camera a thread works on are there.
LoopPeer ==
  pc["loop"] # "idle" =>
    conn["loop"] \in Handles /\ life[conn["loop"]] # "none"
SigPeer == pc["sig"] # "idle" => conn["sig"] \in Handles
StopsCamera ==
  \A w \in Workers : pc[w] = "reset" => stopCam[w] \in Cams

IInv ==
  /\ TypeOK
  /\ HandlesFresh
  /\ PeersNamed
  /\ LoopPeer
  /\ SigPeer
  /\ StopsCamera
  /\ PeerOwnedOnce
  /\ CallbackPeerAlive

USE WorkersAssumption DEF Nil, Handles, Threads

LEMMA InitIInv == Init => IInv
  BY BoundAssumption
  DEF Init, IInv, TypeOK, HandlesFresh, PeersNamed, LoopPeer, SigPeer,
      StopsCamera, PeerOwnedOnce, OwnedByLoop, CallbackPeerAlive, Steps, LoopSteps,
      SigSteps, WorkerSteps, StopSteps, AddSteps, RemoveSteps, Faults

(***************************************************************************)
(* Most steps touch neither the table nor the life of a Peer, and leave    *)
(* each thread with the Peer it had: they keep everything but the types.   *)
(***************************************************************************)
OwningSteps == RemoveSteps \union {"delete"}
AddingSteps == AddSteps \union {"get"}
PeersKept ==
  /\ UNCHANGED <<offers, table, life, peerid, peerCam, conn>>
  /\ pc'["loop"] \in OwningSteps <=> pc["loop"] \in OwningSteps
  /\ pc'["loop"] \in AddingSteps => pc["loop"] \in AddingSteps
  /\ pc["loop"] = "idle" => pc'["loop"] = "idle"
  /\ pc["sig"] = "idle" => pc'["sig"] = "idle"

LEMMA PeersKeptIInv ==
  ASSUME IInv, PeersKept, TypeOK', StopsCamera'
  PROVE  IInv'
<1>1. HandlesFresh' /\ PeersNamed'
  BY DEF IInv, PeersKept, HandlesFresh, PeersNamed
<1>2. LoopPeer' /\ SigPeer' /\ CallbackPeerAlive'
  BY DEF IInv, PeersKept, LoopPeer, SigPeer, CallbackPeerAlive
<1>3. PeerOwnedOnce'
  BY DEF IInv, PeersKept, PeerOwnedOnce, OwnedByLoop, OwningSteps
<1> QED
  BY <1>1, <1>2, <1>3 DEF IInv

\* What the steps of the handlers are made of.
USE DEF At, Goto, Cam, FaultAt, Faults, Steps, LoopSteps, SigSteps, WorkerSteps, AddSteps,
        RemoveSteps, StopSteps, browserVars, peerVars, sourceVars, localVars

(***************************************************************************)
(* One step per action that leaves the Peers with their owners.            *)
(***************************************************************************)
QuietStep ==
  \/ Add \/ Deliver
  \/ \E t \in {"loop", "sig"} : Remove(t)
  \/ \E w \in Workers : Reset(w) \/ Tell(w)
  \/ CameraDelete
  \/ \E t \in Threads : Crash(t)
  \/ \E p \in Handles : OnSuccess(p)

LEMMA QuietStepKept ==
  ASSUME IInv, QuietStep
  PROVE  TypeOK' /\ StopsCamera' /\ PeersKept
<1> DEFINE Kept == TypeOK' /\ StopsCamera' /\ PeersKept
<1> USE DEF IInv, TypeOK, PeersNamed, LoopPeer, SigPeer, StopsCamera,
            CallbackPeerAlive, PeersKept, OwningSteps, AddingSteps
<1>1. ASSUME GetPeer PROVE Kept
  BY <1>1, SMTT(60) DEF GetPeer
<1>2. ASSUME AddTracks PROVE Kept
  <2>1. /\ UNCHANGED <<offers, browser, told, table, life, peerid, peerCam, pending,
                       tracks, mapvideo_track, setPeerid, conn, vsItr, stopCam,
                       sPeerIds, fault>>
        /\ pc["loop"] = "addTracks"
    BY <1>2 DEF AddTracks
  <2>2. \E step \in {"createTrack", "setEnabled"} : Goto("loop", step)
    BY <1>2, Zenon DEF AddTracks
  <2>3. PeersKept /\ StopsCamera'
    BY <2>1, <2>2, SMTT(60)
  <2>4. mutexCap' \in Threads \union {"free"}
    BY <1>2, SMTT(60) DEF AddTracks
  <2>5. mapVideoSource' \in [Cams -> Handles \union {Nil}]
    <3>1. offers \in Handles \union {Nil}
      BY BoundAssumption
    <3>2. peerCam[conn["loop"]] \in Cams
      BY <2>1
    <3> QED
      BY <1>2, <3>1, <3>2, SMTT(60) DEF AddTracks
  <2> QED
    BY <2>1, <2>2, <2>3, <2>4, <2>5, SMTT(60)
<1>3. ASSUME CreateTrack PROVE Kept
  BY <1>3, SMTT(60) DEF CreateTrack, CanCall
<1>4. ASSUME SetEnabled PROVE Kept
  BY <1>4, SMTT(60) DEF SetEnabled, CanCall
<1>5. ASSUME AddTrack PROVE Kept
  BY <1>5, SMTT(60) DEF AddTrack, CanCall
<1>6. ASSUME AddRef PROVE Kept
  BY <1>6, SMTT(60) DEF AddRef
<1>7. ASSUME CreateOffer PROVE Kept
  BY <1>7, SMTT(60) DEF CreateOffer, CanCall
<1>8. ASSUME Deliver PROVE Kept
  BY <1>8, SMTT(60) DEF Deliver, CanCall
<1>9. ASSUME NEW t \in {"loop", "sig"}, RemoveTracks(t) PROVE Kept
  BY <1>9, SMTT(60) DEF RemoveTracks, CanCall
<1>10. ASSUME NEW t \in {"loop", "sig"}, FindSource(t) PROVE Kept
  BY <1>10, SMTT(60) DEF FindSource, AfterRemove
<1>11. ASSUME NEW t \in {"loop", "sig"}, ReleaseSource(t) PROVE Kept
  BY <1>11, SMTT(60) DEF ReleaseSource, AfterRemove, DropsLast
<1>12. ASSUME NEW t \in {"loop", "sig"}, LockForErase(t) PROVE Kept
  BY <1>12, SMTT(60) DEF LockForErase
<1>13. ASSUME NEW t \in {"loop", "sig"}, EraseTrack(t) PROVE Kept
  BY <1>13, SMTT(60) DEF EraseTrack, CanCall
<1>14. ASSUME NEW t \in {"loop", "sig"}, EraseSource(t) PROVE Kept
  BY <1>14, SMTT(60) DEF EraseSource, AfterRemove
<1>15. ASSUME NEW t \in Workers, Reset(t) PROVE Kept
  BY <1>15, SMTT(60) DEF Reset
<1>16. ASSUME NEW t \in Workers, Tell(t) PROVE Kept
  BY <1>16, SMTT(60) DEF Tell
<1>17. ASSUME NEW t \in Workers, NEW c \in Cams, StopCamera(t, c) PROVE Kept
  BY <1>17, SMTT(60) DEF StopCamera
<1>18. ASSUME NEW t \in Threads, Crash(t) PROVE Kept
  BY <1>18, SMTT(60) DEF Crash
<1>19. ASSUME NEW p \in Handles, OnSuccess(p) PROVE Kept
  BY <1>19, SMTT(60) DEF OnSuccess, Offered, Answered
<1>20. Kept
  <2>1. CASE Add \/ Deliver
    BY <2>1, <1>1, <1>2, <1>3, <1>4, <1>5, <1>6, <1>7, <1>8, Zenon DEF Add
  <2>2. CASE \E t \in {"loop", "sig"} : Remove(t)
    BY <2>2, <1>9, <1>10, <1>11, <1>12, <1>13, <1>14, Zenon DEF Remove
  <2>3. CASE CameraDelete \/ \E w \in Workers : Reset(w) \/ Tell(w)
    BY <2>3, <1>15, <1>16, <1>17, Zenon DEF CameraDelete
  <2>4. CASE (\E t \in Threads : Crash(t)) \/ \E p \in Handles : OnSuccess(p)
    BY <2>4, <1>18, <1>19, Zenon
  <2> QED
    BY <2>1, <2>2, <2>3, <2>4, Zenon DEF QuietStep
<1> QED
  BY <1>20, Zenon

LEMMA QuietStepIInv ==
  ASSUME IInv, QuietStep
  PROVE  IInv'
BY QuietStepKept, PeersKeptIInv, Zenon

LEMMA OfferNewStep ==
  ASSUME IInv, NEW i \in Ids, NEW c \in Cams, OfferNew(i, c)
  PROVE  IInv'
<1>1. TypeOK'
  BY SMTT(30), BoundAssumption
  DEF IInv, LoopPeer, SigPeer, PeerOwnedOnce, OfferNew, ReceiveOffer, TypeOK
<1>2. HandlesFresh' /\ PeersNamed'
  BY SMTT(30), BoundAssumption
  DEF IInv, HandlesFresh, PeersNamed, SigPeer, OfferNew, ReceiveOffer, TypeOK
<1>3. LoopPeer' /\ SigPeer' /\ StopsCamera'
  BY SMTT(30), BoundAssumption
  DEF IInv, LoopPeer, SigPeer, StopsCamera, PeerOwnedOnce, OfferNew,
      ReceiveOffer, TypeOK
<1>4. CallbackPeerAlive'
  BY SMTT(30), BoundAssumption
  DEF IInv, SigPeer, CallbackPeerAlive, LoopPeer, OfferNew, ReceiveOffer,
      TypeOK
<1>5. PeerOwnedOnce'
  BY SMTT(30), BoundAssumption
  DEF IInv, HandlesFresh, PeersNamed, LoopPeer, SigPeer, CallbackPeerAlive,
      PeerOwnedOnce, OwnedByLoop, OfferNew, ReceiveOffer, TypeOK
<1> QED
  BY <1>1, <1>2, <1>3, <1>4, <1>5 DEF IInv

LEMMA OfferAgainStep ==
  ASSUME IInv, NEW i \in Ids, OfferAgain(i)
  PROVE  IInv'
<1>1. TypeOK'
  BY SMTT(30), BoundAssumption
  DEF IInv, LoopPeer, SigPeer, PeerOwnedOnce, OfferAgain, ReceiveOffer,
      TypeOK
<1>2. HandlesFresh' /\ PeersNamed'
  BY SMTT(30), BoundAssumption
  DEF IInv, HandlesFresh, PeersNamed, SigPeer, OfferAgain, ReceiveOffer, TypeOK
<1>3. LoopPeer' /\ SigPeer' /\ StopsCamera'
  BY SMTT(30), BoundAssumption
  DEF IInv, LoopPeer, SigPeer, StopsCamera, PeerOwnedOnce, OfferAgain,
      ReceiveOffer, TypeOK
<1>4. CallbackPeerAlive'
  BY SMTT(30), BoundAssumption
  DEF IInv, SigPeer, CallbackPeerAlive, LoopPeer, OfferAgain, ReceiveOffer,
      TypeOK
<1>5. PeerOwnedOnce'
  BY SMTT(30), BoundAssumption
  DEF IInv, HandlesFresh, PeersNamed, LoopPeer, SigPeer, CallbackPeerAlive,
      PeerOwnedOnce, OwnedByLoop, OfferAgain, ReceiveOffer, TypeOK
<1> QED
  BY <1>1, <1>2, <1>3, <1>4, <1>5 DEF IInv

LEMMA ReceiveForPeerStep ==
  ASSUME IInv, NEW i \in Ids, NEW m \in Faults, ReceiveForPeer(i, m)
  PROVE  IInv'
<1>1. /\ UNCHANGED <<offers, browser, told, table, life, peerid, peerCam, pending,
                     tracks, mapVideoSource, mapvideo_track, setPeerid, mutexCap,
                     vsItr, stopCam, sPeerIds>>
      /\ pc["loop"] = "idle"
  BY DEF ReceiveForPeer
<1>2. CASE table[i] = Nil
  <2>1. pc' = pc /\ conn' = conn /\ fault' = m
    BY <1>2 DEF ReceiveForPeer
  <2>2. TypeOK'
    BY <1>1, <2>1 DEF IInv, TypeOK
  <2>3. PeersKept /\ StopsCamera'
    BY <1>1, <2>1 DEF IInv, StopsCamera, PeersKept, AddingSteps
  <2> QED
    BY <2>2, <2>3, PeersKeptIInv
<1>3. CASE table[i] # Nil
  <2> DEFINE p == table[i]
  <2>1. /\ p \in Handles
        /\ life[p] = "alive"
    BY <1>3 DEF IInv, TypeOK, PeerOwnedOnce
  <2>2. /\ conn' = [conn EXCEPT !["loop"] = p]
        /\ pc' = [pc EXCEPT !["loop"] = "deliver"]
        /\ fault' = fault
    BY <1>3 DEF ReceiveForPeer
  <2>3. TypeOK'
    BY <1>1, <2>1, <2>2, SMTT(30) DEF IInv, TypeOK
  <2>4. HandlesFresh' /\ PeersNamed'
    BY <1>1 DEF IInv, HandlesFresh, PeersNamed
  <2>5. LoopPeer' /\ SigPeer' /\ StopsCamera' /\ CallbackPeerAlive'
    BY <1>1, <2>1, <2>2 DEF IInv, TypeOK, LoopPeer, SigPeer, StopsCamera,
        CallbackPeerAlive
  <2>6. PeerOwnedOnce'
    BY <1>1, <2>2 DEF IInv, TypeOK, PeerOwnedOnce, OwnedByLoop
  <2> QED
    BY <2>3, <2>4, <2>5, <2>6 DEF IInv
<1> QED
  BY <1>2, <1>3

LEMMA ByeStep ==
  ASSUME IInv, NEW i \in Ids, Bye(i)
  PROVE  IInv'
<1>1. CASE table[i] = Nil
  <2>1. TypeOK'
    BY <1>1 DEF IInv, TypeOK, Bye
  <2>2. PeersKept /\ StopsCamera'
    BY <1>1 DEF IInv, StopsCamera, PeersKept, AddingSteps, Bye
  <2> QED
    BY <2>1, <2>2, PeersKeptIInv
<1>2. CASE table[i] # Nil
  <2> DEFINE p == table[i]
  <2>1. /\ p \in Handles
        /\ life[p] = "alive"
        /\ peerid[p] = i
    BY <1>2 DEF IInv, TypeOK, PeerOwnedOnce
  <2>2. /\ table' = [table EXCEPT ![i] = Nil]
        /\ conn' = [conn EXCEPT !["loop"] = p]
        /\ pc' = [pc EXCEPT !["loop"] = "removeTracks"]
        /\ pc["loop"] = "idle"
        /\ UNCHANGED <<offers, told, life, peerid, peerCam, pending, tracks,
                       mapVideoSource, mapvideo_track, setPeerid, mutexCap, vsItr,
                       stopCam, sPeerIds, fault>>
    BY <1>2 DEF Bye
  <2>3. browser' = [browser EXCEPT ![i] = "out"]
    BY DEF Bye
  <2>4. TypeOK'
    BY <2>1, <2>2, <2>3
    DEF IInv, TypeOK
  <2>5. HandlesFresh' /\ PeersNamed'
    BY <2>2 DEF IInv, HandlesFresh, PeersNamed
  <2>6. LoopPeer' /\ SigPeer' /\ StopsCamera' /\ CallbackPeerAlive'
    BY <2>1, <2>2 DEF IInv, TypeOK, LoopPeer, SigPeer, StopsCamera,
        CallbackPeerAlive
  <2>7. PeerOwnedOnce'
    <3>1. \A q \in Handles : OwnedByLoop(q)' <=> q = p
      BY <2>1, <2>2 DEF IInv, TypeOK, OwnedByLoop
    <3>2. \A q \in Handles : ~OwnedByLoop(q)
      BY <2>2 DEF OwnedByLoop
    <3> QED
      BY <2>1, <2>2, <3>1, <3>2 DEF IInv, TypeOK, PeerOwnedOnce
  <2> QED
    BY <2>4, <2>5, <2>6, <2>7 DEF IInv
<1> QED
  BY <1>1, <1>2

LEMMA DeleteStep ==
  ASSUME IInv, Delete
  PROVE  IInv'
<1>1. TypeOK'
  BY SMTT(30), BoundAssumption
  DEF IInv, LoopPeer, SigPeer, PeerOwnedOnce, Delete, DestroyPeer, CanCall,
      TypeOK
<1>2. HandlesFresh' /\ PeersNamed'
  BY SMTT(30), BoundAssumption
  DEF IInv, HandlesFresh, PeersNamed, LoopPeer, Delete, DestroyPeer,
      CanCall, TypeOK
<1>3. LoopPeer' /\ SigPeer' /\ StopsCamera'
  BY SMTT(30), BoundAssumption
  DEF IInv, LoopPeer, SigPeer, StopsCamera, PeerOwnedOnce, Delete,
      DestroyPeer, CanCall, TypeOK
<1>4. CallbackPeerAlive'
  BY SMTT(30), BoundAssumption
  DEF IInv, SigPeer, CallbackPeerAlive, LoopPeer, Delete, DestroyPeer,
      CanCall, TypeOK
<1>5. PeerOwnedOnce'
  BY SMTT(30), BoundAssumption
  DEF IInv, HandlesFresh, PeersNamed, LoopPeer, SigPeer, CallbackPeerAlive,
      PeerOwnedOnce, OwnedByLoop, Delete, DestroyPeer, CanCall, TypeOK
<1> QED
  BY <1>1, <1>2, <1>3, <1>4, <1>5 DEF IInv

LEMMA OnFailureStep ==
  ASSUME IInv, NEW p \in Handles, OnFailure(p)
  PROVE  IInv'
<1>1. TypeOK'
  BY SMTT(30), BoundAssumption
  DEF IInv, LoopPeer, SigPeer, PeerOwnedOnce, OnFailure, Answered, TypeOK
<1>2. HandlesFresh' /\ PeersNamed'
  BY SMTT(30), BoundAssumption
  DEF IInv, HandlesFresh, PeersNamed, SigPeer, OnFailure, Answered, TypeOK
<1>3. LoopPeer' /\ SigPeer' /\ StopsCamera'
  BY SMTT(30), BoundAssumption
  DEF IInv, LoopPeer, SigPeer, StopsCamera, PeerOwnedOnce, OnFailure,
      Answered, TypeOK
<1>4. CallbackPeerAlive'
  BY SMTT(30), BoundAssumption
  DEF IInv, SigPeer, CallbackPeerAlive, LoopPeer, OnFailure, Answered, TypeOK
<1>5. PeerOwnedOnce'
  BY SMTT(30), BoundAssumption
  DEF IInv, HandlesFresh, PeersNamed, LoopPeer, SigPeer, CallbackPeerAlive,
      PeerOwnedOnce, OwnedByLoop, OnFailure, Answered, TypeOK
<1> QED
  BY <1>1, <1>2, <1>3, <1>4, <1>5 DEF IInv

LEMMA DropStep ==
  ASSUME IInv, Drop
  PROVE  IInv'
<1> DEFINE p == conn["sig"]
<1>1. /\ p \in Handles
      /\ life[p] = "alive"
      /\ pc["sig"] = "drop"
      /\ pc' = [pc EXCEPT !["sig"] = "idle"]
      /\ UNCHANGED <<offers, browser, told, peerid, peerCam, mapVideoSource,
                     mapvideo_track, setPeerid, mutexCap, conn, vsItr, stopCam, sPeerIds>>
  BY DEF IInv, SigPeer, CallbackPeerAlive, Drop
<1>2. CASE \E i \in Ids : table[i] = p
  <2>1. /\ table' = [i \in Ids |-> IF table[i] = p THEN Nil ELSE table[i]]
        /\ life' = [life EXCEPT ![p] = "deleted"]
        /\ tracks' = [tracks EXCEPT ![p] = {}]
        /\ pending' = [pending EXCEPT ![p] = 0]
        /\ fault' \in {"none", "late_callback"}
    BY <1>2 DEF Drop, DestroyPeer
  <2>2. TypeOK'
    BY <1>1, <2>1 DEF IInv, TypeOK
  <2>3. HandlesFresh' /\ PeersNamed'
    BY <1>1, <2>1 DEF IInv, TypeOK, HandlesFresh, PeersNamed
  <2>4. LoopPeer' /\ SigPeer' /\ StopsCamera' /\ CallbackPeerAlive'
    BY <1>1, <2>1 DEF IInv, TypeOK, LoopPeer, SigPeer, StopsCamera, CallbackPeerAlive
  <2>5. PeerOwnedOnce'
    <3>1. ~OwnedByLoop(p)
      BY <1>1, <1>2 DEF IInv, PeerOwnedOnce
    <3>2. \A q \in Handles : OwnedByLoop(q)' <=> OwnedByLoop(q)
      BY <1>1 DEF IInv, TypeOK, OwnedByLoop
    <3>3. \A i \in Ids : table'[i] # Nil => table'[i] = table[i] /\ table[i] # p
      BY <2>1
    <3> QED
      BY <1>1, <2>1, <3>1, <3>2, <3>3 DEF IInv, TypeOK, PeersNamed, PeerOwnedOnce
  <2> QED
    BY <2>2, <2>3, <2>4, <2>5 DEF IInv
<1>3. CASE ~ \E i \in Ids : table[i] = p
  <2>1. UNCHANGED <<table, life, tracks, pending, fault>>
    BY <1>3 DEF Drop
  <2>2. TypeOK'
    BY <1>1, <2>1 DEF IInv, TypeOK
  <2>3. PeersKept /\ StopsCamera'
    BY <1>1, <2>1 DEF IInv, TypeOK, StopsCamera, PeersKept, AddingSteps
  <2> QED
    BY <2>2, <2>3, PeersKeptIInv
<1> QED
  BY <1>2, <1>3

(***************************************************************************)
(* Every step of every thread keeps the invariant.                         *)
(***************************************************************************)
LEMMA NextIInv == IInv /\ [Next]_vars => IInv'
<1> SUFFICES ASSUME IInv, [Next]_vars PROVE IInv'
  OBVIOUS
<1>1. CASE QuietStep
  BY <1>1, QuietStepIInv
<1>2. CASE BrowserMessage
  <2>1. "peer_mismatch" \in Faults /\ "not_found" \in Faults
    OBVIOUS
  <2> QED
    BY <1>2, <2>1, OfferNewStep, OfferAgainStep, ReceiveForPeerStep, ByeStep, Zenon
    DEF BrowserMessage, RecvSdpOrCandidate, OnPeerCommand
<1>3. CASE \E p \in Handles : OnFailure(p)
  BY <1>3, OnFailureStep, Zenon
<1>4. CASE Delete \/ Drop
  BY <1>4, DeleteStep, DropStep, Zenon
<1>5. CASE UNCHANGED vars
  <2>1. TypeOK' /\ StopsCamera' /\ PeersKept
    BY <1>5 DEF IInv, TypeOK, StopsCamera, PeersKept, AddingSteps, vars
  <2> QED
    BY <2>1, PeersKeptIInv
<1>6. Next => \/ QuietStep \/ BrowserMessage \/ Delete \/ Drop
              \/ \E p \in Handles : OnFailure(p)
  BY Zenon DEF Next, QuietStep, OfferAnswered, LoopContinues, SigContinues, WorkerContinues, Threads
<1> QED
  BY <1>1, <1>2, <1>3, <1>4, <1>5, <1>6, Zenon

THEOREM IInvHolds == Spec => []IInv
  BY InitIInv, NextIInv, PTL DEF Spec

\* Type correctness: in particular the signaling thread never runs a step of the
\* loop's handlers, and every handle a map or a thread holds is a handle.
THEOREM TypeCorrect == Spec => []TypeOK
<1>1. IInv => TypeOK
  BY DEF IInv
<1> QED
  BY <1>1, IInvHolds, PTL

\* PeerManager's removal decides who deletes a Peer: whatever the number of
\* browsers, "bye", "disconnectClient" and OnFailure together delete each Peer
\* at most once, and none is left alive outside the table without an owner.
THEOREM PeerDeletedOnce == Spec => []PeerOwnedOnce
<1>1. IInv => PeerOwnedOnce
  BY DEF IInv
<1> QED
  BY <1>1, IInvHolds, PTL

\* A running OnFailure never loses its Peer to the loop, because the release of
\* the connection waits for the signaling thread.
THEOREM CallbackKeepsPeer == Spec => []CallbackPeerAlive
<1>1. IInv => CallbackPeerAlive
  BY DEF IInv
<1> QED
  BY <1>1, IInvHolds, PTL

(***************************************************************************)
(* Messages find their Peer.  By the time a browser has our offer, the one *)
(* request of its Peer is answered, the loop has left addMediaTracks and   *)
(* no callback of the Peer runs: nothing can take it out of the table but  *)
(* the browser's own "bye".                                                *)
(***************************************************************************)
Failing(p) == pc["sig"] # "idle" /\ conn["sig"] = p

\* Nothing is asked of WebRTC before the Peer exists.
NoneAsked == \A p \in Handles : life[p] = "none" => pending[p] = 0
\* The loop closes a Peer only after its browser has left.
OwnerLeft == \A p \in Handles : OwnedByLoop(p) => browser[peerid[p]] = "out"
\* Until the offer is out: the request is not sent yet or has failed, or it is open.
AskedOnce ==
  \A i \in Ids : (browser[i] = "asked" /\ table[i] # Nil) =>
    \/ pending[table[i]] = 0 /\ ~(BeingAdded(table[i]) /\ Failing(table[i]))
    \/ pending[table[i]] = 1 /\ ~BeingAdded(table[i]) /\ ~Failing(table[i])
\* After it: nothing of the request is left.
OfferedDone ==
  \A i \in Ids : browser[i] = "offered" =>
    /\ table[i] # Nil
    /\ pending[table[i]] = 0
    /\ ~BeingAdded(table[i])
    /\ ~Failing(table[i])

FindInv == NoneAsked /\ OwnerLeft /\ AskedOnce /\ OfferedDone

LEMMA InitFind == Init => FindInv
  BY DEF Init, FindInv, NoneAsked, OwnerLeft, AskedOnce, OfferedDone, OwnedByLoop

\* What a Peer in the table is, and that no other browser has it.
LEMMA TableFacts ==
  ASSUME IInv, NEW i \in Ids, table[i] # Nil
  PROVE  /\ table[i] \in Handles
         /\ life[table[i]] = "alive"
         /\ peerid[table[i]] = i
         /\ ~OwnedByLoop(table[i])
         /\ \A j \in Ids : table[j] = table[i] => j = i
<1>1. table[i] \in Handles
  BY DEF IInv, TypeOK
<1>2. \A j \in Ids : table[j] # Nil => /\ life[table[j]] = "alive"
                                       /\ peerid[table[j]] = j
                                       /\ ~OwnedByLoop(table[j])
  BY Zenon DEF IInv, PeerOwnedOnce
<1> QED
  BY <1>1, <1>2, Zenon

LEMMA PeersKeptFind ==
  ASSUME IInv, FindInv, PeersKept, browser' = browser, pending' = pending
  PROVE  FindInv'
<1>1. \A p \in Handles : /\ OwnedByLoop(p)' => OwnedByLoop(p)
                         /\ BeingAdded(p)' => BeingAdded(p)
                         /\ Failing(p)' => Failing(p)
  BY DEF PeersKept, OwnedByLoop, OwningSteps, BeingAdded, AddingSteps, Failing
<1>2. table' = table /\ life' = life /\ peerid' = peerid
  BY DEF PeersKept
<1>3. NoneAsked' /\ OwnerLeft'
  BY <1>1, <1>2, Zenon DEF FindInv, NoneAsked, OwnerLeft
<1>4. AskedOnce' /\ OfferedDone'
  BY <1>1, <1>2, TableFacts, Zenon DEF FindInv, AskedOnce, OfferedDone
<1> QED
  BY <1>3, <1>4 DEF FindInv

\* Of the steps that leave the Peers with their owners, two answer or ask WebRTC.
LEMMA QuietStepFind ==
  ASSUME IInv, FindInv, QuietStep, ~CreateOffer,
         ~ \E p \in Handles : OnSuccess(p)
  PROVE  FindInv'
<1>1. browser' = browser /\ pending' = pending
  <2>1. CASE Add \/ Deliver
    BY <2>1 DEF Add, Deliver, GetPeer, AddTracks, CreateTrack, SetEnabled, AddTrack,
                AddRef
  <2>2. CASE \E t \in {"loop", "sig"} : Remove(t)
    BY <2>2 DEF Remove, RemoveTracks, FindSource, ReleaseSource, LockForErase,
                EraseTrack, EraseSource
  <2>3. CASE CameraDelete \/ \E w \in Workers : Reset(w) \/ Tell(w)
    BY <2>3 DEF CameraDelete, StopCamera, Reset, Tell
  <2>4. CASE \E t \in Threads : Crash(t)
    BY <2>4 DEF Crash
  <2> QED
    BY <2>1, <2>2, <2>3, <2>4, Zenon DEF QuietStep
<1> QED
  BY <1>1, QuietStepKept, PeersKeptFind, Zenon

\* A new Peer is not asked for anything yet, and no callback of it can run.
LEMMA OfferNewFind ==
  ASSUME IInv, FindInv, NEW i \in Ids, NEW c \in Cams, OfferNew(i, c)
  PROVE  FindInv'
<1> DEFINE n == offers'
<1>1. /\ n \in Handles
      /\ life[n] = "none"
      /\ pc["loop"] = "idle"
      /\ table[i] = Nil
  BY BoundAssumption DEF IInv, TypeOK, HandlesFresh, OfferNew, ReceiveOffer
<1>2. /\ browser' = [browser EXCEPT ![i] = "asked"]
      /\ table' = [table EXCEPT ![i] = n]
      /\ life' = [life EXCEPT ![n] = "alive"]
      /\ peerid' = [peerid EXCEPT ![n] = i]
      /\ conn' = [conn EXCEPT !["loop"] = n]
      /\ pc' = [pc EXCEPT !["loop"] = "addTracks"]
      /\ pending' = pending
  BY DEF OfferNew, ReceiveOffer
<1>3. pending[n] = 0 /\ ~Failing(n)
  BY <1>1 DEF IInv, FindInv, NoneAsked, CallbackPeerAlive, Failing
<1>4. \A p \in Handles : /\ ~OwnedByLoop(p)'
                         /\ BeingAdded(p)' => p = n
                         /\ Failing(p)' => Failing(p)
  BY <1>2 DEF IInv, TypeOK, OwnedByLoop, BeingAdded, Failing
<1>5. NoneAsked' /\ OwnerLeft'
  BY <1>1, <1>2, <1>4 DEF IInv, TypeOK, FindInv, NoneAsked, OwnerLeft
<1>6. browser'[i] = "asked" /\ table'[i] = n
  BY <1>2 DEF IInv, TypeOK
<1>7. ASSUME NEW j \in Ids, j # i
      PROVE  /\ browser'[j] = browser[j]
             /\ table'[j] = table[j]
             /\ table[j] # Nil => table[j] \in Handles /\ table[j] # n
  BY <1>1, <1>2, <1>7, TableFacts, SMTT(30) DEF IInv, TypeOK
<1>8. AskedOnce'
  BY <1>1, <1>2, <1>3, <1>4, <1>6, <1>7, ZenonT(40) DEF FindInv, AskedOnce
<1>9. OfferedDone'
  BY <1>2, <1>4, <1>6, <1>7 DEF FindInv, OfferedDone
<1> QED
  BY <1>5, <1>8, <1>9 DEF FindInv

\* A second offer ends the promise for its browser and starts work on its own Peer only.
LEMMA OfferAgainFind ==
  ASSUME IInv, FindInv, NEW i \in Ids, OfferAgain(i)
  PROVE  FindInv'
<1>1. /\ browser' = [browser EXCEPT ![i] = "reasked"]
      /\ conn' = [conn EXCEPT !["loop"] = table[i]]
      /\ pc' = [pc EXCEPT !["loop"] = "get"]
      /\ pending' = pending /\ table' = table /\ life' = life /\ peerid' = peerid
      /\ table[i] # Nil
  BY DEF OfferAgain, ReceiveOffer
<1>2. \A p \in Handles : /\ ~OwnedByLoop(p)'
                         /\ BeingAdded(p)' => p = table[i]
                         /\ Failing(p)' => Failing(p)
  BY <1>1 DEF IInv, TypeOK, OwnedByLoop, BeingAdded, Failing
<1>3. NoneAsked' /\ OwnerLeft'
  BY <1>1, <1>2, Zenon DEF FindInv, NoneAsked, OwnerLeft
<1>4. browser'[i] = "reasked" /\ \A j \in Ids : j # i => browser'[j] = browser[j]
  BY <1>1 DEF IInv, TypeOK
<1>5. \A j \in Ids : table[j] # Nil => table[j] \in Handles /\ (table[j] = table[i] => j = i)
  BY <1>1, TableFacts, Zenon
<1>6. AskedOnce'
  BY <1>1, <1>2, <1>4, <1>5 DEF FindInv, AskedOnce
<1>7. OfferedDone'
  BY <1>1, <1>2, <1>4, <1>5 DEF FindInv, OfferedDone
<1> QED
  BY <1>3, <1>6, <1>7 DEF FindInv

LEMMA ReceiveForPeerFind ==
  ASSUME IInv, FindInv, NEW i \in Ids, NEW m \in Faults, ReceiveForPeer(i, m)
  PROVE  FindInv'
<1>1. /\ browser' = browser /\ pending' = pending /\ table' = table
      /\ life' = life /\ peerid' = peerid
      /\ \/ pc' = pc /\ conn' = conn
         \/ /\ pc' = [pc EXCEPT !["loop"] = "deliver"]
            /\ conn' = [conn EXCEPT !["loop"] = table[i]]
  BY DEF ReceiveForPeer
<1>2. \A p \in Handles : /\ OwnedByLoop(p)' => OwnedByLoop(p)
                         /\ BeingAdded(p)' => BeingAdded(p)
                         /\ Failing(p)' => Failing(p)
  BY <1>1 DEF IInv, TypeOK, OwnedByLoop, BeingAdded, Failing
<1>3. NoneAsked' /\ OwnerLeft'
  BY <1>1, <1>2, Zenon DEF FindInv, NoneAsked, OwnerLeft
<1>4. AskedOnce' /\ OfferedDone'
  BY <1>1, <1>2, TableFacts, Zenon DEF FindInv, AskedOnce, OfferedDone
<1> QED
  BY <1>3, <1>4 DEF FindInv

\* A browser that leaves is promised nothing; only its own Peer leaves the table.
LEMMA ByeFind ==
  ASSUME IInv, FindInv, NEW i \in Ids, Bye(i)
  PROVE  FindInv'
<1>1. /\ browser' = [browser EXCEPT ![i] = "out"]
      /\ pending' = pending /\ life' = life /\ peerid' = peerid
      /\ pc["loop"] = "idle"
      /\ \/ table' = table /\ pc' = pc /\ conn' = conn
         \/ /\ table[i] # Nil
            /\ table' = [table EXCEPT ![i] = Nil]
            /\ pc' = [pc EXCEPT !["loop"] = "removeTracks"]
            /\ conn' = [conn EXCEPT !["loop"] = table[i]]
  BY DEF Bye
<1>2. \A p \in Handles : /\ OwnedByLoop(p)' => p = table[i] /\ table[i] # Nil
                         /\ BeingAdded(p)' => BeingAdded(p)
                         /\ Failing(p)' => Failing(p)
  BY <1>1 DEF IInv, TypeOK, OwnedByLoop, BeingAdded, Failing
<1>3. browser'[i] = "out" /\ \A j \in Ids : j # i => browser'[j] = browser[j] /\ table'[j] = table[j]
  BY <1>1 DEF IInv, TypeOK
<1>4. NoneAsked' /\ OwnerLeft'
  BY <1>1, <1>2, <1>3, TableFacts DEF FindInv, NoneAsked, OwnerLeft
<1>5. AskedOnce'
  BY <1>1, <1>2, <1>3, TableFacts DEF FindInv, AskedOnce
<1>6. OfferedDone'
  BY <1>1, <1>2, <1>3, TableFacts DEF FindInv, OfferedDone
<1> QED
  BY <1>4, <1>5, <1>6 DEF FindInv

\* The loop deletes a Peer that no browser of the table has.
LEMMA DeleteFind ==
  ASSUME IInv, FindInv, Delete
  PROVE  FindInv'
<1> DEFINE p == conn["loop"]
<1>1. /\ browser' = browser /\ table' = table /\ peerid' = peerid /\ conn' = conn
      /\ pc' = [pc EXCEPT !["loop"] = "idle"]
      /\ life' = [life EXCEPT ![p] = "deleted"]
      /\ pending' = [pending EXCEPT ![p] = 0]
      /\ p \in Handles /\ OwnedByLoop(p)
  BY DEF Delete, DestroyPeer, IInv, LoopPeer, OwnedByLoop
<1>2. \A q \in Handles : /\ ~OwnedByLoop(q)'
                         /\ BeingAdded(q)' => BeingAdded(q)
                         /\ Failing(q)' => Failing(q)
  BY <1>1 DEF IInv, TypeOK, OwnedByLoop, BeingAdded, Failing
<1>3. NoneAsked' /\ OwnerLeft'
  BY <1>1, <1>2 DEF IInv, TypeOK, FindInv, NoneAsked, OwnerLeft
<1>4. \A j \in Ids : table[j] # Nil => table[j] \in Handles /\ pending'[table[j]] = pending[table[j]]
  BY <1>1, TableFacts, SMTT(30) DEF IInv, TypeOK
<1>5. AskedOnce' /\ OfferedDone'
  BY <1>1, <1>2, <1>4, Zenon DEF FindInv, AskedOnce, OfferedDone
<1> QED
  BY <1>3, <1>5 DEF FindInv

\* CreateOffer is called by the loop for the Peer it was adding.
LEMMA CreateOfferFind ==
  ASSUME IInv, FindInv, CreateOffer
  PROVE  FindInv'
<1> DEFINE p == conn["loop"]
<1>1. /\ browser' = browser /\ table' = table /\ life' = life
      /\ peerid' = peerid /\ conn' = conn
      /\ pc' = [pc EXCEPT !["loop"] = "idle"]
      /\ pending' = [pending EXCEPT ![p] = @ + 1]
      /\ pc["loop"] = "createOffer"
      /\ p \in Handles /\ life[p] # "none"
  BY DEF CreateOffer, IInv, LoopPeer
<1>2. \A q \in Handles : /\ ~OwnedByLoop(q)'
                         /\ ~BeingAdded(q)'
                         /\ Failing(q)' <=> Failing(q)
  BY <1>1 DEF IInv, TypeOK, OwnedByLoop, BeingAdded, Failing
<1>3. BeingAdded(p)
  BY <1>1 DEF BeingAdded
<1>4. NoneAsked' /\ OwnerLeft'
  BY <1>1, <1>2 DEF IInv, TypeOK, FindInv, NoneAsked, OwnerLeft
<1>5. /\ pending'[p] = pending[p] + 1
      /\ \A q \in Handles : q # p => pending'[q] = pending[q]
  BY <1>1 DEF IInv, TypeOK
<1>6. AskedOnce'
  BY <1>1, <1>2, <1>3, <1>5, TableFacts DEF FindInv, AskedOnce
<1>7. OfferedDone'
  BY <1>1, <1>2, <1>3, <1>5, TableFacts DEF FindInv, OfferedDone
<1> QED
  BY <1>4, <1>6, <1>7 DEF FindInv

\* An answered request belongs to the Peer in the table, or its browser has left.
LEMMA OnSuccessFind ==
  ASSUME IInv, FindInv, NEW p \in Handles, OnSuccess(p)
  PROVE  FindInv'
<1> DEFINE i == peerid[p]
<1>1. /\ browser' = [browser EXCEPT ![i] = Offered(@)]
      /\ pending' = [pending EXCEPT ![p] = @ - 1]
      /\ table' = table /\ life' = life /\ peerid' = peerid /\ conn' = conn /\ pc' = pc
      /\ life[p] = "alive"
      /\ pending[p] > 0
  BY DEF OnSuccess, Answered
<1>2. \A q \in Handles : /\ OwnedByLoop(q)' <=> OwnedByLoop(q)
                         /\ BeingAdded(q)' <=> BeingAdded(q)
                         /\ Failing(q)' <=> Failing(q)
  BY <1>1 DEF OwnedByLoop, BeingAdded, Failing
<1>3. i \in Ids /\ (OwnedByLoop(p) \/ table[i] = p)
  BY <1>1 DEF IInv, PeersNamed, PeerOwnedOnce
<1>4. /\ browser'[i] = Offered(browser[i])
      /\ \A j \in Ids : j # i => browser'[j] = browser[j]
      /\ pending'[p] = pending[p] - 1
      /\ \A q \in Handles : q # p => pending'[q] = pending[q]
      /\ pending[p] \in Nat
  BY <1>1, <1>3 DEF IInv, TypeOK
<1>5. NoneAsked' /\ OwnerLeft'
  <2>1. NoneAsked'
    BY <1>1, <1>4 DEF FindInv, NoneAsked
  <2>2. ASSUME NEW q \in Handles, OwnedByLoop(q)
        PROVE  browser'[peerid[q]] = "out"
    <3>1. browser[peerid[q]] = "out"
      BY <2>2 DEF FindInv, OwnerLeft
    <3>2. peerid[q] \in Ids
      BY <2>2 DEF IInv, PeersNamed, PeerOwnedOnce
    <3>3. CASE peerid[q] = i
      BY <3>1, <3>3, <1>4 DEF Offered
    <3>4. CASE peerid[q] # i
      BY <3>1, <3>2, <3>4, <1>4
    <3> QED
      BY <3>3, <3>4
  <2>3. OwnerLeft'
    BY <1>1, <1>2, <2>2, Zenon DEF OwnerLeft
  <2> QED
    BY <2>1, <2>3
<1>6. CASE OwnedByLoop(p)
  <2>1. browser[i] = "out"
    BY <1>6 DEF FindInv, OwnerLeft
  <2>2. browser'[i] = "out"
    BY <1>4, <2>1 DEF Offered
  <2>3. \A j \in Ids : table[j] # p
    BY <1>6, TableFacts
  <2>4. AskedOnce'
    BY <1>1, <1>2, <1>4, <2>2, <2>3, TableFacts DEF FindInv, AskedOnce
  <2>5. OfferedDone'
    BY <1>1, <1>2, <1>4, <2>2, <2>3, TableFacts DEF FindInv, OfferedDone
  <2> QED
    BY <1>5, <2>4, <2>5 DEF FindInv
<1>7. CASE table[i] = p
  <2>1. table[i] # Nil /\ \A j \in Ids : table[j] = p => j = i
    BY <1>7, <1>3, TableFacts
  <2>2. browser[i] # "offered"
    BY <1>3, <1>4, <1>7, <1>1 DEF FindInv, OfferedDone
  <2>3. browser[i] = "asked" => pending[p] = 1 /\ ~BeingAdded(p) /\ ~Failing(p)
    BY <1>1, <1>3, <1>7, <2>1 DEF FindInv, AskedOnce
  <2>4. /\ browser'[i] # "asked"
        /\ browser'[i] = "offered" => browser[i] = "asked"
    BY <1>4, <2>2 DEF Offered, IInv, TypeOK
  <2>5. AskedOnce'
    BY <1>1, <1>2, <1>4, <2>1, <2>4, TableFacts DEF FindInv, AskedOnce
  <2>6. OfferedDone'
    BY <1>1, <1>2, <1>3, <1>4, <1>7, <2>1, <2>3, <2>4, TableFacts DEF FindInv, OfferedDone
  <2> QED
    BY <1>5, <2>5, <2>6 DEF FindInv
<1> QED
  BY <1>3, <1>6, <1>7

\* A request that fails was still open: its browser has no offer.
LEMMA OnFailureFind ==
  ASSUME IInv, FindInv, NEW p \in Handles, OnFailure(p)
  PROVE  FindInv'
<1>1. /\ browser' = browser /\ table' = table /\ life' = life /\ peerid' = peerid
      /\ pending' = [pending EXCEPT ![p] = @ - 1]
      /\ conn' = [conn EXCEPT !["sig"] = p]
      /\ pc' = [pc EXCEPT !["sig"] = "removeTracks"]
      /\ pc["sig"] = "idle"
      /\ pending[p] > 0
      /\ life[p] = "alive"
  BY DEF OnFailure, Answered
<1>2. \A q \in Handles : /\ OwnedByLoop(q)' <=> OwnedByLoop(q)
                         /\ BeingAdded(q)' <=> BeingAdded(q)
                         /\ Failing(q)' => q = p
  BY <1>1 DEF IInv, TypeOK, OwnedByLoop, BeingAdded, Failing
<1>3. /\ pending'[p] = pending[p] - 1
      /\ \A q \in Handles : q # p => pending'[q] = pending[q]
      /\ pending[p] \in Nat
  BY <1>1 DEF IInv, TypeOK
<1>4. NoneAsked' /\ OwnerLeft'
  BY <1>1, <1>2, <1>3 DEF FindInv, NoneAsked, OwnerLeft
<1>5. AskedOnce'
  BY <1>1, <1>2, <1>3, TableFacts DEF FindInv, AskedOnce
<1>6. OfferedDone'
  BY <1>1, <1>2, <1>3, TableFacts DEF FindInv, OfferedDone
<1> QED
  BY <1>4, <1>5, <1>6 DEF FindInv

\* The Peer OnFailure drops is failing, so its browser has no offer.
LEMMA DropFind ==
  ASSUME IInv, FindInv, Drop
  PROVE  FindInv'
<1> DEFINE p == conn["sig"]
<1>1. /\ browser' = browser /\ peerid' = peerid /\ conn' = conn
      /\ pc' = [pc EXCEPT !["sig"] = "idle"]
      /\ p \in Handles /\ life[p] = "alive" /\ Failing(p)
      /\ \/ table' = table /\ life' = life /\ pending' = pending
         \/ /\ table' = [i \in Ids |-> IF table[i] = p THEN Nil ELSE table[i]]
            /\ life' = [life EXCEPT ![p] = "deleted"]
            /\ pending' = [pending EXCEPT ![p] = 0]
  BY DEF Drop, DestroyPeer, IInv, SigPeer, CallbackPeerAlive, Failing
<1>2. \A q \in Handles : /\ OwnedByLoop(q)' <=> OwnedByLoop(q)
                         /\ BeingAdded(q)' <=> BeingAdded(q)
                         /\ ~Failing(q)'
  BY <1>1 DEF IInv, TypeOK, OwnedByLoop, BeingAdded, Failing
<1>3. ASSUME NEW q \in Handles
      PROVE  /\ life'[q] = "none" => life[q] = "none"
             /\ q # p => pending'[q] = pending[q]
             /\ pending[q] = 0 => pending'[q] = 0
  <2>1. CASE life' = life /\ pending' = pending
    BY <2>1
  <2>2. CASE /\ life' = [life EXCEPT ![p] = "deleted"]
             /\ pending' = [pending EXCEPT ![p] = 0]
    BY <2>2, SMTT(30) DEF IInv, TypeOK
  <2> QED
    BY <1>1, <2>1, <2>2, Zenon
<1>4. \A j \in Ids : /\ table'[j] # Nil => table'[j] = table[j]
                     /\ table[j] # p => table'[j] = table[j]
  BY <1>1
<1>5. NoneAsked' /\ OwnerLeft'
  BY <1>1, <1>2, <1>3, Zenon DEF FindInv, NoneAsked, OwnerLeft
<1>6. AskedOnce'
  <2> SUFFICES ASSUME NEW j \in Ids, browser[j] = "asked", table'[j] # Nil
               PROVE  \/ pending'[table[j]] = 0 /\ ~Failing(table[j])'
                      \/ /\ pending'[table[j]] = 1
                         /\ ~BeingAdded(table[j])'
                         /\ ~Failing(table[j])'
    BY <1>1, <1>4 DEF AskedOnce
  <2>1. table[j] # Nil /\ table[j] \in Handles
    BY <1>4, TableFacts
  <2> QED
    BY <1>1, <1>2, <1>3, <2>1 DEF FindInv, AskedOnce
<1>7. OfferedDone'
  BY <1>1, <1>2, <1>3, <1>4, TableFacts DEF FindInv, OfferedDone
<1> QED
  BY <1>5, <1>6, <1>7 DEF FindInv

LEMMA NextFind == IInv /\ FindInv /\ [Next]_vars => FindInv'
<1> SUFFICES ASSUME IInv, FindInv, [Next]_vars PROVE FindInv'
  OBVIOUS
<1>1. CASE QuietStep
  BY <1>1, QuietStepFind, CreateOfferFind, OnSuccessFind, Zenon
<1>2. CASE BrowserMessage
  <2>1. "peer_mismatch" \in Faults /\ "not_found" \in Faults
    OBVIOUS
  <2> QED
    BY <1>2, <2>1, OfferNewFind, OfferAgainFind, ReceiveForPeerFind, ByeFind, Zenon
    DEF BrowserMessage, RecvSdpOrCandidate, OnPeerCommand
<1>3. CASE \E p \in Handles : OnFailure(p)
  BY <1>3, OnFailureFind, Zenon
<1>4. CASE Delete \/ Drop
  BY <1>4, DeleteFind, DropFind, Zenon
<1>5. CASE UNCHANGED vars
  BY <1>5, PeersKeptFind DEF PeersKept, AddingSteps, vars
<1>6. Next => \/ QuietStep \/ BrowserMessage \/ Delete \/ Drop
              \/ \E p \in Handles : OnFailure(p)
  BY Zenon DEF Next, QuietStep, OfferAnswered, LoopContinues, SigContinues, WorkerContinues, Threads
<1> QED
  BY <1>1, <1>2, <1>3, <1>4, <1>5, <1>6, Zenon

\* An answer, a candidate or a command of a browser that offered once finds its Peer,
\* whatever WebRTC fails and however the handlers interleave: the assertion in
\* PeerManager never stops the program for it.
THEOREM OfferKeepsPeer == Spec => []MessagesFindPeer
<1>1. FindInv => MessagesFindPeer
  BY DEF FindInv, OfferedDone, MessagesFindPeer
<1> QED
  BY <1>1, InitFind, NextFind, IInvHolds, PTL DEF Spec

(***************************************************************************)
(* No thread waits for ever, but in one place.  The steps of a handler     *)
(* that wait, and what for; a callback of WebRTC never waits for WebRTC.   *)
(***************************************************************************)
LockedSteps == {"createTrack", "eraseTrack", "eraseSource"}
MutexHeld ==
  /\ mutexCap = "loop" <=> pc["loop"] \in LockedSteps
  /\ mutexCap = "sig" <=> pc["sig"] \in LockedSteps
  /\ mutexCap \in {"free", "loop", "sig"}

Busy(t) == pc[t] # "idle"
CallSteps == {"createTrack", "setEnabled", "addTrack", "createOffer", "deliver",
              "removeTracks", "delete"}
CanGo(t) ==
  /\ pc[t] \in {"addTracks", "lock"} => mutexCap = "free"
  /\ \/ pc[t] \in CallSteps
     \/ pc[t] = "eraseTrack" /\ LastReference(mapvideo_track[Cam(t)])
     => CanCall(t)
SomebodyGoes ==
  fault = "none" /\ (Busy("loop") \/ Busy("sig")) =>
    \/ Busy("loop") /\ CanGo("loop")
    \/ Busy("sig") /\ CanGo("sig")
    \/ ~NoLockCycle

\* The number of steps a handler still takes at most.
ToGo(step) ==
  CASE step = "idle" -> 0
    [] step \in {"createOffer", "deliver", "delete", "drop", "tell"} -> 1
    [] step \in {"addRef", "eraseSource", "reset"} -> 2
    [] step \in {"addTrack", "eraseTrack"} -> 3
    [] step \in {"setEnabled", "lock"} -> 4
    [] step \in {"createTrack", "release"} -> 5
    [] step \in {"addTracks", "find"} -> 6
    [] step \in {"get", "removeTracks"} -> 7
ComesCloser ==
  \A t \in Threads : Busy(t) => pc'[t] = pc[t] \/ ToGo(pc'[t]) < ToGo(pc[t])

LEMMA MutexStep ==
  ASSUME IInv, MutexHeld, [Next]_vars
  PROVE  MutexHeld'
<1>1. ASSUME mutexCap' = mutexCap,
             pc'["loop"] \in LockedSteps <=> pc["loop"] \in LockedSteps,
             pc'["sig"] \in LockedSteps <=> pc["sig"] \in LockedSteps
      PROVE  MutexHeld'
  BY <1>1 DEF MutexHeld
<1>2. CASE BrowserMessage
  <2>1. mutexCap' = mutexCap /\ pc["loop"] = "idle"
    BY <1>2 DEF BrowserMessage, OfferNew, OfferAgain, ReceiveOffer, RecvSdpOrCandidate, OnPeerCommand,
        ReceiveForPeer, Bye
  <2>2. pc' = pc \/ \E to \in {"addTracks", "get", "deliver", "removeTracks"} : Goto("loop", to)
    BY <1>2, Zenon DEF BrowserMessage, OfferNew, OfferAgain, RecvSdpOrCandidate, OnPeerCommand,
        ReceiveForPeer, Bye
  <2> QED
    BY <1>1, <2>1, <2>2 DEF LockedSteps, IInv, TypeOK
<1>3. CASE OfferAnswered \/ Drop
  <2>1. mutexCap' = mutexCap /\ pc["sig"] \in {"idle", "drop"}
    BY <1>3 DEF OfferAnswered, OnSuccess, OnFailure, Answered, Drop
  <2>2. pc' = pc \/ Goto("sig", "removeTracks") \/ Goto("sig", "idle")
    BY <1>3 DEF OfferAnswered, OnSuccess, OnFailure, Drop
  <2> QED
    BY <1>1, <2>1, <2>2 DEF LockedSteps, IInv, TypeOK
<1>4. CASE CameraDelete \/ \E w \in Workers : Reset(w) \/ Tell(w)
  <2>1. mutexCap' = mutexCap /\ \E w \in Workers, to \in WorkerSteps : Goto(w, to)
    BY <1>4 DEF CameraDelete, StopCamera, Reset, Tell
  <2> QED
    BY <1>1, <2>1 DEF IInv, TypeOK
<1>5. CASE GetPeer \/ SetEnabled \/ AddTrack \/ AddRef \/ CreateOffer \/ Deliver \/ Delete
  <2>1. /\ mutexCap' = mutexCap
        /\ pc["loop"] \in {"get", "setEnabled", "addTrack", "addRef", "createOffer", "deliver", "delete"}
        /\ \E to \in {"addTracks", "addTrack", "addRef", "createOffer", "idle"} : Goto("loop", to)
    BY <1>5 DEF GetPeer, SetEnabled, AddTrack, AddRef, CreateOffer, Deliver, Delete
  <2> QED
    BY <1>1, <2>1 DEF LockedSteps, IInv, TypeOK
<1>6. CASE AddTracks \/ CreateTrack
  BY <1>6 DEF AddTracks, CreateTrack, MutexHeld, LockedSteps, IInv, TypeOK
<1>7. ASSUME NEW t \in {"loop", "sig"}, Remove(t) PROVE MutexHeld'
  <2>1. CASE RemoveTracks(t) \/ FindSource(t) \/ ReleaseSource(t)
    <3>1. /\ mutexCap' = mutexCap /\ pc[t] \in {"removeTracks", "find", "release"}
          /\ \E to \in {"find", "release", "lock", "delete", "drop"} : Goto(t, to)
      BY <2>1, Zenon DEF RemoveTracks, FindSource, ReleaseSource, AfterRemove
    <3> QED
      BY <1>1, <3>1 DEF LockedSteps, IInv, TypeOK
  <2>2. CASE LockForErase(t)
    BY <2>2 DEF LockForErase, MutexHeld, LockedSteps, IInv, TypeOK
  <2>3. CASE EraseTrack(t)
    <3>1. mutexCap' = mutexCap /\ pc[t] = "eraseTrack" /\ Goto(t, "eraseSource")
      BY <2>3 DEF EraseTrack
    <3> QED
      BY <1>1, <3>1 DEF LockedSteps, IInv, TypeOK
  <2>4. CASE EraseSource(t)
    BY <2>4 DEF EraseSource, AfterRemove, MutexHeld, LockedSteps, IInv, TypeOK
  <2> QED
    BY <1>7, <2>1, <2>2, <2>3, <2>4 DEF Remove
<1>8. CASE UNCHANGED vars \/ \E t \in Threads : Crash(t)
  BY <1>1, <1>8 DEF vars, Crash
<1> QED
  BY <1>2, <1>3, <1>4, <1>5, <1>6, <1>7, <1>8 DEF Next, LoopContinues, SigContinues, WorkerContinues, Add

\* mutexCap is held at the steps between lock and unlock, and only there.
LEMMA MutexIsHeld == Spec => []MutexHeld
<1>1. Init => MutexHeld
  BY DEF Init, MutexHeld, LockedSteps
<1>2. IInv /\ MutexHeld /\ [Next]_vars => MutexHeld'
  BY MutexStep
<1> QED
  BY <1>1, <1>2, IInvHolds, PTL DEF Spec

\* Whenever the loop or the signaling thread is inside a handler and nothing is broken,
\* one of the two can take its next step, or they are in the cycle of NoLockCycle: the
\* loop calls WebRTC with mutexCap in its hands while OnFailure waits for mutexCap.
\* There is no other deadlock in the program, whatever the browsers, WebRTC and the
\* camera deletions do.
THEOREM OnlyLockCycle == Spec => []SomebodyGoes
<1>1. IInv /\ MutexHeld => SomebodyGoes
  <2> SUFFICES ASSUME IInv, MutexHeld, fault = "none", Busy("loop") \/ Busy("sig"),
                      ~(Busy("loop") /\ CanGo("loop")), ~(Busy("sig") /\ CanGo("sig"))
               PROVE  ~NoLockCycle
    BY DEF SomebodyGoes
  <2>1. CASE ~Busy("sig")
    <3>1. Busy("loop") /\ CanCall("loop") /\ mutexCap # "sig"
      BY <2>1 DEF Busy, CanCall, MutexHeld, LockedSteps
    <3>2. pc["loop"] \in {"addTracks", "lock"} => mutexCap = "free"
      BY <3>1 DEF MutexHeld, LockedSteps
    <3> QED
      BY <3>1, <3>2 DEF CanGo
  <2>2. CASE Busy("sig")
    <3>1. pc["sig"] = "lock" /\ mutexCap = "loop"
      <4>1. CanCall("sig") /\ pc["sig"] # "addTracks"
        BY DEF CanCall, IInv, TypeOK
      <4>2. pc["sig"] = "lock" /\ mutexCap # "free"
        BY <2>2, <4>1 DEF CanGo
      <4> QED
        BY <4>2 DEF MutexHeld, LockedSteps
    <3>2. pc["loop"] \in LockedSteps
      BY <3>1 DEF MutexHeld
    <3>3. Busy("loop") /\ pc["loop"] \notin {"addTracks", "lock"}
      BY <3>2 DEF Busy, LockedSteps
    <3>4. pc["loop"] \in CallSteps \/ (pc["loop"] = "eraseTrack" /\ LastReference(mapvideo_track[Cam("loop")]))
      BY <3>3 DEF CanGo
    <3> QED
      BY <3>1, <3>2, <3>4 DEF NoLockCycle, LockedSteps, CallSteps
  <2> QED
    BY <2>1, <2>2
<1> QED
  BY <1>1, IInvHolds, MutexIsHeld, PTL

\* Every step of a handler brings its thread closer to the end of the handler: none of
\* them loops or starts over.
THEOREM HandlersEnd == Spec => [][ComesCloser]_vars
<1>1. ASSUME IInv, Next PROVE ComesCloser
  <2>1. ASSUME NEW t \in Threads, NEW from \in Steps, NEW to \in Steps, pc[t] = from, Goto(t, to),
               from = "idle" \/ ToGo(to) < ToGo(from)
        PROVE  ComesCloser
    <3>1. pc'[t] = to /\ \A u \in Threads : u # t => pc'[u] = pc[u]
      BY <1>1, <2>1 DEF IInv, TypeOK
    <3> QED
      BY <2>1, <3>1 DEF ComesCloser, Busy
  <2>2. CASE BrowserMessage
    <3>1. /\ pc["loop"] = "idle"
          /\ \/ pc' = pc \/ Goto("loop", "addTracks") \/ Goto("loop", "get") \/ Goto("loop", "deliver")
             \/ Goto("loop", "removeTracks")
      BY <2>2 DEF BrowserMessage, OfferNew, OfferAgain, ReceiveOffer, RecvSdpOrCandidate, OnPeerCommand,
          ReceiveForPeer, Bye
    <3> HIDE DEF Goto
    <3> QED
      BY <2>1, <3>1 DEF ComesCloser
  <2>3. CASE OfferAnswered
    <3>1. pc["sig"] = "idle" /\ (pc' = pc \/ Goto("sig", "removeTracks"))
      BY <2>3 DEF OfferAnswered, OnSuccess, OnFailure, Answered
    <3> HIDE DEF Goto
    <3> QED
      BY <2>1, <3>1 DEF ComesCloser
  <2>4. CASE CameraDelete \/ \E w \in Workers : Reset(w) \/ Tell(w)
    <3>1. \E w \in Workers : \/ pc[w] = "idle" /\ Goto(w, "reset")
                             \/ pc[w] = "reset" /\ Goto(w, "tell")
                             \/ pc[w] = "tell" /\ Goto(w, "idle")
      BY <2>4 DEF CameraDelete, StopCamera, Reset, Tell
    <3>2. ToGo("idle") < ToGo("tell") /\ ToGo("tell") < ToGo("reset")
      BY DEF ToGo
    <3> HIDE DEF Goto
    <3> QED
      BY <2>1, <3>1, <3>2
  <2>5. CASE Add \/ Deliver \/ Delete
    <3>1. \/ pc["loop"] = "get" /\ Goto("loop", "addTracks")
          \/ pc["loop"] = "addTracks" /\ (Goto("loop", "createTrack") \/ Goto("loop", "setEnabled"))
          \/ pc["loop"] = "createTrack" /\ Goto("loop", "setEnabled")
          \/ pc["loop"] = "setEnabled" /\ Goto("loop", "addTrack")
          \/ pc["loop"] = "addTrack" /\ Goto("loop", "addRef")
          \/ pc["loop"] = "addRef" /\ Goto("loop", "createOffer")
          \/ pc["loop"] \in {"createOffer", "deliver", "delete"} /\ Goto("loop", "idle")
      BY <2>5 DEF Add, GetPeer, AddTracks, CreateTrack, SetEnabled, AddTrack, AddRef, CreateOffer, Deliver,
          Delete
    <3>2. /\ ToGo("get") = 7 /\ ToGo("addTracks") = 6 /\ ToGo("createTrack") = 5 /\ ToGo("setEnabled") = 4
          /\ ToGo("addTrack") = 3 /\ ToGo("addRef") = 2 /\ ToGo("idle") = 0
          /\ \A step \in {"createOffer", "deliver", "delete"} : ToGo(step) = 1
      BY DEF ToGo
    <3> HIDE DEF Goto
    <3> QED
      BY <2>1, <3>1, <3>2
  <2>6. ASSUME NEW t \in {"loop", "sig"}, Remove(t) \/ (t = "sig" /\ Drop) PROVE ComesCloser
    <3>1. \/ pc[t] = "removeTracks" /\ Goto(t, "find")
          \/ pc[t] = "find" /\ (Goto(t, "release") \/ Goto(t, AfterRemove(t)))
          \/ pc[t] = "release" /\ (Goto(t, "lock") \/ Goto(t, AfterRemove(t)))
          \/ pc[t] = "lock" /\ Goto(t, "eraseTrack")
          \/ pc[t] = "eraseTrack" /\ Goto(t, "eraseSource")
          \/ pc[t] = "eraseSource" /\ Goto(t, AfterRemove(t))
          \/ pc[t] = "drop" /\ Goto(t, "idle")
      BY <2>6 DEF Remove, RemoveTracks, FindSource, ReleaseSource, LockForErase, EraseTrack, EraseSource, Drop
    <3>2. AfterRemove(t) \in {"delete", "drop"}
      BY DEF AfterRemove
    <3>3. /\ ToGo("removeTracks") = 7 /\ ToGo("find") = 6 /\ ToGo("release") = 5 /\ ToGo("lock") = 4
          /\ ToGo("eraseTrack") = 3 /\ ToGo("eraseSource") = 2 /\ ToGo("idle") = 0
          /\ ToGo("delete") = 1 /\ ToGo("drop") = 1
      BY DEF ToGo
    <3> HIDE DEF Goto, AfterRemove
    <3> QED
      BY <2>1, <3>1, <3>2, <3>3
  <2>7. CASE \E t \in Threads : Crash(t)
    BY <2>7 DEF Crash, ComesCloser
  <2> QED
    BY <1>1, <2>2, <2>3, <2>4, <2>5, <2>6, <2>7 DEF Next, LoopContinues, SigContinues, WorkerContinues
<1>2. IInv /\ [Next]_vars => [ComesCloser]_vars
  BY <1>1
<1> QED
  BY <1>2, IInvHolds, PTL DEF Spec

=============================================================================
