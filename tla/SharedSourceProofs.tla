------------------------- MODULE SharedSourceProofs -------------------------
(***************************************************************************)
(* The shared sources of MultiplexMediaCapturer, for environments in which *)
(* WebRTC answers every offer.  There addMediaTracks and remove both run   *)
(* on the loop, and what is left to race with them is stop() on the worker *)
(* loops.                                                                  *)
(***************************************************************************)
EXTENDS SourceLeakProofs

(***************************************************************************)
(* The handlers.  Only the loop works on Peers; it has one that is alive,  *)
(* and one it is closing is the only one of its browser.                   *)
(***************************************************************************)
NoFailure == pc["sig"] = "idle"
LoopAlive == pc["loop"] # "idle" => life[conn["loop"]] = "alive"
ClosingIsOut ==
  pc["loop"] \in OwningSteps => table[peerid[conn["loop"]]] = Nil

HandlerInv == NoFailure /\ LoopAlive /\ ClosingIsOut

(***************************************************************************)
(* The maps.  The steps after the lookups find what they looked up; that a *)
(* source is of one camera and a new one has no viewers is known already   *)
(* (FreshSource, OneCamera).                                               *)
(***************************************************************************)
SourceFound ==
  /\ pc["loop"] \in {"createTrack", "setEnabled", "addTrack", "addRef"} =>
       mapVideoSource[Cam("loop")] # Nil
  /\ pc["loop"] = "addRef" => mapVideoSource[Cam("loop")] \in tracks[conn["loop"]]
\* The two maps differ only while the loop is between their updates.
MapsAgree ==
  /\ \A c \in Cams : mapvideo_track[c] # mapVideoSource[c] =>
       pc["loop"] \in {"createTrack", "eraseSource"} /\ c = Cam("loop")
  /\ pc["loop"] = "eraseSource" => mapvideo_track[Cam("loop")] = Nil
IteratorValid ==
  pc["loop"] \in {"release", "lock", "eraseTrack", "eraseSource"} =>
    vsItr["loop"] # Nil /\ vsItr["loop"] = mapVideoSource[Cam("loop")]
Emptied ==
  pc["loop"] \in {"lock", "eraseTrack", "eraseSource"} =>
    setPeerid[mapVideoSource[Cam("loop")]] = {}

MapInv == SourceFound /\ MapsAgree /\ IteratorValid /\ Emptied

(***************************************************************************)
(* The viewers.  Served is NoSilentCutOff from addRef on.                  *)
(***************************************************************************)
NotYetAdded(p) == pc["loop"] \in AddingSteps \ {"createOffer"} /\ conn["loop"] = p
Served ==
  \A i \in Ids :
    (table[i] # Nil /\ ~NotYetAdded(table[i]) /\ i \notin told /\ ~BeingTold(i)) =>
      LET s == mapVideoSource[peerCam[table[i]]] IN
        s # Nil /\ s \in tracks[table[i]] /\ i \in setPeerid[s]

\* A worker loop has nobody to tell but between stop() and the messages.
HandsEmpty == \A w \in Workers : pc[w] # "tell" => sPeerIds[w] = {}

ViewerInv == Served /\ HandsEmpty

SourceInv == HandlerInv /\ MapInv /\ ViewerInv /\ OnlyStopRaces

USE WorkersAssumption
    DEF Nil, Handles, Threads, At, Goto, Cam, FaultAt, Faults, Steps, LoopSteps, SigSteps,
        WorkerSteps, AddSteps, RemoveSteps, StopSteps, browserVars, peerVars,
        sourceVars, localVars

LEMMA InitSourceInv == Init => SourceInv
  BY BoundAssumption
  DEF Init, SourceInv, HandlerInv, NoFailure, LoopAlive, ClosingIsOut, OwningSteps, MapInv,
      SourceFound, MapsAgree, IteratorValid, Emptied, ViewerInv, Served, HandsEmpty,
      OnlyStopRaces

(***************************************************************************)
(* The Peer and the camera the handler of the loop works on.               *)
(***************************************************************************)
LEMMA LoopPeerFacts ==
  ASSUME IInv, SourceInv, pc["loop"] # "idle"
  PROVE  /\ conn["loop"] \in Handles
         /\ life[conn["loop"]] = "alive"
         /\ peerid[conn["loop"]] \in Ids
         /\ Cam("loop") \in Cams
  BY DEF IInv, LoopPeer, PeersNamed, SourceInv, HandlerInv, LoopAlive

SourcesStill  == UNCHANGED <<offers, mapVideoSource, mapvideo_track, setPeerid>>
ViewersStill  == UNCHANGED <<tracks, told, sPeerIds>>

USE DEF SourceInv, HandlerInv, MapInv, ViewerInv, LoopMoves, SessionsStill, SourcesStill,
        ViewersStill

(***************************************************************************)
(* Steps that only move the loop on.                                       *)
(***************************************************************************)
LEMMA GetPeerKeeps ==
  ASSUME IInv, SourceInv, GetPeer
  PROVE  SourceInv'
<1>1. LoopMoves("get", "addTracks")
  BY LoopGoes DEF GetPeer
<1>2. SessionsStill /\ SourcesStill /\ ViewersStill /\ conn' = conn /\ vsItr' = vsItr
  BY DEF GetPeer
<1>3. fault' = "none"
  BY DEF GetPeer
<1>4. HandlerInv'
  BY <1>1, <1>2, <1>3 DEF NoFailure, LoopAlive, ClosingIsOut, OwningSteps
<1>5. SourceFound' /\ MapsAgree'
  BY <1>1, <1>2, <1>3 DEF SourceFound, MapsAgree
<1>6. IteratorValid' /\ Emptied'
  BY <1>1, <1>2, <1>3 DEF IteratorValid, Emptied
<1>7. Served'
  BY <1>1, <1>2, <1>3 DEF Served, NotYetAdded, AddingSteps, BeingTold
<1>8. OnlyStopRaces' /\ HandsEmpty'
  BY <1>1, <1>2, <1>3 DEF OnlyStopRaces, HandsEmpty
<1> QED
  BY <1>4, <1>5, <1>6, <1>7, <1>8

LEMMA SetEnabledKeeps ==
  ASSUME IInv, SourceInv, SetEnabled
  PROVE  SourceInv'
<1>1. LoopMoves("setEnabled", "addTrack")
  BY LoopGoes DEF SetEnabled
<1>2. SessionsStill /\ SourcesStill /\ ViewersStill /\ conn' = conn /\ vsItr' = vsItr
  BY DEF SetEnabled
<1>3. fault' = "none"
  BY DEF SetEnabled
<1>4. HandlerInv'
  BY <1>1, <1>2, <1>3 DEF NoFailure, LoopAlive, ClosingIsOut, OwningSteps
<1>5. SourceFound' /\ MapsAgree'
  BY <1>1, <1>2, <1>3 DEF SourceFound, MapsAgree
<1>6. IteratorValid' /\ Emptied'
  BY <1>1, <1>2, <1>3 DEF IteratorValid, Emptied
<1>7. Served'
  BY <1>1, <1>2, <1>3 DEF Served, NotYetAdded, AddingSteps, BeingTold
<1>8. OnlyStopRaces' /\ HandsEmpty'
  BY <1>1, <1>2, <1>3 DEF OnlyStopRaces, HandsEmpty
<1> QED
  BY <1>4, <1>5, <1>6, <1>7, <1>8

LEMMA CreateOfferKeeps ==
  ASSUME IInv, SourceInv, CreateOffer
  PROVE  SourceInv'
<1>1. LoopMoves("createOffer", "idle")
  BY LoopGoes DEF CreateOffer
<1>2. SessionsStill /\ SourcesStill /\ ViewersStill /\ conn' = conn /\ vsItr' = vsItr
  BY DEF CreateOffer
<1>3. fault' = "none"
  BY DEF CreateOffer
<1>4. HandlerInv'
  BY <1>1, <1>2, <1>3 DEF NoFailure, LoopAlive, ClosingIsOut, OwningSteps
<1>5. SourceFound' /\ MapsAgree'
  BY <1>1, <1>2, <1>3 DEF SourceFound, MapsAgree
<1>6. IteratorValid' /\ Emptied'
  BY <1>1, <1>2, <1>3 DEF IteratorValid, Emptied
<1>7. Served'
  BY <1>1, <1>2, <1>3 DEF Served, NotYetAdded, AddingSteps, BeingTold
<1>8. OnlyStopRaces' /\ HandsEmpty'
  BY <1>1, <1>2, <1>3 DEF OnlyStopRaces, HandsEmpty
<1> QED
  BY <1>4, <1>5, <1>6, <1>7, <1>8

LEMMA DeliverKeeps ==
  ASSUME IInv, SourceInv, Deliver
  PROVE  SourceInv'
<1>1. LoopMoves("deliver", "idle")
  BY LoopGoes DEF Deliver
<1>2. SessionsStill /\ SourcesStill /\ ViewersStill /\ conn' = conn /\ vsItr' = vsItr
  BY DEF Deliver
<1>3. fault' = "none"
  BY DEF Deliver
<1>4. HandlerInv'
  BY <1>1, <1>2, <1>3 DEF NoFailure, LoopAlive, ClosingIsOut, OwningSteps
<1>5. SourceFound' /\ MapsAgree'
  BY <1>1, <1>2, <1>3 DEF SourceFound, MapsAgree
<1>6. IteratorValid' /\ Emptied'
  BY <1>1, <1>2, <1>3 DEF IteratorValid, Emptied
<1>7. Served'
  BY <1>1, <1>2, <1>3 DEF Served, NotYetAdded, AddingSteps, BeingTold
<1>8. OnlyStopRaces' /\ HandsEmpty'
  BY <1>1, <1>2, <1>3 DEF OnlyStopRaces, HandsEmpty
<1> QED
  BY <1>4, <1>5, <1>6, <1>7, <1>8

LEMMA LockForEraseKeeps ==
  ASSUME IInv, SourceInv, LockForErase("loop")
  PROVE  SourceInv'
<1>1. LoopMoves("lock", "eraseTrack")
  BY LoopGoes DEF LockForErase
<1>2. SessionsStill /\ SourcesStill /\ ViewersStill /\ conn' = conn /\ vsItr' = vsItr
  BY DEF LockForErase
<1>3. fault' = "none"
  BY DEF LockForErase
<1>4. HandlerInv'
  BY <1>1, <1>2, <1>3 DEF NoFailure, LoopAlive, ClosingIsOut, OwningSteps
<1>5. SourceFound' /\ MapsAgree'
  BY <1>1, <1>2, <1>3 DEF SourceFound, MapsAgree
<1>6. IteratorValid' /\ Emptied'
  BY <1>1, <1>2, <1>3 DEF IteratorValid, Emptied
<1>7. Served'
  BY <1>1, <1>2, <1>3 DEF Served, NotYetAdded, AddingSteps, BeingTold
<1>8. OnlyStopRaces' /\ HandsEmpty'
  BY <1>1, <1>2, <1>3 DEF OnlyStopRaces, HandsEmpty
<1> QED
  BY <1>4, <1>5, <1>6, <1>7, <1>8

(***************************************************************************)
(* addMediaTracks.                                                         *)
(***************************************************************************)
\* A new source is empty and of this camera alone.
LEMMA AddTracksKeeps ==
  ASSUME IInv, FreshSource, SourceInv, AddTracks
  PROVE  SourceInv'
<1> DEFINE c == Cam("loop")
<1>1. /\ SessionsStill /\ ViewersStill /\ conn' = conn /\ vsItr' = vsItr
      /\ offers' = offers /\ mapvideo_track' = mapvideo_track /\ setPeerid' = setPeerid
      /\ fault' = "none"
      /\ pc["loop"] = "addTracks"
  BY DEF AddTracks
<1>2. c \in Cams /\ conn["loop"] \in Handles /\ life[conn["loop"]] = "alive"
  BY <1>1, LoopPeerFacts
<1>3. \/ /\ LoopMoves("addTracks", "setEnabled")
         /\ mapVideoSource' = mapVideoSource
         /\ mapVideoSource[c] # Nil
      \/ /\ LoopMoves("addTracks", "createTrack")
         /\ mapVideoSource' = [mapVideoSource EXCEPT ![c] = offers]
         /\ mapVideoSource[c] = Nil
  BY LoopGoes DEF AddTracks
<1>4. /\ mapVideoSource'[c] # Nil
      /\ \A d \in Cams : d # c => mapVideoSource'[d] = mapVideoSource[d]
      /\ mapVideoSource[c] # Nil => mapVideoSource'[c] = mapVideoSource[c]
      /\ mapVideoSource[c] = Nil => mapVideoSource'[c] = offers
  BY <1>1, <1>2, <1>3 DEF IInv, TypeOK, FreshSource, Entering
<1>5. \A i \in Ids : table[i] # Nil => table[i] \in Handles /\ peerCam[table[i]] \in Cams
  BY TableFacts DEF IInv, PeersNamed
<1>6. HandlerInv'
  BY <1>1, <1>2, <1>3, <1>4, <1>5 DEF NoFailure, LoopAlive, ClosingIsOut, OwningSteps
<1>7. SourceFound' /\ MapsAgree'
  BY <1>1, <1>2, <1>3, <1>4, <1>5 DEF SourceFound, MapsAgree
<1>8. IteratorValid' /\ Emptied'
  BY <1>1, <1>2, <1>3, <1>4, <1>5 DEF IteratorValid, Emptied
<1>9. Served'
  <2>1. \A q : NotYetAdded(q)' <=> NotYetAdded(q)
    BY <1>1, <1>3 DEF NotYetAdded, AddingSteps
  <2>2. \A i : BeingTold(i)' <=> BeingTold(i)
    BY <1>1 DEF BeingTold
  <2> QED
    BY <1>1, <1>4, <1>5, <2>1, <2>2 DEF Served
<1>10. OnlyStopRaces' /\ HandsEmpty'
  BY <1>1, <1>2, <1>3, <1>4, <1>5 DEF OnlyStopRaces, HandsEmpty
<1> QED
  BY <1>6, <1>7, <1>8, <1>9, <1>10

LEMMA CreateTrackKeeps ==
  ASSUME IInv, SourceInv, CreateTrack
  PROVE  SourceInv'
<1> DEFINE c == Cam("loop")
<1>1. /\ SessionsStill /\ ViewersStill /\ conn' = conn /\ vsItr' = vsItr
      /\ offers' = offers /\ mapVideoSource' = mapVideoSource /\ setPeerid' = setPeerid
      /\ fault' = "none"
  BY DEF CreateTrack
<1>2. LoopMoves("createTrack", "setEnabled")
  BY LoopGoes DEF CreateTrack
<1>3. c \in Cams
  BY <1>2, LoopPeerFacts
<1>4. /\ mapvideo_track'[c] = mapVideoSource[c]
      /\ \A d \in Cams : d # c => mapvideo_track'[d] = mapvideo_track[d]
  BY <1>3 DEF CreateTrack, IInv, TypeOK
<1>5. HandlerInv'
  BY <1>1, <1>2, <1>3, <1>4 DEF NoFailure, LoopAlive, ClosingIsOut, OwningSteps
<1>6. SourceFound' /\ MapsAgree'
  BY <1>1, <1>2, <1>3, <1>4 DEF SourceFound, MapsAgree
<1>7. IteratorValid' /\ Emptied'
  BY <1>1, <1>2, <1>3, <1>4 DEF IteratorValid, Emptied
<1>8. Served'
  BY <1>1, <1>2, <1>3, <1>4 DEF Served, NotYetAdded, AddingSteps, BeingTold
<1>9. OnlyStopRaces' /\ HandsEmpty'
  BY <1>1, <1>2, <1>3, <1>4 DEF OnlyStopRaces, HandsEmpty
<1> QED
  BY <1>5, <1>6, <1>7, <1>8, <1>9

\* The track that is added is the one of the source in the map.
LEMMA AddTrackKeeps ==
  ASSUME IInv, SourceInv, AddTrack
  PROVE  SourceInv'
<1> DEFINE c == Cam("loop")
           p == conn["loop"]
<1>1. /\ SessionsStill /\ SourcesStill /\ conn' = conn /\ vsItr' = vsItr
      /\ told' = told /\ sPeerIds' = sPeerIds
      /\ fault' = "none"
  BY DEF AddTrack
<1>2. LoopMoves("addTrack", "addRef")
  BY LoopGoes DEF AddTrack
<1>3. c \in Cams /\ p \in Handles
  BY <1>2, LoopPeerFacts
<1>4. mapvideo_track[c] = mapVideoSource[c] /\ mapVideoSource[c] # Nil
  BY <1>2, <1>3 DEF MapsAgree, SourceFound
<1>5. /\ mapVideoSource[c] \in tracks'[p]
      /\ \A q \in Handles : q # p => tracks'[q] = tracks[q]
  BY <1>3, <1>4 DEF AddTrack, IInv, TypeOK
<1>6. HandlerInv'
  BY <1>1, <1>2, <1>3, <1>4, <1>5 DEF NoFailure, LoopAlive, ClosingIsOut, OwningSteps
<1>7. SourceFound' /\ MapsAgree'
  BY <1>1, <1>2, <1>3, <1>4, <1>5 DEF SourceFound, MapsAgree
<1>8. IteratorValid' /\ Emptied'
  BY <1>1, <1>2, <1>3, <1>4, <1>5 DEF IteratorValid, Emptied
<1>9. Served'
  BY <1>1, <1>2, <1>5, TableFacts DEF Served, NotYetAdded, AddingSteps, BeingTold
<1>10. OnlyStopRaces' /\ HandsEmpty'
  BY <1>1, <1>2, <1>3, <1>4, <1>5 DEF OnlyStopRaces, HandsEmpty
<1> QED
  BY <1>6, <1>7, <1>8, <1>9, <1>10

\* From here on the viewer is served, unless a camera deletion takes it out again.
LEMMA AddRefKeeps ==
  ASSUME IInv, SourceInv, AddRef
  PROVE  SourceInv'
<1> DEFINE c == Cam("loop")
           p == conn["loop"]
           s == mapVideoSource[c]
<1>1. /\ SessionsStill /\ ViewersStill /\ conn' = conn /\ vsItr' = vsItr
      /\ offers' = offers /\ mapVideoSource' = mapVideoSource
      /\ mapvideo_track' = mapvideo_track
      /\ fault' = "none"
  BY DEF AddRef
<1>2. LoopMoves("addRef", "createOffer")
  BY LoopGoes DEF AddRef
<1>3. c \in Cams /\ p \in Handles /\ life[p] = "alive" /\ peerid[p] \in Ids
  BY <1>2, LoopPeerFacts
<1>4. s \in Handles /\ s \in tracks[p]
  BY <1>2, <1>3 DEF SourceFound, IInv, TypeOK
<1>5. /\ setPeerid'[s] = setPeerid[s] \union {peerid[p]}
      /\ \A r \in Handles : r # s => setPeerid'[r] = setPeerid[r]
  BY <1>3, <1>4 DEF AddRef, IInv, TypeOK
<1>6. HandlerInv'
  BY <1>1, <1>2, <1>3, <1>4, <1>5 DEF NoFailure, LoopAlive, ClosingIsOut, OwningSteps
<1>7. SourceFound' /\ MapsAgree'
  BY <1>1, <1>2, <1>3, <1>4, <1>5 DEF SourceFound, MapsAgree
<1>8. IteratorValid' /\ Emptied'
  BY <1>1, <1>2, <1>3, <1>4, <1>5 DEF IteratorValid, Emptied
<1>9. Served'
  <2>1. \A i : BeingTold(i)' <=> BeingTold(i)
    BY <1>1 DEF BeingTold
  <2>2. \A i \in Ids : table[i] # Nil => peerCam[table[i]] \in Cams /\ (table[i] = p => i = peerid[p])
    BY TableFacts DEF IInv, PeersNamed
  <2>3. \A d \in Cams : mapVideoSource[d] # Nil =>
          mapVideoSource[d] \in Handles /\ setPeerid[mapVideoSource[d]] \subseteq setPeerid'[mapVideoSource[d]]
    BY <1>5, SMTT(30) DEF IInv, TypeOK
  <2>4. ASSUME NEW i \in Ids, table[i] # Nil, ~NotYetAdded(table[i])', i \notin told, ~BeingTold(i)
        PROVE  LET r == mapVideoSource[peerCam[table[i]]] IN
                 r # Nil /\ r \in tracks[table[i]] /\ i \in setPeerid'[r]
    <3>1. CASE table[i] = p
      BY <1>3, <1>4, <1>5, <2>2, <2>4, <3>1
    <3>2. CASE table[i] # p
      <4>1. ~NotYetAdded(table[i])
        BY <1>1, <1>2, <2>4, <3>2 DEF NotYetAdded
      <4>2. LET r == mapVideoSource[peerCam[table[i]]] IN
              r # Nil /\ r \in tracks[table[i]] /\ i \in setPeerid[r]
        BY <2>4, <4>1 DEF Served
      <4> QED
        BY <2>2, <2>3, <2>4, <4>2
    <3> QED
      BY <3>1, <3>2
  <2> QED
    BY <1>1, <2>1, <2>4 DEF Served
<1>10. OnlyStopRaces' /\ HandsEmpty'
  BY <1>1, <1>2, <1>3, <1>4, <1>5 DEF OnlyStopRaces, HandsEmpty
<1> QED
  BY <1>6, <1>7, <1>8, <1>9, <1>10

(***************************************************************************)
(* remove, on the loop.                                                    *)
(***************************************************************************)
LEMMA RemoveTracksKeeps ==
  ASSUME IInv, SourceInv, RemoveTracks("loop")
  PROVE  SourceInv'
<1> DEFINE p == conn["loop"]
<1>1. /\ SessionsStill /\ SourcesStill /\ conn' = conn /\ vsItr' = vsItr
      /\ told' = told /\ sPeerIds' = sPeerIds
      /\ fault' = "none"
  BY DEF RemoveTracks
<1>2. LoopMoves("removeTracks", "find")
  BY LoopGoes DEF RemoveTracks
<1>3. \A q \in Handles : q # p => tracks'[q] = tracks[q]
  BY DEF RemoveTracks, IInv, TypeOK
<1>4. \A i \in Ids : table[i] # Nil => table[i] # p /\ table[i] \in Handles
  BY <1>2, TableFacts DEF OwnedByLoop
<1>5. HandlerInv'
  BY <1>1, <1>2, <1>3, <1>4 DEF NoFailure, LoopAlive, ClosingIsOut, OwningSteps
<1>6. SourceFound' /\ MapsAgree'
  BY <1>1, <1>2, <1>3, <1>4 DEF SourceFound, MapsAgree
<1>7. IteratorValid' /\ Emptied'
  BY <1>1, <1>2, <1>3, <1>4 DEF IteratorValid, Emptied
<1>8. Served'
  BY <1>1, <1>2, <1>3, <1>4 DEF Served, NotYetAdded, AddingSteps, BeingTold
<1>9. OnlyStopRaces' /\ HandsEmpty'
  BY <1>1, <1>2, <1>3, <1>4 DEF OnlyStopRaces, HandsEmpty
<1> QED
  BY <1>5, <1>6, <1>7, <1>8, <1>9

LEMMA FindSourceKeeps ==
  ASSUME IInv, SourceInv, FindSource("loop")
  PROVE  SourceInv'
<1>1. SessionsStill /\ SourcesStill /\ ViewersStill /\ conn' = conn /\ fault' = "none"
  BY DEF FindSource
<1>2. vsItr'["loop"] = mapVideoSource[Cam("loop")]
  BY DEF FindSource, IInv, TypeOK
<1>3. \/ LoopMoves("find", "delete") /\ mapVideoSource[Cam("loop")] = Nil
      \/ LoopMoves("find", "release") /\ mapVideoSource[Cam("loop")] # Nil
  BY LoopGoes DEF FindSource, AfterRemove
<1>4. HandlerInv'
  BY <1>1, <1>2, <1>3 DEF NoFailure, LoopAlive, ClosingIsOut, OwningSteps
<1>5. SourceFound' /\ MapsAgree'
  BY <1>1, <1>2, <1>3 DEF SourceFound, MapsAgree
<1>6. IteratorValid' /\ Emptied'
  BY <1>1, <1>2, <1>3 DEF IteratorValid, Emptied
<1>7. Served'
  BY <1>1, <1>2, <1>3 DEF Served, NotYetAdded, AddingSteps, BeingTold
<1>8. OnlyStopRaces' /\ HandsEmpty'
  BY <1>1, <1>2, <1>3 DEF OnlyStopRaces, HandsEmpty
<1> QED
  BY <1>4, <1>5, <1>6, <1>7, <1>8

\* The release that leaves nobody is the last.
LEMMA ReleaseSourceKeeps ==
  ASSUME IInv, SourceInv, ReleaseSource("loop")
  PROVE  SourceInv'
<1> DEFINE c == Cam("loop")
           s == mapVideoSource[c]
           i == peerid[conn["loop"]]
<1>1. /\ SessionsStill /\ ViewersStill /\ conn' = conn /\ vsItr' = vsItr
      /\ offers' = offers /\ mapVideoSource' = mapVideoSource
      /\ mapvideo_track' = mapvideo_track
      /\ fault' = "none"
      /\ pc["loop"] = "release"
  BY DEF ReleaseSource
<1>2. c \in Cams /\ s \in Handles
  BY <1>1, LoopPeerFacts DEF IteratorValid, IInv, TypeOK
<1>3. /\ setPeerid'[s] = setPeerid[s] \ {i}
      /\ \A r \in Handles : r # s => setPeerid'[r] = setPeerid[r]
  BY <1>2 DEF ReleaseSource, IInv, TypeOK
<1>4. \/ LoopMoves("release", "lock") /\ setPeerid'[s] = {}
      \/ LoopMoves("release", "delete") /\ setPeerid'[s] # {}
  BY <1>3, LoopGoes, SMTT(30) DEF ReleaseSource, DropsLast, AfterRemove
<1>5. table[i] = Nil
  BY <1>1 DEF ClosingIsOut, OwningSteps
<1>6. HandlerInv'
  BY <1>1, <1>2, <1>3, <1>4, <1>5 DEF NoFailure, LoopAlive, ClosingIsOut, OwningSteps
<1>7. SourceFound' /\ MapsAgree'
  BY <1>1, <1>2, <1>3, <1>4, <1>5 DEF SourceFound, MapsAgree
<1>8. IteratorValid' /\ Emptied'
  BY <1>1, <1>2, <1>3, <1>4, <1>5 DEF IteratorValid, Emptied
<1>9. Served'
  <2>1. \A j : BeingTold(j)' <=> BeingTold(j)
    BY <1>1 DEF BeingTold
  <2>2. \A j \in Ids : table[j] # Nil => peerCam[table[j]] \in Cams /\ j # i
    BY <1>5, TableFacts DEF IInv, PeersNamed
  <2>3. \A d \in Cams, j \in Ids :
          mapVideoSource[d] # Nil /\ j \in setPeerid[mapVideoSource[d]] /\ j # i =>
            j \in setPeerid'[mapVideoSource[d]]
    BY <1>2, <1>3 DEF IInv, TypeOK
  <2>4. \A q : ~NotYetAdded(q)
    BY <1>1 DEF NotYetAdded, AddingSteps
  <2> QED
    BY <1>1, <2>1, <2>2, <2>3, <2>4 DEF Served
<1>10. OnlyStopRaces' /\ HandsEmpty'
  BY <1>1, <1>2, <1>3, <1>4, <1>5 DEF OnlyStopRaces, HandsEmpty
<1> QED
  BY <1>6, <1>7, <1>8, <1>9, <1>10

LEMMA EraseTrackKeeps ==
  ASSUME IInv, SourceInv, EraseTrack("loop")
  PROVE  SourceInv'
<1> DEFINE c == Cam("loop")
<1>1. /\ SessionsStill /\ ViewersStill /\ conn' = conn /\ vsItr' = vsItr
      /\ offers' = offers /\ mapVideoSource' = mapVideoSource /\ setPeerid' = setPeerid
      /\ fault' = "none"
  BY DEF EraseTrack
<1>2. LoopMoves("eraseTrack", "eraseSource")
  BY LoopGoes DEF EraseTrack
<1>3. /\ \A d \in Cams : d # c => mapvideo_track'[d] = mapvideo_track[d]
      /\ mapvideo_track'[c] = Nil
  BY <1>2, LoopPeerFacts DEF EraseTrack, IInv, TypeOK
<1>4. HandlerInv'
  BY <1>1, <1>2, <1>3 DEF NoFailure, LoopAlive, ClosingIsOut, OwningSteps
<1>5. SourceFound' /\ MapsAgree'
  BY <1>1, <1>2, <1>3 DEF SourceFound, MapsAgree
<1>6. IteratorValid' /\ Emptied'
  BY <1>1, <1>2, <1>3 DEF IteratorValid, Emptied
<1>7. Served'
  BY <1>1, <1>2, <1>3 DEF Served, NotYetAdded, AddingSteps, BeingTold
<1>8. OnlyStopRaces' /\ HandsEmpty'
  BY <1>1, <1>2, <1>3 DEF OnlyStopRaces, HandsEmpty
<1> QED
  BY <1>4, <1>5, <1>6, <1>7, <1>8

\* The viewers of the source that goes were told, or have left.
LEMMA EraseSourceKeeps ==
  ASSUME IInv, SourceInv, EraseSource("loop")
  PROVE  SourceInv'
<1> DEFINE c == Cam("loop")
<1>1. /\ SessionsStill /\ ViewersStill /\ conn' = conn /\ vsItr' = vsItr
      /\ offers' = offers /\ mapvideo_track' = mapvideo_track /\ setPeerid' = setPeerid
      /\ fault' = "none"
  BY DEF EraseSource
<1>2. LoopMoves("eraseSource", "delete")
  BY LoopGoes DEF EraseSource, AfterRemove
<1>3. c \in Cams
  BY <1>2, LoopPeerFacts
<1>4. /\ mapVideoSource'[c] = Nil
      /\ \A d \in Cams : d # c => mapVideoSource'[d] = mapVideoSource[d]
  BY <1>3 DEF EraseSource, IInv, TypeOK
<1>5. setPeerid[mapVideoSource[c]] = {}
  BY <1>2 DEF Emptied
<1>6. HandlerInv'
  BY <1>1, <1>2, <1>3, <1>4, <1>5 DEF NoFailure, LoopAlive, ClosingIsOut, OwningSteps
<1>7. SourceFound' /\ MapsAgree'
  BY <1>1, <1>2, <1>4 DEF SourceFound, MapsAgree
<1>8. IteratorValid' /\ Emptied'
  BY <1>1, <1>2, <1>3, <1>4, <1>5 DEF IteratorValid, Emptied
<1>9. Served'
  <2>1. \A j : BeingTold(j)' <=> BeingTold(j)
    BY <1>1 DEF BeingTold
  <2>2. \A j \in Ids : table[j] # Nil => peerCam[table[j]] \in Cams
    BY TableFacts DEF IInv, PeersNamed
  <2>3. \A q : ~NotYetAdded(q)
    BY <1>2 DEF NotYetAdded, AddingSteps
  <2> QED
    BY <1>1, <1>4, <1>5, <2>1, <2>2, <2>3 DEF Served
<1>10. OnlyStopRaces' /\ HandsEmpty'
  BY <1>1, <1>2, <1>3, <1>4, <1>5 DEF OnlyStopRaces, HandsEmpty
<1> QED
  BY <1>6, <1>7, <1>8, <1>9, <1>10

LEMMA DeleteKeeps ==
  ASSUME IInv, SourceInv, Delete
  PROVE  SourceInv'
<1> DEFINE p == conn["loop"]
<1>1. /\ table' = table /\ peerid' = peerid /\ peerCam' = peerCam
      /\ SourcesStill /\ conn' = conn /\ vsItr' = vsItr
      /\ told' = told /\ sPeerIds' = sPeerIds
      /\ fault' \in {"none", "late_callback"}
  BY DEF Delete, DestroyPeer
<1>2. LoopMoves("delete", "idle")
  BY LoopGoes DEF Delete
<1>3. \A q \in Handles : q # p => tracks'[q] = tracks[q]
  BY DEF Delete, DestroyPeer, IInv, TypeOK
<1>4. \A i \in Ids : table[i] # Nil => table[i] # p /\ table[i] \in Handles
  BY <1>2, TableFacts DEF OwnedByLoop
<1>5. HandlerInv'
  BY <1>1, <1>2, <1>3, <1>4 DEF NoFailure, LoopAlive, ClosingIsOut, OwningSteps
<1>6. SourceFound' /\ MapsAgree'
  BY <1>1, <1>2, <1>3, <1>4 DEF SourceFound, MapsAgree
<1>7. IteratorValid' /\ Emptied'
  BY <1>1, <1>2, <1>3, <1>4 DEF IteratorValid, Emptied
<1>8. Served'
  BY <1>1, <1>2, <1>3, <1>4 DEF Served, NotYetAdded, AddingSteps, BeingTold
<1>9. OnlyStopRaces' /\ HandsEmpty'
  BY <1>1, <1>2, <1>3, <1>4 DEF OnlyStopRaces, HandsEmpty
<1> QED
  BY <1>5, <1>6, <1>7, <1>8, <1>9

(***************************************************************************)
(* Steps that touch neither the loop nor what it works on.                 *)
(***************************************************************************)
Unsafe == {"bad_access", "stale_iterator", "use_after_delete"}
Aside ==
  /\ SessionsStill /\ SourcesStill /\ ViewersStill /\ conn' = conn /\ vsItr' = vsItr
  /\ pc'["loop"] = pc["loop"] /\ pc'["sig"] = pc["sig"]
  /\ \A w \in Workers : pc[w] = "tell" => pc'[w] = "tell"
  /\ fault' \in Unsafe => fault' = "bad_access" /\ \E w \in Workers : pc'[w] = "reset"

LEMMA AsideKeeps ==
  ASSUME IInv, SourceInv, Aside
  PROVE  SourceInv'
<1>1. HandlerInv'
  BY DEF Aside, NoFailure, LoopAlive, ClosingIsOut, OwningSteps
<1>2. SourceFound' /\ MapsAgree'
  BY DEF Aside, SourceFound, MapsAgree
<1>3. IteratorValid' /\ Emptied'
  BY DEF Aside, IteratorValid, Emptied
<1>4. Served'
  BY DEF Aside, Served, NotYetAdded, AddingSteps, BeingTold
<1>5. OnlyStopRaces' /\ HandsEmpty'
  BY DEF Aside, Unsafe, OnlyStopRaces, HandsEmpty
<1> QED
  BY <1>1, <1>2, <1>3, <1>4, <1>5

LEMMA OnSuccessKeeps ==
  ASSUME IInv, SourceInv, NEW p \in Handles, OnSuccess(p)
  PROVE  SourceInv'
<1>1. Aside
  BY DEF OnSuccess, Answered, Aside, Unsafe
<1> QED
  BY <1>1, AsideKeeps

LEMMA StopCameraKeeps ==
  ASSUME IInv, SourceInv, NEW w \in Workers, NEW c \in Cams, StopCamera(w, c)
  PROVE  SourceInv'
<1>1. /\ SessionsStill /\ SourcesStill /\ ViewersStill /\ conn' = conn /\ vsItr' = vsItr
      /\ fault' = "none"
  BY DEF StopCamera
<1>2. /\ pc'["loop"] = pc["loop"] /\ pc'["sig"] = pc["sig"]
      /\ \A v \in Workers : pc[v] = "tell" => pc'[v] = "tell"
  BY DEF StopCamera, IInv, TypeOK
<1> QED
  BY <1>1, <1>2, AsideKeeps DEF Aside, Unsafe

\* The only access that can go wrong is the one in stop().
LEMMA CrashKeeps ==
  ASSUME IInv, SourceInv, NEW t \in Threads, Crash(t)
  PROVE  SourceInv'
<1>1. /\ SessionsStill /\ SourcesStill /\ ViewersStill /\ conn' = conn /\ vsItr' = vsItr
      /\ pc' = pc /\ fault' = FaultAt(t) /\ FaultAt(t) # "none"
  BY DEF Crash
<1>2. CASE t = "loop"
  <2>1. pc["loop"] # "idle" => /\ life[conn["loop"]] = "alive"
                               /\ Cam("loop") \in Cams
    BY LoopPeerFacts
  <2>2. FaultAt("loop") \notin Unsafe
    BY <2>1 DEF Unsafe, SourceFound, MapsAgree, IteratorValid, IInv, TypeOK
  <2> QED
    BY <1>1, <1>2, <2>2, AsideKeeps DEF Aside
<1>3. CASE t = "sig"
  BY <1>1, <1>3 DEF NoFailure
<1>4. CASE t \in Workers
  <2>1. pc[t] \in {"idle", "reset", "tell"}
    BY <1>4 DEF IInv, TypeOK
  <2>2. FaultAt(t) = "bad_access" /\ pc[t] = "reset"
    BY <1>1, <2>1
  <2> QED
    BY <1>1, <1>4, <2>2, AsideKeeps DEF Aside, Unsafe
<1> QED
  BY <1>2, <1>3, <1>4

(***************************************************************************)
(* stop, on a worker loop: whoever is taken out is handed back to be told. *)
(***************************************************************************)
LEMMA ResetKeeps ==
  ASSUME IInv, SourceInv, NEW w \in Workers, Reset(w)
  PROVE  SourceInv'
<1> DEFINE s == mapVideoSource[stopCam[w]]
<1>1. /\ SessionsStill /\ conn' = conn /\ vsItr' = vsItr
      /\ offers' = offers /\ mapVideoSource' = mapVideoSource
      /\ mapvideo_track' = mapvideo_track /\ tracks' = tracks /\ told' = told
      /\ fault' = "none"
  BY DEF Reset
<1>2. /\ pc'["loop"] = pc["loop"] /\ pc'["sig"] = pc["sig"]
      /\ pc[w] = "reset" /\ pc'[w] = "tell"
      /\ \A v \in Workers : v # w => pc'[v] = pc[v]
  BY DEF Reset, IInv, TypeOK
<1>3. s \in Handles
  BY <1>2 DEF Reset, IInv, TypeOK, StopsCamera
<1>4. /\ setPeerid'[s] = {}
      /\ \A r \in Handles : r # s => setPeerid'[r] = setPeerid[r]
  BY <1>3 DEF Reset, IInv, TypeOK
<1>5. /\ sPeerIds[w] = {} /\ sPeerIds'[w] = setPeerid[s]
      /\ \A t \in Threads : t # w => sPeerIds'[t] = sPeerIds[t]
  BY <1>2 DEF Reset, IInv, TypeOK, HandsEmpty
<1>6. \A r \in Handles : setPeerid'[r] \subseteq setPeerid[r]
  BY <1>4
<1>7. HandlerInv'
  BY <1>1, <1>2, <1>3, <1>4, <1>5, <1>6 DEF NoFailure, LoopAlive, ClosingIsOut, OwningSteps
<1>8. SourceFound' /\ MapsAgree'
  BY <1>1, <1>2, <1>3, <1>4, <1>5, <1>6 DEF SourceFound, MapsAgree
<1>9. IteratorValid' /\ Emptied'
  <2>1. IteratorValid'
    BY <1>1, <1>2 DEF IteratorValid
  <2>2. pc["loop"] \in {"lock", "eraseTrack", "eraseSource"} => mapVideoSource[Cam("loop")] \in Handles
    BY LoopPeerFacts DEF IteratorValid, IInv, TypeOK
  <2>3. Emptied'
    BY <1>1, <1>2, <1>6, <2>2 DEF Emptied
  <2> QED
    BY <2>1, <2>3
<1>10. Served'
  <2>1. \A i : BeingTold(i) \/ i \in setPeerid[s] => BeingTold(i)'
    BY <1>5 DEF BeingTold
  <2>2. \A q : NotYetAdded(q)' <=> NotYetAdded(q)
    BY <1>1, <1>2 DEF NotYetAdded
  <2>3. \A i \in Ids : table[i] # Nil => peerCam[table[i]] \in Cams
    BY TableFacts DEF IInv, PeersNamed
  <2>4. \A c \in Cams, i \in Ids :
          /\ mapVideoSource[c] # Nil
          /\ i \in setPeerid[mapVideoSource[c]]
          /\ i \notin setPeerid[s]
          => i \in setPeerid'[mapVideoSource[c]]
    BY <1>4 DEF IInv, TypeOK
  <2> QED
    BY <1>1, <2>1, <2>2, <2>3, <2>4 DEF Served
<1>11. OnlyStopRaces'
  BY <1>1 DEF OnlyStopRaces
<1>12. ASSUME NEW v \in Workers, pc'[v] # "tell"
       PROVE  sPeerIds'[v] = {}
  BY <1>2, <1>5, <1>12 DEF HandsEmpty
<1> QED
  BY <1>7, <1>8, <1>9, <1>10, <1>11, <1>12, Zenon DEF HandsEmpty

LEMMA TellKeeps ==
  ASSUME IInv, SourceInv, NEW w \in Workers, Tell(w)
  PROVE  SourceInv'
<1>1. /\ SessionsStill /\ SourcesStill /\ tracks' = tracks /\ conn' = conn /\ vsItr' = vsItr
      /\ told' = told \union sPeerIds[w]
      /\ fault' = "none"
  BY DEF Tell
<1>2. /\ pc'["loop"] = pc["loop"] /\ pc'["sig"] = pc["sig"]
      /\ pc[w] = "tell" /\ pc'[w] = "idle"
      /\ \A v \in Workers : v # w => pc'[v] = pc[v]
  BY DEF Tell, IInv, TypeOK
<1>3. /\ sPeerIds'[w] = {}
      /\ \A t \in Threads : t # w => sPeerIds'[t] = sPeerIds[t]
  BY DEF Tell, IInv, TypeOK
<1>4. HandlerInv'
  BY <1>1, <1>2, <1>3 DEF NoFailure, LoopAlive, ClosingIsOut, OwningSteps
<1>5. SourceFound' /\ MapsAgree'
  BY <1>1, <1>2, <1>3 DEF SourceFound, MapsAgree
<1>6. IteratorValid' /\ Emptied'
  BY <1>1, <1>2, <1>3 DEF IteratorValid, Emptied
<1>7. Served'
  <2>1. \A i : i \notin told' /\ ~BeingTold(i)' => i \notin told /\ ~BeingTold(i)
    BY <1>1, <1>3 DEF BeingTold
  <2>2. \A q : NotYetAdded(q)' <=> NotYetAdded(q)
    BY <1>1, <1>2 DEF NotYetAdded
  <2> QED
    BY <1>1, <2>1, <2>2 DEF Served
<1>8. OnlyStopRaces' /\ HandsEmpty'
  BY <1>1, <1>2, <1>3 DEF OnlyStopRaces, HandsEmpty
<1> QED
  BY <1>4, <1>5, <1>6, <1>7, <1>8

(***************************************************************************)
(* What the browsers send.                                                 *)
(***************************************************************************)
\* The new Peer is another one than every Peer in the table.
LEMMA OfferNewKeeps ==
  ASSUME IInv, SourceInv, NEW i \in Ids, NEW c \in Cams, OfferNew(i, c)
  PROVE  SourceInv'
<1> DEFINE n == offers'
<1>1. /\ n = offers + 1 /\ n \in Handles /\ offers \in Nat
      /\ life[n] = "none"
      /\ table[i] = Nil
      /\ told' = told \ {i}
      /\ mapVideoSource' = mapVideoSource /\ mapvideo_track' = mapvideo_track
      /\ setPeerid' = setPeerid /\ tracks' = tracks /\ sPeerIds' = sPeerIds /\ vsItr' = vsItr
      /\ fault' = "none"
  BY BoundAssumption DEF IInv, TypeOK, HandlesFresh, OfferNew, ReceiveOffer
<1>2. LoopMoves("idle", "addTracks")
  BY LoopGoes DEF OfferNew, ReceiveOffer
<1>3. /\ conn'["loop"] = n
      /\ peerid'[n] = i /\ peerCam'[n] = c /\ life'[n] = "alive"
      /\ table'[i] = n
      /\ \A j \in Ids : j # i => table'[j] = table[j]
      /\ \A q \in Handles : q # n => peerCam'[q] = peerCam[q]
  BY <1>1 DEF OfferNew, ReceiveOffer, IInv, TypeOK
<1>4. \A j \in Ids : table[j] # Nil =>
        j # i /\ table[j] # n /\ peerCam'[table'[j]] = peerCam[table[j]]
  BY <1>1, <1>3, TableFacts
<1>5. HandlerInv'
  BY <1>1, <1>2, <1>3, <1>4 DEF NoFailure, LoopAlive, ClosingIsOut, OwningSteps
<1>6. SourceFound' /\ MapsAgree'
  BY <1>1, <1>2, <1>3, <1>4 DEF SourceFound, MapsAgree
<1>7. IteratorValid' /\ Emptied'
  BY <1>1, <1>2, <1>3, <1>4 DEF IteratorValid, Emptied
<1>8. Served'
  <2>1. \A j : BeingTold(j)' <=> BeingTold(j)
    BY <1>1 DEF BeingTold
  <2>2. \A q : ~NotYetAdded(q)
    BY <1>2 DEF NotYetAdded, AddingSteps
  <2>3. ASSUME NEW j \in Ids, table'[j] # Nil, ~NotYetAdded(table[j])', j \notin told', ~BeingTold(j)
        PROVE  /\ j # i /\ table[j] # Nil /\ j \notin told
               /\ table'[j] = table[j]
    <3>1. table'[j] # n
      BY <1>2, <1>3, <2>3 DEF NotYetAdded, AddingSteps
    <3> QED
      BY <1>1, <1>3, <2>3, <3>1
  <2> QED
    BY <1>1, <1>4, <2>1, <2>2, <2>3 DEF Served
<1>9. OnlyStopRaces' /\ HandsEmpty'
  BY <1>1, <1>2, <1>3, <1>4 DEF OnlyStopRaces, HandsEmpty
<1> QED
  BY <1>5, <1>6, <1>7, <1>8, <1>9

LEMMA OfferAgainKeeps ==
  ASSUME IInv, SourceInv, NEW i \in Ids, OfferAgain(i)
  PROVE  SourceInv'
<1>1. /\ SessionsStill
      /\ offers' = offers + 1 /\ offers \in Nat /\ offers' \in Handles
      /\ table[i] # Nil
      /\ told' = told \ {i}
      /\ mapVideoSource' = mapVideoSource /\ mapvideo_track' = mapvideo_track
      /\ setPeerid' = setPeerid /\ tracks' = tracks /\ sPeerIds' = sPeerIds /\ vsItr' = vsItr
      /\ fault' = "none"
  BY BoundAssumption DEF IInv, TypeOK, OfferAgain, ReceiveOffer
<1>2. LoopMoves("idle", "get")
  BY LoopGoes DEF OfferAgain, ReceiveOffer
<1>3. conn'["loop"] = table[i] /\ life[table[i]] = "alive"
  BY <1>1, TableFacts DEF OfferAgain, ReceiveOffer, IInv, TypeOK
<1>4. HandlerInv'
  BY <1>1, <1>2, <1>3 DEF NoFailure, LoopAlive, ClosingIsOut, OwningSteps
<1>5. SourceFound' /\ MapsAgree'
  BY <1>1, <1>2, <1>3 DEF SourceFound, MapsAgree
<1>6. IteratorValid' /\ Emptied'
  BY <1>1, <1>2, <1>3 DEF IteratorValid, Emptied
<1>7. Served'
  <2>1. \A j : BeingTold(j)' <=> BeingTold(j)
    BY <1>1 DEF BeingTold
  <2>2. \A q : ~NotYetAdded(q)
    BY <1>2 DEF NotYetAdded, AddingSteps
  <2>3. NotYetAdded(table[i])'
    BY <1>1, <1>2, <1>3 DEF NotYetAdded, AddingSteps
  <2>4. \A j \in Ids : j # i /\ j \notin told' => j \notin told
    BY <1>1
  <2> QED
    BY <1>1, <2>1, <2>2, <2>3, <2>4 DEF Served
<1>8. OnlyStopRaces' /\ HandsEmpty'
  BY <1>1, <1>2, <1>3 DEF OnlyStopRaces, HandsEmpty
<1> QED
  BY <1>4, <1>5, <1>6, <1>7, <1>8

LEMMA ReceiveForPeerKeeps ==
  ASSUME IInv, SourceInv, NEW i \in Ids, NEW m \in {"peer_mismatch", "not_found"}, ReceiveForPeer(i, m)
  PROVE  SourceInv'
<1>1. /\ SessionsStill /\ SourcesStill /\ ViewersStill /\ vsItr' = vsItr
      /\ pc["loop"] = "idle"
  BY DEF ReceiveForPeer
<1>2. CASE table[i] = Nil
  BY <1>1, <1>2, AsideKeeps DEF ReceiveForPeer, Aside, Unsafe
<1>3. CASE table[i] # Nil
  <2>1. LoopMoves("idle", "deliver") /\ fault' = "none"
    BY <1>1, <1>3, LoopGoes DEF ReceiveForPeer
  <2>2. conn'["loop"] = table[i] /\ life[table[i]] = "alive"
    BY <1>3, TableFacts, SMTT(30) DEF ReceiveForPeer, IInv, TypeOK
  <2>3. HandlerInv'
    BY <1>1, <2>1, <2>2 DEF NoFailure, LoopAlive, ClosingIsOut, OwningSteps
  <2>4. SourceFound' /\ MapsAgree'
    BY <1>1, <2>1, <2>2 DEF SourceFound, MapsAgree
  <2>5. IteratorValid' /\ Emptied'
    BY <1>1, <2>1, <2>2 DEF IteratorValid, Emptied
  <2>6. Served'
    BY <1>1, <2>1, <2>2 DEF Served, NotYetAdded, AddingSteps, BeingTold
  <2>7. OnlyStopRaces' /\ HandsEmpty'
    BY <1>1, <2>1, <2>2 DEF OnlyStopRaces, HandsEmpty
  <2> QED
    BY <2>3, <2>4, <2>5, <2>6, <2>7
<1> QED
  BY <1>2, <1>3

\* A viewer that leaves is taken out of its source by what the loop does next.
LEMMA ByeKeeps ==
  ASSUME IInv, SourceInv, NEW i \in Ids, Bye(i)
  PROVE  SourceInv'
<1>1. CASE table[i] = Nil
  BY <1>1, AsideKeeps DEF Bye, Aside, Unsafe
<1>2. CASE table[i] # Nil
  <2> DEFINE p == table[i]
  <2>1. /\ life' = life /\ peerid' = peerid /\ peerCam' = peerCam
        /\ SourcesStill /\ ViewersStill /\ vsItr' = vsItr
        /\ fault' = "none"
    BY DEF Bye
  <2>2. LoopMoves("idle", "removeTracks")
    BY <1>2, LoopGoes DEF Bye
  <2>3. /\ conn'["loop"] = p /\ life[p] = "alive" /\ peerid[p] = i
        /\ table'[i] = Nil
        /\ \A j \in Ids : j # i => table'[j] = table[j]
    BY <1>2, TableFacts, SMTT(30) DEF Bye, IInv, TypeOK
  <2>4. HandlerInv'
    BY <2>1, <2>2, <2>3 DEF NoFailure, LoopAlive, ClosingIsOut, OwningSteps
  <2>5. SourceFound' /\ MapsAgree'
    BY <2>1, <2>2 DEF SourceFound, MapsAgree
  <2>6. IteratorValid' /\ Emptied'
    BY <2>2 DEF IteratorValid, Emptied
  <2>7. Served'
    BY <2>1, <2>2, <2>3 DEF Served, NotYetAdded, AddingSteps, BeingTold
  <2>8. OnlyStopRaces' /\ HandsEmpty'
    BY <2>1, <2>2 DEF OnlyStopRaces, HandsEmpty
  <2> QED
    BY <2>4, <2>5, <2>6, <2>7, <2>8
<1> QED
  BY <1>1, <1>2

(***************************************************************************)
(* Every step keeps the invariant when no offer fails.                     *)
(***************************************************************************)
LEMMA NextKeeps ==
  ASSUME ~OfferMayFail, IInv, FreshSource, SourceInv, [Next]_vars
  PROVE  SourceInv'
<1>1. CASE BrowserMessage
  BY <1>1, OfferNewKeeps, OfferAgainKeeps, ReceiveForPeerKeeps, ByeKeeps, Zenon
  DEF BrowserMessage, RecvSdpOrCandidate, OnPeerCommand
<1>2. CASE OfferAnswered
  <2>1. \E p \in Handles : OnSuccess(p)
    BY <1>2 DEF OfferAnswered, OnFailure
  <2> QED
    BY <2>1, OnSuccessKeeps
<1>3. CASE CameraDelete
  BY <1>3, StopCameraKeeps, Zenon DEF CameraDelete
<1>4. CASE LoopContinues
  <2>1. CASE Add
    BY <2>1, GetPeerKeeps, AddTracksKeeps, CreateTrackKeeps, SetEnabledKeeps,
       AddTrackKeeps, AddRefKeeps, CreateOfferKeeps, Zenon DEF Add
  <2>2. CASE Remove("loop")
    BY <2>2, RemoveTracksKeeps, FindSourceKeeps, ReleaseSourceKeeps,
       LockForEraseKeeps, EraseTrackKeeps, EraseSourceKeeps, Zenon DEF Remove
  <2>3. CASE Deliver \/ Delete \/ Crash("loop")
    BY <2>3, DeliverKeeps, DeleteKeeps, CrashKeeps
  <2> QED
    BY <1>4, <2>1, <2>2, <2>3, Zenon DEF LoopContinues
<1>5. CASE SigContinues
  <2>1. pc["sig"] = "idle"
    BY DEF NoFailure
  <2>2. ~Drop /\ ~Remove("sig")
    BY <2>1 DEF Drop, Remove, RemoveTracks, FindSource, ReleaseSource, LockForErase,
        EraseTrack, EraseSource
  <2> QED
    BY <1>5, <2>2, CrashKeeps DEF SigContinues
<1>6. CASE \E w \in Workers : WorkerContinues(w)
  BY <1>6, ResetKeeps, TellKeeps, CrashKeeps, Zenon DEF WorkerContinues, Threads
<1>7. CASE UNCHANGED vars
  BY <1>7, AsideKeeps DEF vars, Aside, Unsafe, OnlyStopRaces
<1> QED
  BY <1>1, <1>2, <1>3, <1>4, <1>5, <1>6, <1>7, Zenon DEF Next

\* When no offer fails, the sources are kept as SourceInv says, for any browsers,
\* cameras, worker loops and number of offers.
THEOREM SourceInvHolds == ~OfferMayFail => (Spec => []SourceInv)
<1> SUFFICES ASSUME ~OfferMayFail PROVE Spec => []SourceInv
  OBVIOUS
<1>1. IInv /\ KeptInv /\ SourceInv /\ [Next]_vars => SourceInv'
  BY NextKeeps DEF KeptInv
<1> QED
  BY <1>1, InitSourceInv, IInvHolds, KeptInvHolds, PTL DEF Spec

\* When no offer fails, nothing but stop() on a worker loop uses a map of the
\* capturer after an entry of it is gone; no iterator is stale, and no deleted Peer
\* is used.
THEOREM OnlyStopUnsafe == ~OfferMayFail => (Spec => []OnlyStopRaces)
<1> SUFFICES ASSUME ~OfferMayFail PROVE Spec => []OnlyStopRaces
  OBVIOUS
<1>1. SourceInv => OnlyStopRaces
  OBVIOUS
<1> QED
  BY <1>1, SourceInvHolds, PTL

\* When no offer fails, a viewer in session has the source of its camera and is
\* registered with it, or was told that the camera is closed, however many cameras are
\* deleted on however many worker loops.
THEOREM NobodyCutOff == ~OfferMayFail => (Spec => []NoSilentCutOff)
<1> SUFFICES ASSUME ~OfferMayFail PROVE Spec => []NoSilentCutOff
  OBVIOUS
<1>1. SourceInv => NoSilentCutOff
  <2> SUFFICES ASSUME SourceInv PROVE NoSilentCutOff
    OBVIOUS
  <2>1. \A q : NotYetAdded(q) => BeingAdded(q)
    BY DEF NotYetAdded, AddingSteps, BeingAdded
  <2> QED
    BY <2>1 DEF Served, NoSilentCutOff
<1> QED
  BY <1>1, SourceInvHolds, PTL

\* When no offer fails, the loop never waits: nobody else takes mutexCap, and no
\* callback is running when it calls WebRTC.  With HandlersEnd this is LoopReturns, but
\* for the scheduler that has to run the thread.
LoopGoesOn == Busy("loop") => CanGo("loop")
THEOREM LoopNeverWaits == ~OfferMayFail => (Spec => []LoopGoesOn)
<1> SUFFICES ASSUME ~OfferMayFail PROVE Spec => []LoopGoesOn
  OBVIOUS
<1>1. SourceInv /\ MutexHeld => LoopGoesOn
  BY DEF NoFailure, LoopGoesOn, CanGo, CanCall, MutexHeld, LockedSteps
<1> QED
  BY <1>1, SourceInvHolds, MutexIsHeld, PTL

(***************************************************************************)
(* The refinement.                                                         *)
(***************************************************************************)
LEMMA SourceSteps ==
  ASSUME IInv, SourceInv, [Next]_vars
  PROVE  \/ mapVideoSource' = mapVideoSource /\ setPeerid' = setPeerid
         \/ AddTracks \/ AddRef \/ ReleaseSource("loop") \/ EraseSource("loop")
         \/ \E w \in Workers : Reset(w)
<1>1. CASE BrowserMessage
  BY <1>1 DEF BrowserMessage, RecvSdpOrCandidate, OnPeerCommand, OfferNew, OfferAgain,
      ReceiveForPeer, Bye
<1>2. CASE OfferAnswered \/ CameraDelete
  BY <1>2 DEF OfferAnswered, OnSuccess, OnFailure, CameraDelete, StopCamera
<1>3. CASE LoopContinues
  BY <1>3 DEF LoopContinues, Add, GetPeer, CreateTrack, SetEnabled, AddTrack, CreateOffer,
      Deliver, Delete, Crash, Remove, RemoveTracks, FindSource, LockForErase, EraseTrack
<1>4. CASE SigContinues
  <2>1. ~Remove("sig")
    BY DEF NoFailure, Remove, RemoveTracks, FindSource, ReleaseSource, LockForErase,
        EraseTrack, EraseSource
  <2> QED
    BY <1>4, <2>1 DEF SigContinues, Drop, Crash
<1>5. CASE \E w \in Workers : WorkerContinues(w)
  BY <1>5 DEF WorkerContinues, Tell, Crash
<1>6. CASE UNCHANGED vars
  BY <1>6 DEF vars
<1> QED
  BY <1>1, <1>2, <1>3, <1>4, <1>5, <1>6, Zenon DEF Next

LEMMA SourcesShared ==
  ASSUME IInv, FreshSource, OneCamera, SourceInv, [Next]_vars
  PROVE  [Shared!Next]_(Shared!shared)
<1> DEFINE capturing == [c \in Cams |-> mapVideoSource[c] # Nil]
           viewers   == [c \in Cams |-> IF mapVideoSource[c] = Nil THEN {}
                                        ELSE setPeerid[mapVideoSource[c]]]
           here      == Cam("loop")
<1>1. CASE mapVideoSource' = mapVideoSource /\ setPeerid' = setPeerid
  BY <1>1 DEF Shared!shared
<1>2. CASE AddTracks
  <2>1. /\ setPeerid' = setPeerid /\ pc["loop"] = "addTracks"
        /\ \/ mapVideoSource' = mapVideoSource
           \/ /\ mapVideoSource' = [mapVideoSource EXCEPT ![here] = offers]
              /\ mapVideoSource[here] = Nil
    BY <1>2 DEF AddTracks
  <2>2. here \in Cams
    BY <2>1, LoopPeerFacts
  <2>3. offers # Nil /\ setPeerid[offers] = {}
    BY <2>1, <2>2, BoundAssumption DEF FreshSource, Entering, IInv, TypeOK
  <2>4. CASE mapVideoSource' # mapVideoSource
    <3>1. /\ mapVideoSource' = [mapVideoSource EXCEPT ![here] = offers]
          /\ mapVideoSource[here] = Nil
      BY <2>1, <2>4
    <3>2. ~capturing[here] /\ capturing' = [capturing EXCEPT ![here] = TRUE]
      BY <2>2, <2>3, <3>1 DEF IInv, TypeOK
    <3>3. viewers' = viewers
      BY <2>1, <2>2, <2>3, <3>1 DEF IInv, TypeOK
    <3> QED
      BY <2>2, <3>2, <3>3 DEF Shared!Next, Shared!Start
  <2> QED
    BY <1>1, <2>1, <2>4
<1>3. CASE AddRef
  <2> DEFINE s == mapVideoSource[here]
             i == peerid[conn["loop"]]
  <2>1. mapVideoSource' = mapVideoSource /\ pc["loop"] = "addRef"
    BY <1>3 DEF AddRef
  <2>2. here \in Cams /\ i \in Ids
    BY <2>1, LoopPeerFacts
  <2>3. s \in Handles /\ mapVideoSource[here] # Nil
    BY <2>1, <2>2 DEF SourceFound, IInv, TypeOK
  <2>4. setPeerid' = [setPeerid EXCEPT ![s] = @ \union {i}]
    BY <1>3 DEF AddRef
  <2>5. capturing[here] /\ capturing' = capturing
    BY <2>1, <2>2, <2>3
  <2>6. viewers' = [viewers EXCEPT ![here] = @ \union {i}]
    <3>1. setPeerid'[s] = setPeerid[s] \union {i}
      BY <2>3, <2>4 DEF IInv, TypeOK
    <3>2. ASSUME NEW d \in Cams, d # here, mapVideoSource[d] # Nil
          PROVE  setPeerid'[mapVideoSource[d]] = setPeerid[mapVideoSource[d]]
      <4>1. mapVideoSource[d] \in Handles /\ mapVideoSource[d] # s
        BY <2>2, <3>2 DEF OneCamera, IInv, TypeOK
      <4> QED
        BY <2>4, <4>1 DEF IInv, TypeOK
    <3> QED
      BY <2>1, <2>2, <2>3, <3>1, <3>2, Zenon
  <2> QED
    BY <2>2, <2>5, <2>6 DEF Shared!Next, Shared!Join
<1>4. CASE ReleaseSource("loop")
  <2> DEFINE s == mapVideoSource[here]
             i == peerid[conn["loop"]]
  <2>1. mapVideoSource' = mapVideoSource /\ pc["loop"] = "release"
    BY <1>4 DEF ReleaseSource
  <2>2. here \in Cams /\ i \in Ids
    BY <2>1, LoopPeerFacts
  <2>3. s \in Handles
    BY <2>1, <2>2 DEF IteratorValid, IInv, TypeOK
  <2>4. setPeerid' = [setPeerid EXCEPT ![s] = @ \ {i}]
    BY <1>4 DEF ReleaseSource
  <2>5. capturing' = capturing
    BY <2>1
  <2>6. viewers' = [viewers EXCEPT ![here] = @ \ {i}]
    <3>1. setPeerid'[s] = setPeerid[s] \ {i}
      BY <2>3, <2>4 DEF IInv, TypeOK
    <3>2. ASSUME NEW d \in Cams, d # here, mapVideoSource[d] # Nil
          PROVE  setPeerid'[mapVideoSource[d]] = setPeerid[mapVideoSource[d]]
      <4>1. mapVideoSource[d] \in Handles /\ mapVideoSource[d] # s
        BY <2>2, <3>2 DEF OneCamera, IInv, TypeOK
      <4> QED
        BY <2>4, <4>1 DEF IInv, TypeOK
    <3> QED
      BY <2>1, <2>2, <2>3, <3>1, <3>2, Zenon
  <2> QED
    BY <2>2, <2>5, <2>6 DEF Shared!Next, Shared!Leave
<1>5. CASE EraseSource("loop")
  <2>1. /\ mapVideoSource' = [mapVideoSource EXCEPT ![here] = Nil]
        /\ setPeerid' = setPeerid
        /\ pc["loop"] = "eraseSource"
    BY <1>5 DEF EraseSource
  <2>2. here \in Cams
    BY <2>1, LoopPeerFacts
  <2>3. mapVideoSource[here] # Nil /\ setPeerid[mapVideoSource[here]] = {}
    BY <2>1 DEF IteratorValid, Emptied
  <2>4. capturing[here] /\ capturing' = [capturing EXCEPT ![here] = FALSE]
    BY <2>1, <2>2, <2>3 DEF IInv, TypeOK
  <2>5. viewers[here] = {} /\ viewers' = viewers
    <3>1. /\ mapVideoSource'[here] = Nil
          /\ \A d \in Cams : d # here => mapVideoSource'[d] = mapVideoSource[d]
      BY <2>1, <2>2 DEF IInv, TypeOK
    <3>2. viewers[here] = {}
      BY <2>2, <2>3
    <3>3. viewers' = viewers
      <4> SUFFICES ASSUME NEW d \in Cams
                   PROVE  (IF mapVideoSource[d] = Nil THEN {}
                             ELSE setPeerid[mapVideoSource[d]])'
                          = IF mapVideoSource[d] = Nil THEN {}
                              ELSE setPeerid[mapVideoSource[d]]
        BY Zenon
      <4>1. /\ d = here => mapVideoSource'[d] = Nil /\ mapVideoSource[d] # Nil
                             /\ setPeerid[mapVideoSource[d]] = {}
            /\ d # here => mapVideoSource'[d] = mapVideoSource[d]
        BY <2>3, <3>1
      <4>2. setPeerid' = setPeerid
        BY <2>1
      <4>3. CASE d = here
        BY <4>1, <4>3
      <4>4. CASE d # here
        BY <4>1, <4>2, <4>4
      <4> QED
        BY <4>3, <4>4
    <3> QED
      BY <3>2, <3>3
  <2> QED
    BY <2>2, <2>4, <2>5 DEF Shared!Next, Shared!Stop
<1>6. ASSUME NEW w \in Workers, Reset(w)
      PROVE  [Shared!Next]_(Shared!shared)
  <2> DEFINE c == stopCam[w]
             s == mapVideoSource[c]
  <2>1. /\ mapVideoSource' = mapVideoSource
        /\ setPeerid' = [setPeerid EXCEPT ![s] = {}]
        /\ pc[w] = "reset" /\ s # Nil
    BY <1>6 DEF Reset
  <2>2. c \in Cams /\ s \in Handles
    BY <2>1 DEF IInv, TypeOK, StopsCamera
  <2>3. capturing' = capturing
    BY <2>1
  <2>4. viewers' = [viewers EXCEPT ![c] = {}]
    <3>1. setPeerid'[s] = {}
      BY <2>1, <2>2 DEF IInv, TypeOK
    <3>2. ASSUME NEW d \in Cams, d # c, mapVideoSource[d] # Nil
          PROVE  setPeerid'[mapVideoSource[d]] = setPeerid[mapVideoSource[d]]
      <4>1. mapVideoSource[d] \in Handles /\ mapVideoSource[d] # s
        BY <2>2, <3>2 DEF OneCamera, IInv, TypeOK
      <4> QED
        BY <2>1, <4>1 DEF IInv, TypeOK
    <3> QED
      BY <2>1, <2>2, <3>1, <3>2, Zenon
  <2> QED
    BY <2>2, <2>3, <2>4 DEF Shared!Next, Shared!Close
<1> QED
  BY <1>1, <1>2, <1>3, <1>4, <1>5, <1>6, SourceSteps

\* When no offer fails, the capturer implements SharedCamera: a camera is captured once
\* for all of its viewers and never stops under one.
THEOREM CapturerShares == ~OfferMayFail => (Spec => CapturesShared)
<1> SUFFICES ASSUME ~OfferMayFail PROVE Spec => CapturesShared
  OBVIOUS
<1>1. Init => Shared!Init
  BY DEF Init, Shared!Init
<1>2. IInv /\ KeptInv /\ SourceInv /\ [Next]_vars => [Shared!Next]_(Shared!shared)
  BY SourcesShared DEF KeptInv
<1> QED
  BY <1>1, <1>2, IInvHolds, KeptInvHolds, SourceInvHolds, PTL DEF Spec, CapturesShared, Shared!Spec
=============================================================================
