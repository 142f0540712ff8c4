------------------------- MODULE SettingsStoreProofs -------------------------
(***************************************************************************)
(* For any set of cameras and any number of worker loops: the types, who   *)
(* holds the lock, and what the file has of the memory.                    *)
(***************************************************************************)
EXTENDS SettingsStore, TLAPS

\* Who is where holds what, and an exception leaves a lock nobody can break.
LockHeld ==
  /\ \A t \in Threads : pc[t] = "change" => writer = t
  /\ \A t \in Threads : t \in readers <=> pc[t] = "readList"
  /\ writer # Nobody => readers = {} /\ left # "read"
  /\ writer # Nobody /\ left = "none" => pc[writer] = "change"
  /\ left \in {"put", "delete"} => writer # Nobody /\ pc[writer] # "change"

\* A thread whose read ran beside a change is copying, or was.
TornHeld == \A t \in torn : pc[t] \in {"readTree", "idle"}

\* Before it deletes, a thread has no viewers to close.
RemovedHeld ==
  \A t \in Threads :
    pc[t] \in {"getState", "wrlock", "change", "rdlock", "readList", "readTree"}
      => removed[t] = {}

\* An undisturbed save has the file to itself and carries what is in memory.
LoneSave ==
  ~disturbed => \A t \in Savers :
    /\ Savers = {t}
    /\ dump[t] = rtsp
    /\ pc[t] = "write" => file = Unparsed("empty")

USE DEF lockVars, Goto, Fail

(***************************************************************************)
(* Types.                                                                  *)
(***************************************************************************)
LEMMA NoCamerasTable == NoCameras \in Tables
  BY DEF NoCameras, Tables, Fields

LEMMA TablesAreFunctions ==
  \A node \in Tables : /\ DOMAIN node \in SUBSET Cameras
                       /\ node \in [DOMAIN node -> Fields]
  BY DEF Tables

LEMMA WithTable ==
  ASSUME NEW node \in Tables, NEW body \in Tables
  PROVE  With(node, body) \in Tables
<1> DEFINE cams == DOMAIN node \union DOMAIN body
<1>1. cams \in SUBSET Cameras
  BY TablesAreFunctions
<1>2. With(node, body) \in [cams -> Fields]
  BY TablesAreFunctions DEF With
<1> QED
  BY <1>1, <1>2 DEF Tables

LEMMA WithoutNode ==
  ASSUME NEW node \in Nodes, NEW cams
  PROVE  Without(node, cams) \in Nodes
<1>1. CASE node = NotAnObject
  BY <1>1 DEF Without, Nodes
<1>2. CASE node # NotAnObject
  <2>1. node \in Tables
    BY <1>2 DEF Nodes
  <2>2. DOMAIN node \ cams \in SUBSET Cameras
    BY <2>1, TablesAreFunctions
  <2>3. Without(node, cams) \in [DOMAIN node \ cams -> Fields]
    BY <1>2, <2>1, TablesAreFunctions DEF Without
  <2> QED
    BY <2>2, <2>3 DEF Nodes, Tables
<1> QED
  BY <1>1, <1>2

LEMMA NamedCameras ==
  ASSUME NEW node \in Nodes PROVE Named(node) \in SUBSET Cameras
  BY TablesAreFunctions DEF Named, Nodes

LEMMA RequestBodies ==
  \A r \in Requests : /\ r.op = "post" => r.body \in Nodes
                      /\ r.op = "put" => r.body \in Tables
                      /\ r.op = "delete" => r.body \in SUBSET Cameras
<1> SUFFICES ASSUME NEW r \in Requests
             PROVE  /\ r.op = "post" => r.body \in Nodes
                    /\ r.op = "put" => r.body \in Tables
                    /\ r.op = "delete" => r.body \in SUBSET Cameras
  OBVIOUS
<1>1. CASE r \in [op : {"post"}, body : Nodes]
  BY <1>1
<1>2. CASE r \in [op : {"put"}, body : Tables]
  BY <1>2
<1>3. CASE r \in [op : {"delete"}, body : SUBSET Cameras, typed : BOOLEAN]
  BY <1>3
<1>4. CASE r \in [op : {"list", "tree", "none"}]
  BY <1>4
<1> QED
  BY <1>1, <1>2, <1>3, <1>4 DEF Requests

LEMMA FileKinds ==
  /\ \A node \in Nodes : Dump(node) \in Files
  /\ \A text \in Unreadable : Unparsed(text) \in Files
  /\ \A f \in Files : Loaded(f) \in Nodes
<1>1. /\ \A node \in Nodes : Dump(node) \in Files
      /\ \A text \in Unreadable : Unparsed(text) \in Files
  BY DEF Dump, Unparsed, Files
<1>2. ASSUME NEW f \in Files PROVE Loaded(f) \in Nodes
  <2>1. CASE f \in [text : Unreadable]
    BY <2>1, NoCamerasTable DEF Loaded, Readable, Nodes
  <2>2. CASE f \in [dump : Nodes]
    BY <2>2, NoCamerasTable DEF Loaded, Nodes
  <2> QED
    BY <2>1, <2>2 DEF Files
<1> QED
  BY <1>1, <1>2

LEMMA InitType == Init => TypeOK
<1> SUFFICES ASSUME Init PROVE TypeOK
  OBVIOUS
<1>1. rtsp \in Nodes /\ file \in Files /\ dump \in [Threads -> Nodes]
  BY NoCamerasTable, FileKinds DEF Init, Nodes, EveryThread, Unreadable
<1>2. req \in [Threads -> Requests]
  BY DEF Init, EveryThread, Requests, NoRequest
<1>3. disturbed \in BOOLEAN
  BY Zenon DEF Init
<1> QED
  BY <1>1, <1>2, <1>3 DEF Init, TypeOK, EveryThread, Steps

LEMMA TypeStep == TypeOK /\ [Next]_vars => TypeOK'
<1> SUFFICES ASSUME TypeOK, [Next]_vars PROVE TypeOK'
  OBVIOUS
<1> USE DEF TypeOK
<1>0. NoRequest \in Requests /\ NoCameras \in Nodes
  BY NoCamerasTable DEF NoRequest, Requests, Nodes
<1>1. ASSUME NEW t \in Threads, Requested(t) PROVE TypeOK'
  <2>1. ASSUME NEW step \in Steps, NEW request \in Requests, Begin(t, step, request)
        PROVE  TypeOK'
    BY <2>1 DEF Begin
  <2>2. ASSUME NEW node \in Nodes, Post(t, node) PROVE TypeOK'
    BY <2>1, <2>2 DEF Post, Steps, Requests
  <2>3. ASSUME NEW body \in Tables, Put(t, body) PROVE TypeOK'
    BY <2>1, <2>3 DEF Put, Steps, Requests
  <2>4. ASSUME NEW cams \in SUBSET Cameras, NEW typed \in BOOLEAN, Delete(t, cams, typed)
        PROVE  TypeOK'
    <3>1. [op |-> "delete", body |-> cams, typed |-> typed] \in Requests
      BY Zenon DEF Requests
    <3> QED
      BY <2>1, <2>4, <3>1 DEF Delete, Steps
  <2>5. CASE GetList(t) \/ GetTree(t)
    BY <2>1, <2>5 DEF GetList, GetTree, Steps, Requests
  <2> QED
    BY <1>1, <2>2, <2>3, <2>4, <2>5 DEF Requested
<1>2. ASSUME NEW t \in Threads, GetNodeState(t) \/ WrLock(t) PROVE TypeOK'
  BY <1>0, <1>2 DEF GetNodeState, WrLock, Steps
<1>3. ASSUME NEW t \in Threads, NEW node \in Nodes, ChangeTo(t, node)
      PROVE  rtsp' \in Nodes /\ torn' \in SUBSET Threads /\ disturbed' \in BOOLEAN
  <2>1. rtsp' \in Nodes /\ torn' \in SUBSET Threads
    BY <1>3 DEF ChangeTo, Readers
  <2>2. disturbed' \in BOOLEAN
    BY <1>3, Zenon DEF ChangeTo
  <2> QED
    BY <2>1, <2>2
<1>4. ASSUME NEW t \in Threads, NEW node \in Nodes, NEW ret \in {"success", "failure"},
             DumpAndUnlock(t, node, ret)
      PROVE  /\ writer' \in Threads \union {Nobody}
             /\ dump' \in [Threads -> Nodes]
             /\ req' \in [Threads -> Requests]
             /\ pc' \in [Threads -> Steps]
             /\ answer' \in [Threads -> {"none", "success", "failure"}]
             /\ left' = left
  BY <1>0, <1>4 DEF DumpAndUnlock, Steps
<1>5. ASSUME NEW t \in Threads, NEW call \in {"put", "delete"}, Throw(t, call)
      PROVE  /\ req' \in [Threads -> Requests]
             /\ pc' \in [Threads -> Steps]
             /\ answer' \in [Threads -> {"none", "success", "failure"}]
             /\ left' = call
             /\ UNCHANGED <<dump, writer>>
  BY <1>0, <1>5 DEF Throw, Steps
<1>6. ASSUME NEW t \in Threads, PostNode(t) PROVE TypeOK'
  <2>1. req[t].body \in Nodes
    BY <1>6, RequestBodies DEF PostNode
  <2> QED
    BY <1>3, <1>4, <1>6, <2>1 DEF PostNode
<1>7. ASSUME NEW t \in Threads, PutNode(t) PROVE TypeOK'
  <2>1. req[t].body \in Tables
    BY <1>7, RequestBodies DEF PutNode
  <2>2. CASE rtsp = NotAnObject
    BY <1>5, <1>7, <2>2 DEF PutNode
  <2>3. CASE rtsp # NotAnObject
    <3>1. With(rtsp, req[t].body) \in Nodes
      BY <2>1, <2>3, WithTable DEF Nodes
    <3> QED
      BY <1>3, <1>4, <1>7, <2>3, <3>1 DEF PutNode
  <2> QED
    BY <2>2, <2>3
<1>8. ASSUME NEW t \in Threads, DeleteNode(t) PROVE TypeOK'
  <2>1. ASSUME NEW cams, Erase(t, cams)
        PROVE  /\ rtsp' \in Nodes /\ torn' \in SUBSET Threads
               /\ removed' \in [Threads -> SUBSET Cameras]
    <3>1. Without(rtsp, cams) \in Nodes /\ cams \intersect Named(rtsp) \in SUBSET Cameras
      BY WithoutNode, NamedCameras
    <3> QED
      BY <2>1, <3>1 DEF Erase, Readers
  <2>2. disturbed' \in BOOLEAN
    BY <1>8, Zenon DEF DeleteNode
  <2>3. CASE req[t].typed
    BY <1>4, <1>8, <2>1, <2>2, <2>3 DEF DeleteNode
  <2>4. CASE ~req[t].typed
    BY <1>5, <1>8, <2>1, <2>2, <2>4 DEF DeleteNode
  <2> QED
    BY <2>3, <2>4
<1>9. ASSUME NEW t \in Threads, Save(t) PROVE TypeOK'
  <2>1. Unparsed("empty") \in Files /\ Unparsed("mixed") \in Files
    BY FileKinds DEF Unreadable
  <2>2. Overlay(file, dump[t]) \subseteq Files
    BY FileKinds DEF Overlay, Unreadable
  <2>3. CASE Open(t)
    BY <1>0, <2>1, <2>3, SMTT(30) DEF Open, Steps
  <2>4. CASE OpenFails(t)
    <3>1. disturbed' \in BOOLEAN
      BY <2>4, Zenon DEF OpenFails
    <3>2. /\ pc' = [pc EXCEPT ![t] = "idle"]
          /\ answer' = [answer EXCEPT ![t] = "failure"]
          /\ UNCHANGED <<rtsp, writer, readers, left, file, req, dump, removed, torn>>
      BY <2>4 DEF OpenFails, Fail
    <3> QED
      BY <3>1, <3>2, SMTT(30) DEF Steps
  <2>5. CASE Write(t)
    BY <1>0, <2>2, <2>5, SMTT(30) DEF Write, AfterSave, Steps
  <2>6. CASE WriteFails(t)
    BY <1>0, <2>1, <2>6, SMTT(30) DEF WriteFails, AfterSave, Steps
  <2> QED
    BY <1>9, <2>3, <2>4, <2>5, <2>6, Zenon DEF Save
<1>10. ASSUME NEW t \in Threads, CloseViewers(t) PROVE TypeOK'
  BY <1>10 DEF CloseViewers, Steps
<1>11. ASSUME NEW t \in Threads, Read(t) PROVE TypeOK'
  BY <1>0, <1>11 DEF Read, ListLock, ListUnlock, TreeReference, TreeCopy, Steps
<1>12. CASE Restart
  <2>1. rtsp' \in Nodes
    BY <1>12, FileKinds DEF Restart
  <2>2. disturbed' \in BOOLEAN
    BY <1>12, Zenon DEF Restart
  <2> QED
    BY <1>0, <1>12, <2>1, <2>2 DEF Restart, EveryThread, Steps
<1>13. CASE UNCHANGED vars
  BY <1>13 DEF vars
<1> QED
  BY <1>1, <1>2, <1>6, <1>7, <1>8, <1>9, <1>10, <1>11, <1>12, <1>13
  DEF Next, Handle, Change

(***************************************************************************)
(* The lock and the handlers.                                              *)
(***************************************************************************)
HandlerInv == LockHeld /\ TornHeld /\ RemovedHeld /\ LoneSave /\ FileIsCurrent

IInv == TypeOK /\ HandlerInv /\ LeftForWhatIsStored /\ UnclosedIsReported

LEMMA InitIInv == Init => IInv
<1> SUFFICES ASSUME Init PROVE IInv
  OBVIOUS
<1>1. HandlerInv
  BY DEF Init, HandlerInv, LockHeld, TornHeld, RemovedHeld, LoneSave, FileIsCurrent,
         EveryThread
<1>2. LeftForWhatIsStored /\ UnclosedIsReported
  BY DEF Init, LeftForWhatIsStored, UnclosedIsReported, EveryThread
<1> QED
  BY <1>1, <1>2, InitType DEF IInv

\* Only a thread that holds the lock for writing is about to change the cameras,
\* and only a thread without a request is left with one.
LEMMA AtChange ==
  ASSUME TypeOK, LockHeld, NEW t \in Threads, pc[t] = "change"
  PROVE  /\ writer = t /\ readers = {} /\ left = "none"
         /\ \A u \in Threads : pc[u] # "readList" /\ (pc[u] = "change" => u = t)
  BY NobodyAssumption DEF TypeOK, LockHeld

LEMMA LockStep == TypeOK /\ LockHeld /\ [Next]_vars => LockHeld'
<1> SUFFICES ASSUME TypeOK, LockHeld, [Next]_vars PROVE LockHeld'
  OBVIOUS
<1> USE DEF TypeOK, LockHeld
<1>1. ASSUME NEW t \in Threads, Requested(t) PROVE LockHeld'
  BY <1>1 DEF Requested, Post, Put, Delete, GetList, GetTree, Begin
<1>2. ASSUME NEW t \in Threads, GetNodeState(t) PROVE LockHeld'
  BY <1>2, NobodyAssumption DEF GetNodeState, CanRead
<1>3. ASSUME NEW t \in Threads, WrLock(t) PROVE LockHeld'
  BY <1>3, NobodyAssumption DEF WrLock, CanWrite
<1>4. ASSUME NEW t \in Threads, Change(t) PROVE LockHeld'
  <2>1. pc[t] = "change" /\ readers' = readers
    BY <1>4 DEF Change, PostNode, PutNode, DeleteNode
  <2>2. \/ writer' = Nobody /\ left' = left /\ pc' = [pc EXCEPT ![t] = "open"]
        \/ /\ writer' = writer /\ left' \in {"put", "delete"}
           /\ pc' = [pc EXCEPT ![t] = "idle"]
    BY <1>4 DEF Change, PostNode, PutNode, DeleteNode, DumpAndUnlock, Throw
  <2> QED
    BY <2>1, <2>2, AtChange, NobodyAssumption
<1>5. ASSUME NEW t \in Threads, Save(t) \/ CloseViewers(t) PROVE LockHeld'
  BY <1>5 DEF Save, Open, OpenFails, Write, WriteFails, AfterSave, CloseViewers
<1>6. ASSUME NEW t \in Threads, Read(t) PROVE LockHeld'
  BY <1>6, NobodyAssumption
  DEF Read, ListLock, ListUnlock, TreeReference, TreeCopy, CanRead
<1>7. CASE Restart
  BY <1>7, NobodyAssumption DEF Restart, EveryThread
<1>8. CASE UNCHANGED vars
  BY <1>8 DEF vars
<1> QED
  BY <1>1, <1>2, <1>3, <1>4, <1>5, <1>6, <1>7, <1>8 DEF Next, Handle

LEMMA TornStep == TypeOK /\ LockHeld /\ TornHeld /\ [Next]_vars => TornHeld'
<1> SUFFICES ASSUME TypeOK, LockHeld, TornHeld, [Next]_vars PROVE TornHeld'
  OBVIOUS
<1> USE DEF TypeOK, TornHeld
<1>1. ASSUME NEW t \in Threads, Requested(t) PROVE TornHeld'
  BY <1>1 DEF Requested, Post, Put, Delete, GetList, GetTree, Begin
<1>2. ASSUME NEW t \in Threads, Change(t) PROVE TornHeld'
  <2>1. /\ pc[t] = "change"
        /\ torn' \subseteq torn \union Readers(t)
        /\ \A u \in Threads \ {t} : pc'[u] = pc[u]
    BY <1>2 DEF Change, PostNode, PutNode, DeleteNode, ChangeTo, DumpAndUnlock, Throw,
                Erase
  <2>2. \A u \in Readers(t) : u \in Threads \ {t} /\ pc[u] = "readTree"
    BY <2>1, AtChange DEF Readers
  <2>3. \A u \in torn : u \in Threads \ {t} /\ pc[u] \in {"readTree", "idle"}
    BY <2>1
  <2> QED
    BY <2>1, <2>2, <2>3
<1>3. ASSUME NEW t \in Threads, Handle(t), ~Change(t) PROVE TornHeld'
  BY <1>3 DEF Handle, GetNodeState, WrLock, Save, Open, OpenFails, Write,
              WriteFails, AfterSave, CloseViewers,
              Read, ListLock, ListUnlock, TreeReference, TreeCopy
<1>4. CASE Restart
  BY <1>4 DEF Restart
<1>5. CASE UNCHANGED vars
  BY <1>5 DEF vars
<1> QED
  BY <1>1, <1>2, <1>3, <1>4, <1>5 DEF Next

LEMMA RemovedStep ==
  TypeOK /\ RemovedHeld /\ UnclosedIsReported /\ [Next]_vars
    => RemovedHeld' /\ UnclosedIsReported'
<1> SUFFICES ASSUME TypeOK, RemovedHeld, UnclosedIsReported, [Next]_vars
             PROVE  RemovedHeld' /\ UnclosedIsReported'
  OBVIOUS
<1> USE DEF TypeOK, RemovedHeld, UnclosedIsReported
<1>1. ASSUME NEW t \in Threads, Requested(t) PROVE RemovedHeld' /\ UnclosedIsReported'
  BY <1>1 DEF Requested, Post, Put, Delete, GetList, GetTree, Begin
<1>2. ASSUME NEW t \in Threads, GetNodeState(t) \/ WrLock(t)
      PROVE  RemovedHeld' /\ UnclosedIsReported'
  BY <1>2 DEF GetNodeState, WrLock
<1>3. ASSUME NEW t \in Threads, Change(t) PROVE RemovedHeld' /\ UnclosedIsReported'
  BY <1>3 DEF Change, PostNode, PutNode, DeleteNode, ChangeTo, DumpAndUnlock, Throw, Erase
<1>4. ASSUME NEW t \in Threads, Save(t) PROVE RemovedHeld' /\ UnclosedIsReported'
  BY <1>4 DEF Save, Open, OpenFails, Write, WriteFails, AfterSave
<1>5. ASSUME NEW t \in Threads, CloseViewers(t) PROVE RemovedHeld' /\ UnclosedIsReported'
  BY <1>5 DEF CloseViewers
<1>6. ASSUME NEW t \in Threads, Read(t) PROVE RemovedHeld' /\ UnclosedIsReported'
  BY <1>6 DEF Read, ListLock, ListUnlock, TreeReference, TreeCopy
<1>7. CASE Restart
  BY <1>7 DEF Restart, EveryThread
<1>8. CASE UNCHANGED vars
  BY <1>8 DEF vars
<1> QED
  BY <1>1, <1>2, <1>3, <1>4, <1>5, <1>6, <1>7, <1>8 DEF Next, Handle

(***************************************************************************)
(* The file.  What leaves the savers, what is to be saved and disturbed as *)
(* they were keeps the invariant.                                          *)
(***************************************************************************)
SavingKept ==
  /\ UNCHANGED <<rtsp, file, dump, disturbed>>
  /\ \A u \in Threads : pc[u] \in {"open", "write"} \/ pc'[u] \in {"open", "write"}
                          => pc'[u] = pc[u]

LEMMA SavingKeptStep ==
  ASSUME LoneSave, FileIsCurrent, SavingKept PROVE LoneSave' /\ FileIsCurrent'
<1>1. Savers' = Savers
  BY DEF SavingKept, Savers
<1>2. \A t \in Savers : t \in Threads /\ pc'[t] = pc[t]
  BY DEF SavingKept, Savers
<1> QED
  BY <1>1, <1>2 DEF SavingKept, LoneSave, FileIsCurrent

LEMMA FileStep ==
  TypeOK /\ LockHeld /\ LoneSave /\ FileIsCurrent /\ [Next]_vars
    => LoneSave' /\ FileIsCurrent'
<1> SUFFICES ASSUME TypeOK, LockHeld, LoneSave, FileIsCurrent, [Next]_vars
             PROVE  LoneSave' /\ FileIsCurrent'
  OBVIOUS
<1>1. ASSUME NEW t \in Threads, Requested(t) PROVE SavingKept
  BY <1>1 DEF Requested, Post, Put, Delete, GetList, GetTree, Begin, SavingKept, TypeOK
<1>2. ASSUME NEW t \in Threads,
             GetNodeState(t) \/ WrLock(t) \/ CloseViewers(t) \/ Read(t)
      PROVE  SavingKept
  BY <1>2 DEF GetNodeState, WrLock, CloseViewers, Read, ListLock, ListUnlock,
              TreeReference, TreeCopy, SavingKept, TypeOK
<1>3. ASSUME NEW t \in Threads, Change(t) PROVE LoneSave' /\ FileIsCurrent'
  <2>1. pc[t] = "change" /\ UNCHANGED file
    BY <1>3 DEF Change, PostNode, PutNode, DeleteNode
  <2>2. CASE pc' = [pc EXCEPT ![t] = "idle"]
    <3>1. CASE disturbed'
      BY <3>1 DEF LoneSave, FileIsCurrent
    <3>2. CASE ~disturbed'
      <4>1. UNCHANGED <<rtsp, dump, disturbed>>
        BY <1>3, <2>1, <2>2, <3>2
        DEF Change, PostNode, PutNode, DeleteNode, DumpAndUnlock, Throw, TypeOK
      <4>2. SavingKept
        BY <2>1, <2>2, <4>1 DEF SavingKept, TypeOK
      <4> QED
        BY <4>2, SavingKeptStep
    <3> QED
      BY <3>1, <3>2
  <2>3. CASE pc' = [pc EXCEPT ![t] = "open"]
    <3>1. disturbed' = (Savers # {}) /\ dump' = [dump EXCEPT ![t] = rtsp']
      BY <1>3, <2>1, <2>3
      DEF Change, PostNode, PutNode, DeleteNode, ChangeTo, DumpAndUnlock, Throw, TypeOK
    <3>2. Savers' = Savers \union {t}
      BY <2>1, <2>3 DEF Savers, TypeOK
    <3>3. dump'[t] = rtsp' /\ pc'[t] = "open"
      BY <2>3, <3>1 DEF TypeOK
    <3> QED
      BY <3>1, <3>2, <3>3 DEF LoneSave, FileIsCurrent
  <2> QED
    BY <1>3, <2>2, <2>3
    DEF Change, PostNode, PutNode, DeleteNode, DumpAndUnlock, Throw
<1>4. ASSUME NEW t \in Threads, Open(t) PROVE LoneSave' /\ FileIsCurrent'
  <2>1. t \in Savers /\ Savers' = Savers
    BY <1>4 DEF Open, Savers, TypeOK
  <2> QED
    BY <1>4, <2>1 DEF Open, LoneSave, FileIsCurrent
<1>5. ASSUME NEW t \in Threads, OpenFails(t) \/ WriteFails(t)
      PROVE  LoneSave' /\ FileIsCurrent'
  BY <1>5 DEF OpenFails, WriteFails, LoneSave, FileIsCurrent
<1>6. ASSUME NEW t \in Threads, Write(t) PROVE LoneSave' /\ FileIsCurrent'
  <2>1. CASE disturbed
    BY <1>6, <2>1 DEF Write, AfterSave, LoneSave, FileIsCurrent
  <2>2. CASE ~disturbed
    <3>1. Savers = {t} /\ dump[t] = rtsp /\ file = Unparsed("empty")
      BY <1>6, <2>2 DEF Write, Savers, LoneSave
    <3>2. Savers' = {}
      BY <1>6, <3>1 DEF Write, AfterSave, Savers, TypeOK
    <3>3. file' = Dump(rtsp) /\ rtsp' = rtsp
      BY <1>6, <3>1 DEF Write, AfterSave, Overlay
    <3> QED
      BY <3>2, <3>3 DEF LoneSave, FileIsCurrent
  <2> QED
    BY <2>1, <2>2
<1>7. CASE Restart
  <2>1. Savers' = {}
    BY <1>7 DEF Restart, Savers, EveryThread
  <2>2. ~disturbed' => file' = Dump(rtsp')
    <3> SUFFICES ASSUME Readable(file) PROVE file = Dump(file.dump)
      BY <1>7 DEF Restart, Loaded, Dump
    <3>1. file \in [dump : Nodes]
      BY DEF Readable, TypeOK, Files
    <3> QED
      BY <3>1 DEF Dump
  <2> QED
    BY <2>1, <2>2 DEF LoneSave, FileIsCurrent
<1>8. CASE UNCHANGED vars
  BY <1>8 DEF vars, LoneSave, FileIsCurrent, Savers
<1> QED
  BY <1>1, <1>2, <1>3, <1>4, <1>5, <1>6, <1>7, <1>8, SavingKeptStep
  DEF Next, Handle, Save

(***************************************************************************)
(* The lock an exception left.                                             *)
(***************************************************************************)
\* Only a change and a restart touch the cameras.
LEMMA RtspKept ==
  ASSUME NEW t \in Threads, Requested(t) \/ Handle(t), ~Change(t)
  PROVE  rtsp' = rtsp
  BY DEF Requested, Post, Put, Delete, GetList, GetTree, Begin, Handle, GetNodeState,
         WrLock, Save, Open, OpenFails, Write, WriteFails, AfterSave, CloseViewers, Read,
         ListLock, ListUnlock, TreeReference, TreeCopy

LEMMA LeftStep ==
  TypeOK /\ LockHeld /\ LeftForWhatIsStored /\ [Next]_vars => LeftForWhatIsStored'
<1> SUFFICES ASSUME TypeOK, LockHeld, LeftForWhatIsStored, [Next]_vars
             PROVE  LeftForWhatIsStored'
  OBVIOUS
<1>1. ASSUME NEW t \in Threads, Change(t) PROVE LeftForWhatIsStored'
  <2>1. left = "none"
    BY <1>1, AtChange DEF Change, PostNode, PutNode, DeleteNode
  <2>2. left' = "put" => rtsp' = NotAnObject
    BY <1>1, <2>1 DEF Change, PostNode, PutNode, DeleteNode, DumpAndUnlock, Throw
  <2>3. left' # "read"
    BY <1>1, <2>1 DEF Change, PostNode, PutNode, DeleteNode, DumpAndUnlock, Throw
  <2> QED
    BY <2>2, <2>3 DEF LeftForWhatIsStored
<1>2. ASSUME NEW t \in Threads, GetNodeState(t) PROVE LeftForWhatIsStored'
  <2>1. rtsp' = rtsp
    BY <1>2 DEF GetNodeState
  <2>2. left' # left => ReadThrows(rtsp, req[t].body) /\ left' = "read"
    BY <1>2 DEF GetNodeState
  <2> QED
    BY <2>1, <2>2 DEF LeftForWhatIsStored, ReadThrows
<1>3. ASSUME NEW t \in Threads, Requested(t) \/ Handle(t), ~Change(t), ~GetNodeState(t)
      PROVE  LeftForWhatIsStored'
  <2>1. left' = left
    BY <1>3 DEF Requested, Post, Put, Delete, GetList, GetTree, Begin, Handle,
                WrLock, Save, Open, OpenFails, Write, WriteFails, AfterSave, CloseViewers,
                Read, ListLock, ListUnlock, TreeReference, TreeCopy
  <2> QED
    BY <1>3, <2>1, RtspKept DEF LeftForWhatIsStored
<1>4. CASE Restart
  BY <1>4 DEF Restart, LeftForWhatIsStored
<1>5. CASE UNCHANGED vars
  BY <1>5 DEF vars, LeftForWhatIsStored
<1> QED
  BY <1>1, <1>2, <1>3, <1>4, <1>5 DEF Next

LEMMA NextIInv == IInv /\ [Next]_vars => IInv'
  BY TypeStep, LockStep, TornStep, RemovedStep, FileStep, LeftStep DEF IInv, HandlerInv

(***************************************************************************)
(* The theorems.                                                           *)
(***************************************************************************)
\* What the handlers, the lock, the file and the memory have to do with each other
\* at every moment.
THEOREM IInvHolds == Spec => []IInv
  BY InitIInv, NextIInv, PTL DEF Spec

\* Every variable has its type.
THEOREM TypeCorrect == Spec => []TypeOK
<1>1. IInv => TypeOK
  BY DEF IInv
<1> QED
  BY <1>1, IInvHolds, PTL

\* saveFile without a lock loses cameras only when it overlaps another one, fails,
\* or is not reached: otherwise the file is the memory whenever nobody saves.
THEOREM FileCurrent == Spec => []FileIsCurrent
<1>1. IInv => FileIsCurrent
  BY DEF IInv, HandlerInv
<1> QED
  BY <1>1, IInvHolds, PTL

\* getNodeState and putNode leave rwlock_t held only for what is stored, and that
\* stays stored.
THEOREM LeftForStored == Spec => []LeftForWhatIsStored
<1>1. IInv => LeftForWhatIsStored
  BY DEF IInv
<1> QED
  BY <1>1, IInvHolds, PTL

\* getNode dumps under the lock and never meets a change.
THEOREM ListNotTorn == Spec => []OnlyTreeTorn
<1>1. IInv => OnlyTreeTorn
  BY DEF IInv, HandlerInv, TornHeld, OnlyTreeTorn
<1> QED
  BY <1>1, IInvHolds, PTL

\* A DELETE that leaves viewers of a removed camera open answers a failure.
THEOREM UnclosedReported == Spec => []UnclosedIsReported
<1>1. IInv => UnclosedIsReported
  BY DEF IInv
<1> QED
  BY <1>1, IInvHolds, PTL

\* Started again with nothing under way, Streamer has the cameras it had.
THEOREM RestartKeepsCameras == Spec => RestartKeeps
<1>1. IInv /\ [Next]_vars => [Restart /\ Savers = {} /\ ~disturbed => rtsp' = rtsp]_vars
  BY DEF IInv, HandlerInv, FileIsCurrent, Restart, Loaded, Readable, Dump, Unreadable
<1> QED
  BY <1>1, IInvHolds, PTL DEF Spec, RestartKeeps

\* A lock left held freezes the cameras until the next start.
THEOREM FrozenStore == Spec => StoreIsFrozen
<1>1. IInv /\ [Next]_vars => [left # "none" => rtsp' = rtsp \/ left' = "none"]_vars
  <2> SUFFICES ASSUME IInv, Next, left # "none" PROVE rtsp' = rtsp \/ left' = "none"
    OBVIOUS
  <2>1. ASSUME NEW t \in Threads, Change(t) PROVE FALSE
    BY <2>1, AtChange DEF IInv, HandlerInv, Change, PostNode, PutNode, DeleteNode
  <2>2. CASE Restart
    BY <2>2 DEF Restart
  <2> QED
    BY <2>1, <2>2, RtspKept DEF Next
<1> QED
  BY <1>1, IInvHolds, PTL DEF Spec, StoreIsFrozen

(***************************************************************************)
(* What Answered rests on, but for the fairness of the lock and the loops. *)
(***************************************************************************)
\* The handler of t can take its next step.
GoesOn(t) ==
  /\ pc[t] # "idle"
  /\ pc[t] \in {"getState", "rdlock"} => CanRead
  /\ pc[t] = "wrlock" => CanWrite

OnlyLeftLockWaits ==
  left = "none" /\ (\E t \in Threads : pc[t] # "idle") => \E t \in Threads : GoesOn(t)

\* The steps a handler has before it, the viewers of a camera counted once.
ToGo(step) ==
  CASE step = "getState" -> 6
    [] step = "wrlock" -> 5
    [] step = "change" -> 4
    [] step = "open" -> 3
    [] step \in {"write", "rdlock"} -> 2
    [] step \in {"closeViewers", "readList", "readTree"} -> 1
    [] OTHER -> 0

ComesCloser(t) ==
  \/ ToGo(pc'[t]) < ToGo(pc[t])
  \/ pc'[t] = pc[t] /\ removed'[t] \subseteq removed[t] /\ removed'[t] # removed[t]

OnlyForward ==
  \A t \in Threads :
    pc[t] = "idle" \/ ComesCloser(t) \/ (pc'[t] = pc[t] /\ removed'[t] = removed[t])

\* As long as no exception has left the lock held, the handlers never all wait: if any
\* is under way one of them can go on. There is no deadlock but a lock left for ever.
THEOREM NoOtherDeadlock == Spec => []OnlyLeftLockWaits
<1>1. IInv => OnlyLeftLockWaits
  <2> SUFFICES ASSUME IInv, left = "none", NEW t \in Threads, pc[t] # "idle"
               PROVE  \E u \in Threads : GoesOn(u)
    BY DEF OnlyLeftLockWaits
  <2>1. CASE writer # Nobody
    <3>1. writer \in Threads /\ pc[writer] = "change"
      BY <2>1 DEF IInv, HandlerInv, LockHeld, TypeOK
    <3> QED
      BY <3>1 DEF GoesOn
  <2>2. ASSUME NEW u \in readers PROVE \E v \in Threads : GoesOn(v)
    <3>1. u \in Threads /\ pc[u] = "readList"
      BY <2>2 DEF IInv, HandlerInv, LockHeld, TypeOK
    <3> QED
      BY <3>1 DEF GoesOn
  <2>3. CASE writer = Nobody /\ readers = {}
    BY <2>3 DEF GoesOn, CanRead, CanWrite
  <2> QED
    BY <2>1, <2>2, <2>3
<1> QED
  BY <1>1, IInvHolds, PTL

\* No handler takes a step twice but to close the viewers of one more camera: whatever
\* the others do meanwhile, a request that can go on comes to its end.
THEOREM HandlersEnd == Spec => [][OnlyForward]_vars
<1>1. ASSUME IInv, Next PROVE OnlyForward
  <2> USE DEF IInv, TypeOK
  <2>1. ASSUME NEW t \in Threads, NEW from \in Steps, NEW to \in Steps, pc[t] = from, Goto(t, to),
               from = "idle" \/ ToGo(to) < ToGo(from),
               \A u \in Threads : u # t => removed'[u] = removed[u]
        PROVE  OnlyForward
    <3> SUFFICES ASSUME NEW u \in Threads
                 PROVE  pc[u] = "idle" \/ ComesCloser(u) \/ (pc'[u] = pc[u] /\ removed'[u] = removed[u])
      BY DEF OnlyForward
    <3>1. pc'[t] = to /\ \A v \in Threads : v # t => pc'[v] = pc[v]
      BY <1>1, <2>1
    <3> HIDE DEF Goto
    <3> QED
      BY <2>1, <3>1 DEF ComesCloser
  <2>2. ASSUME NEW t \in Threads, Requested(t) PROVE OnlyForward
    <3>1. \E to \in Steps : pc[t] = "idle" /\ Goto(t, to) /\ removed' = [removed EXCEPT ![t] = {}]
      BY <2>2 DEF Requested, Post, Put, Delete, GetList, GetTree, Begin, Steps
    <3> HIDE DEF Goto
    <3> QED
      BY <1>1, <2>1, <3>1
  <2>3. ASSUME NEW t \in Threads, GetNodeState(t) \/ WrLock(t) \/ Read(t) PROVE OnlyForward
    <3>1. /\ removed' = removed
          /\ \/ pc[t] = "getState" /\ (Goto(t, "wrlock") \/ Goto(t, "idle"))
             \/ pc[t] = "wrlock" /\ Goto(t, "change")
             \/ pc[t] = "rdlock" /\ (Goto(t, "readList") \/ Goto(t, "readTree"))
             \/ pc[t] \in {"readList", "readTree"} /\ Goto(t, "idle")
      BY <2>3 DEF GetNodeState, WrLock, Read, ListLock, ListUnlock, TreeReference, TreeCopy
    <3>2. /\ ToGo("getState") = 6 /\ ToGo("wrlock") = 5 /\ ToGo("change") = 4 /\ ToGo("rdlock") = 2
          /\ ToGo("readList") = 1 /\ ToGo("readTree") = 1 /\ ToGo("idle") = 0
      BY DEF ToGo
    <3> HIDE DEF Goto
    <3> QED
      BY <2>1, <3>1, <3>2 DEF Steps
  <2>4. ASSUME NEW t \in Threads, Change(t) PROVE OnlyForward
    <3>1. pc[t] = "change" /\ (Goto(t, "open") \/ Goto(t, "idle"))
      BY <2>4 DEF Change, PostNode, PutNode, DeleteNode, DumpAndUnlock, Throw
    <3>2. removed' = removed \/ \E cams : removed' = [removed EXCEPT ![t] = cams]
      BY <2>4 DEF Change, PostNode, PutNode, DeleteNode, Erase
    <3>3. ToGo("change") = 4 /\ ToGo("open") = 3 /\ ToGo("idle") = 0
      BY DEF ToGo
    <3> HIDE DEF Goto
    <3> QED
      BY <1>1, <2>1, <3>1, <3>2, <3>3 DEF Steps
  <2>5. ASSUME NEW t \in Threads, Save(t) PROVE OnlyForward
    <3>1. /\ removed' = removed
          /\ \/ pc[t] = "open" /\ (Goto(t, "write") \/ Goto(t, "idle"))
             \/ pc[t] = "write" /\ (Goto(t, "idle") \/ Goto(t, "closeViewers"))
      BY <2>5 DEF Save, Open, OpenFails, Write, WriteFails, AfterSave
    <3>2. /\ ToGo("open") = 3 /\ ToGo("write") = 2 /\ ToGo("closeViewers") = 1 /\ ToGo("idle") = 0
      BY DEF ToGo
    <3> HIDE DEF Goto
    <3> QED
      BY <2>1, <3>1, <3>2 DEF Steps
  <2>6. ASSUME NEW t \in Threads, CloseViewers(t) PROVE OnlyForward
    <3> PICK c \in removed[t] : removed' = [removed EXCEPT ![t] = @ \ {c}]
      BY <2>6 DEF CloseViewers
    <3>1. /\ \A u \in Threads : u # t => pc'[u] = pc[u] /\ removed'[u] = removed[u]
          /\ removed'[t] = removed[t] \ {c}
          /\ pc[t] = "closeViewers" /\ pc'[t] \in {"closeViewers", "idle"}
      BY <1>1, <2>6 DEF CloseViewers
    <3>2. ToGo("closeViewers") = 1 /\ ToGo("idle") = 0
      BY DEF ToGo
    <3>3. ComesCloser(t)
      BY <3>1, <3>2 DEF ComesCloser
    <3> QED
      BY <3>1, <3>3 DEF OnlyForward
  <2>7. CASE Restart
    <3>1. \A t \in Threads : pc'[t] = "idle"
      BY <2>7 DEF Restart, EveryThread
    <3>2. ToGo("idle") = 0 /\ \A step \in Steps : step = "idle" \/ ToGo(step) > 0
      BY DEF ToGo, Steps
    <3> QED
      BY <1>1, <3>1, <3>2 DEF OnlyForward, ComesCloser
  <2> QED
    BY <1>1, <2>2, <2>3, <2>4, <2>5, <2>6, <2>7 DEF Next, Handle
<1>2. IInv /\ [Next]_vars => [OnlyForward]_vars
  BY <1>1
<1> QED
  BY <1>2, IInvHolds, PTL DEF Spec
=============================================================================
