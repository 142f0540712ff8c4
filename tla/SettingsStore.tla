---------------------------- MODULE SettingsStore ----------------------------
(***************************************************************************)
(* The camera settings of the streamer: the JSON object "rtsp" that the    *)
(* REST handlers read and change in memory under a read-write lock, and    *)
(* the file webrtcStats.js each change is written to once the lock is      *)
(* released.                                                               *)
(*                                                                         *)
(* RestApi is a multithreaded server: its handlers run on the loops of     *)
(* Threads.  The process may end at any moment and is started again from   *)
(* the file.                                                               *)
(***************************************************************************)
EXTENDS Integers

CONSTANTS
  Cameras,      \* the keys a request may name
  Threads,      \* the worker loops of the HTTPS server
  NotAnObject,  \* "rtsp" as an array, a string or a number
  Nobody        \* the holder of a lock that no thread has for writing

ASSUME NobodyAssumption == Nobody \notin Threads

\* What getNodeState finds at a camera: a string or no field at all, or a value
\* that does not convert to the std::string it is assigned to.
Fields == {"text", "other"}

Tables == UNION {[cams -> Fields] : cams \in SUBSET Cameras}
Nodes  == Tables \union {NotAnObject}
ASSUME NodesAssumption == NotAnObject \notin Tables

NoCameras == [c \in {} |-> "text"]
Named(node) == IF node = NotAnObject THEN {} ELSE DOMAIN node

\* The file is the dump of a whole node, or does not parse.
Unreadable == {"empty", "mixed"}
Files == [dump : Nodes] \union [text : Unreadable]
Dump(node) == [dump |-> node]
Unparsed(text) == [text |-> text]
Readable(f) == f \notin [text : Unreadable]

VARIABLES
  rtsp,        \* Settings::encSetting.root["rtsp"]
  writer,      \* who holds rwlock_t for writing, or Nobody
  readers,     \* who holds it for reading in getNode
  left,        \* which exception left it held for ever, or "none"
  file,        \* webrtcStats.js
  pc,          \* where each thread is in its handler
  req,         \* the request it has still to carry out
  dump,        \* the text it has to write
  removed,     \* the cameras it deleted and whose viewers it has not closed yet
  answer,      \* what it answers, or answered last
  torn,        \* the threads whose read ran beside a change
  disturbed    \* history: the change made since nobody was saving was not saved alone

lockVars == <<writer, readers, left>>
vars == <<rtsp, lockVars, file, pc, req, dump, removed, answer, torn, disturbed>>

Steps == {"idle", "getState", "wrlock", "change", "open", "write", "closeViewers",
          "rdlock", "readList", "readTree"}
Requests ==
  [op : {"post"}, body : Nodes]
    \union [op : {"put"}, body : Tables]
    \union [op : {"delete"}, body : SUBSET Cameras, typed : BOOLEAN]
    \union [op : {"list", "tree", "none"}]
NoRequest == [op |-> "none"]

Savers == {t \in Threads : pc[t] \in {"open", "write"}}

Goto(t, step) == pc' = [pc EXCEPT ![t] = step]
Fail(t) == Goto(t, "idle") /\ answer' = [answer EXCEPT ![t] = "failure"]

\* Configuration::loadIt catches the parse error; SetEncoderConf then starts anew.
Loaded_Never(f) == NoCameras   \* mutant: SetEncoderConf always starts anew

Loaded(f) == IF Readable(f) THEN f.dump ELSE NoCameras

EveryThread(value) == [t \in Threads |-> value]

Init ==
  /\ file = Unparsed("empty")
  /\ rtsp = NoCameras
  /\ writer = Nobody
  /\ readers = {}
  /\ left = "none"
  /\ pc = EveryThread("idle")
  /\ req = EveryThread(NoRequest)
  /\ dump = EveryThread(NoCameras)
  /\ removed = EveryThread({})
  /\ answer = EveryThread("none")
  /\ torn = {}
  /\ disturbed = TRUE

(***************************************************************************)
(* The handlers.  A body that does not parse changes nothing and is left   *)
(* out, and so is a PUT whose first camera has no "recording" string.      *)
(***************************************************************************)
Begin(t, step, request) ==
  /\ pc[t] = "idle"
  /\ Goto(t, step)
  /\ req' = [req EXCEPT ![t] = request]
  /\ removed' = [removed EXCEPT ![t] = {}]
  /\ answer' = [answer EXCEPT ![t] = "none"]
  /\ torn' = torn \ {t}
  /\ UNCHANGED <<rtsp, lockVars, file, dump, disturbed>>

Post(t, node) == Begin(t, "wrlock", [op |-> "post", body |-> node])

Put(t, body) ==
  /\ \E first \in DOMAIN body : body[first] = "text"
  /\ Begin(t, "getState", [op |-> "put", body |-> body])

Delete(t, cams, typed) ==
  Begin(t, "wrlock", [op |-> "delete", body |-> cams, typed |-> typed])

GetList(t) == Begin(t, "rdlock", [op |-> "list"])
GetTree(t) == Begin(t, "rdlock", [op |-> "tree"])

(***************************************************************************)
(* The lock, and what is done under it.  An exception passes the unlock    *)
(* call by: the thread answers "failure" and goes on without it.           *)
(***************************************************************************)
CanRead == writer = Nobody

CanWrite_IgnoresLeft == writer = Nobody /\ readers = {}   \* mutant: getNodeState unlocks

CanWrite == writer = Nobody /\ readers = {} /\ left # "read"

ReadThrows(node, body) ==
  \E first \in DOMAIN body :
    body[first] = "text" /\ first \in Named(node) /\ node[first] = "other"

\* getNodeState, of the first camera of the PUT.
GetNodeState(t) ==
  /\ pc[t] = "getState"
  /\ CanRead
  /\ \/ /\ \E first \in DOMAIN req[t].body :
             /\ req[t].body[first] = "text"
             /\ first \in Named(rtsp) => rtsp[first] = "text"
        /\ Goto(t, "wrlock")
        /\ UNCHANGED <<left, req, answer>>
     \/ /\ ReadThrows(rtsp, req[t].body)
        /\ left' = "read"
        /\ req' = [req EXCEPT ![t] = NoRequest]
        /\ Fail(t)
  /\ UNCHANGED <<rtsp, writer, readers, file, dump, removed, torn, disturbed>>

WrLock(t) ==
  /\ pc[t] = "wrlock"
  /\ CanWrite
  /\ writer' = t
  /\ Goto(t, "change")
  /\ UNCHANGED <<rtsp, readers, left, file, req, dump, removed, answer, torn, disturbed>>

\* Two worker loops read and change the same json without a lock between them.
Readers(self) == {u \in Threads \ {self} : pc[u] \in {"readList", "readTree"}}

\* Memory changes to node; the readers beside it see something undefined.
ChangeTo(t, node) ==
  /\ rtsp' = node
  /\ torn' = torn \union Readers(t)
  /\ disturbed' = (Savers # {})

\* The end of postNode, putNode, deleteNode but for saveFile: the text is made and
\* the lock released; ret is what the handler answers if nothing throws.
DumpAndUnlock(t, node, ret) ==
  /\ dump' = [dump EXCEPT ![t] = node]
  /\ writer' = Nobody
  /\ req' = [req EXCEPT ![t] = NoRequest]
  /\ Goto(t, "open")
  /\ answer' = [answer EXCEPT ![t] = ret]
  /\ UNCHANGED left

Throw(t, call) ==
  /\ left' = call
  /\ Fail(t)
  /\ req' = [req EXCEPT ![t] = NoRequest]
  /\ UNCHANGED <<dump, writer>>

PostNode(t) ==
  /\ pc[t] = "change" /\ req[t].op = "post"
  /\ ChangeTo(t, req[t].body)
  /\ DumpAndUnlock(t, req[t].body, "success")
  /\ UNCHANGED <<readers, file, removed>>

With(node, body) ==
  [c \in DOMAIN node \union DOMAIN body |->
     IF c \in DOMAIN body THEN body[c] ELSE node[c]]

PutNode_Stale(t) ==   \* mutant: the text is taken before the cameras are put in
  /\ pc[t] = "change" /\ req[t].op = "put"
  /\ rtsp # NotAnObject
  /\ ChangeTo(t, With(rtsp, req[t].body))
  /\ DumpAndUnlock(t, rtsp, "success")
  /\ UNCHANGED <<readers, file, removed>>

PutNode(t) ==
  /\ pc[t] = "change" /\ req[t].op = "put"
  /\ IF rtsp = NotAnObject   \* operator[] throws
     THEN Throw(t, "put") /\ UNCHANGED <<rtsp, torn, disturbed>>
     ELSE LET node == With(rtsp, req[t].body)
          IN  ChangeTo(t, node) /\ DumpAndUnlock(t, node, "success")
  /\ UNCHANGED <<readers, file, removed>>

Without(node, cams) ==
  IF node = NotAnObject THEN node
  ELSE [c \in DOMAIN node \ cams |-> node[c]]

\* The cameras of the body that are there are erased and noted for their viewers.
Erase(t, cams) ==
  /\ removed' = [removed EXCEPT ![t] = cams \intersect Named(rtsp)]
  /\ rtsp' = Without(rtsp, cams)
  /\ torn' = torn \union Readers(t)

\* A body with a member that is not a string: it throws after some of the others.
DeleteNode(t) ==
  /\ pc[t] = "change" /\ req[t].op = "delete"
  /\ \/ /\ req[t].typed
        /\ Erase(t, req[t].body)
        /\ disturbed' = (Savers # {})
        /\ DumpAndUnlock(t, rtsp', IF removed'[t] = {} THEN "failure" ELSE "success")
     \/ /\ ~req[t].typed
        /\ \E cams \in SUBSET req[t].body : Erase(t, cams)
        /\ disturbed' = TRUE
        /\ Throw(t, "delete")
  /\ UNCHANGED <<readers, file>>

(***************************************************************************)
(* saveFile, outside the lock: opening the file empties it.                *)
(***************************************************************************)
Open(t) ==
  /\ pc[t] = "open"
  /\ file' = Unparsed("empty")
  /\ Goto(t, "write")
  /\ UNCHANGED <<rtsp, lockVars, req, dump, removed, answer, torn, disturbed>>

\* The exception of saveFile ends the handler, also before the viewers are closed.
OpenFails(t) ==
  /\ pc[t] = "open"
  /\ disturbed' = TRUE
  /\ Fail(t)
  /\ UNCHANGED <<rtsp, lockVars, file, req, dump, removed, torn>>

\* A text written from offset 0 over one that was written since: if that was
\* longer, its tail remains.
Overlay(old, node) ==
  {Dump(node)} \union (IF old \in {Unparsed("empty"), Dump(node)} THEN {}
                       ELSE {Unparsed("mixed")})

AfterSave_SkipsViewers(t) ==   \* mutant: the handler ends with deleteNode
  /\ dump' = [dump EXCEPT ![t] = NoCameras]
  /\ Goto(t, "idle")
  /\ UNCHANGED <<rtsp, lockVars, req, removed, answer, torn>>

AfterSave(t) ==
  /\ dump' = [dump EXCEPT ![t] = NoCameras]
  /\ Goto(t, IF removed[t] = {} THEN "idle" ELSE "closeViewers")
  /\ UNCHANGED <<rtsp, lockVars, req, removed, answer, torn>>

Write(t) ==
  /\ pc[t] = "write"
  /\ file' \in Overlay(file, dump[t])
  /\ UNCHANGED disturbed
  /\ AfterSave(t)

\* The disk is full: the state of the stream is not looked at.
WriteFails(t) ==
  /\ pc[t] = "write"
  /\ file' = Unparsed("mixed")
  /\ disturbed' = TRUE
  /\ AfterSave(t)

\* sig.postcloseCamera of each camera removed.
CloseViewers_SameOne(t) ==   \* mutant: the loop does not go on to the next camera
  /\ pc[t] = "closeViewers"
  /\ removed' = removed
  /\ UNCHANGED <<rtsp, lockVars, file, pc, req, dump, answer, torn, disturbed>>

CloseViewers(t) ==
  /\ pc[t] = "closeViewers"
  /\ \E c \in removed[t] : removed' = [removed EXCEPT ![t] = @ \ {c}]
  /\ IF removed'[t] = {} THEN Goto(t, "idle") ELSE UNCHANGED pc
  /\ UNCHANGED <<rtsp, lockVars, file, req, dump, answer, torn, disturbed>>

(***************************************************************************)
(* Reading the cameras.                                                    *)
(***************************************************************************)
\* getNode keeps the lock while it dumps.
ListLock(t) ==
  /\ pc[t] = "rdlock" /\ req[t].op = "list"
  /\ CanRead
  /\ readers' = readers \union {t}
  /\ Goto(t, "readList")
  /\ UNCHANGED <<rtsp, writer, left, file, req, dump, removed, answer, torn, disturbed>>

ListUnlock(t) ==
  /\ pc[t] = "readList"
  /\ readers' = readers \ {t}
  /\ req' = [req EXCEPT ![t] = NoRequest]
  /\ Goto(t, "idle")
  /\ UNCHANGED <<rtsp, writer, left, file, dump, removed, answer, torn, disturbed>>

\* getJsonNode takes a reference under the lock and copies through it afterwards.
TreeReference(t) ==
  /\ pc[t] = "rdlock" /\ req[t].op = "tree"
  /\ CanRead
  /\ Goto(t, "readTree")
  /\ UNCHANGED <<rtsp, lockVars, file, req, dump, removed, answer, torn, disturbed>>

TreeCopy(t) ==
  /\ pc[t] = "readTree"
  /\ req' = [req EXCEPT ![t] = NoRequest]
  /\ Goto(t, "idle")
  /\ UNCHANGED <<rtsp, lockVars, file, dump, removed, answer, torn, disturbed>>

\* The end of the process, at any point, and its next start.  Taking a lock one
\* has left held ends it too: pthread says EDEADLK and libuv aborts.
Restart ==
  /\ file' = file
  /\ rtsp' = Loaded(file)
  /\ disturbed' = ~Readable(file)
  /\ writer' = Nobody
  /\ readers' = {}
  /\ left' = "none"
  /\ pc' = EveryThread("idle")
  /\ req' = EveryThread(NoRequest)
  /\ dump' = EveryThread(NoCameras)
  /\ removed' = EveryThread({})
  /\ answer' = EveryThread("none")
  /\ torn' = {}

(***************************************************************************)
Requested(t) ==
  \/ \E node \in Nodes : Post(t, node)
  \/ \E body \in Tables : Put(t, body)
  \/ \E cams \in SUBSET Cameras, typed \in BOOLEAN : Delete(t, cams, typed)
  \/ GetList(t) \/ GetTree(t)

Change(t) == PostNode(t) \/ PutNode(t) \/ DeleteNode(t)
Save(t)   == Open(t) \/ OpenFails(t) \/ Write(t) \/ WriteFails(t)
Read(t)   == ListLock(t) \/ ListUnlock(t) \/ TreeReference(t) \/ TreeCopy(t)
Handle(t) == GetNodeState(t) \/ WrLock(t) \/ Change(t) \/ Save(t) \/ CloseViewers(t)
               \/ Read(t)

Next == (\E t \in Threads : Requested(t) \/ Handle(t)) \/ Restart

Spec == Init /\ [][Next]_vars

\* A handler that has been called runs on, and a lock that becomes free again and
\* again is granted to it at last; nothing says that it does become free.
Fairness == \A t \in Threads : SF_vars(Handle(t))

FairSpec == Spec /\ Fairness

(***************************************************************************)
(* Properties.                                                             *)
(***************************************************************************)
\* Every variable has its type.
TypeOK ==
  /\ rtsp \in Nodes
  /\ writer \in Threads \union {Nobody}
  /\ readers \in SUBSET Threads
  /\ left \in {"none", "read", "put", "delete"}
  /\ file \in Files
  /\ pc \in [Threads -> Steps]
  /\ req \in [Threads -> Requests]
  /\ dump \in [Threads -> Nodes]
  /\ removed \in [Threads -> SUBSET Cameras]
  /\ answer \in [Threads -> {"none", "success", "failure"}]
  /\ torn \in SUBSET Threads
  /\ disturbed \in BOOLEAN

\* With nobody saving, the file holds the cameras that are in memory, whatever
\* was lost before, unless the last save ran beside another one, failed, or never
\* came because deleteNode threw: only then does a restart bring back old cameras
\* or none.
FileIsCurrent == Savers = {} /\ ~disturbed => file = Dump(rtsp)

\* A restart while nobody saves and nothing disturbed the last save keeps every
\* camera: SetEncoderConf makes of the file what the handlers had in memory.
RestartKeeps == [][Restart /\ Savers = {} /\ ~disturbed => rtsp' = rtsp]_vars

\* The lock is left held by putNode and getNodeState only for what is stored (no
\* table to put a camera into, a field that is not a string), and then that is
\* still stored: nothing but a restart can correct it.
LeftForWhatIsStored ==
  /\ left = "put" => rtsp = NotAnObject
  /\ left = "read" => \E c \in Named(rtsp) : rtsp[c] = "other"

\* Once the lock is left held, the cameras stay as they are until the process is
\* started again: every later POST, PUT and DELETE waits for ever.
StoreIsFrozen == [][left # "none" => rtsp' = rtsp \/ left' = "none"]_vars

\* Only the copy of getJsonNode can meet a change: getNode keeps the lock.
OnlyTreeTorn == \A t \in torn : pc[t] # "readList"

\* A DELETE that answers success has closed the viewers of every camera it
\* removed; cameras that are gone but still shown were reported as a failure.
UnclosedIsReported ==
  \A t \in Threads : pc[t] = "idle" /\ removed[t] # {} => answer[t] = "failure"

\* If the lock keeps becoming free, every request is answered.
LockComesFree == []<>CanWrite
Answered == LockComesFree => \A t \in Threads : pc[t] # "idle" ~> pc[t] = "idle"
=============================================================================
