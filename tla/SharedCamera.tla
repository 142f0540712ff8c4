---------------------------- MODULE SharedCamera ----------------------------
(***************************************************************************)
(* What the media capturer promises its viewers: a camera is captured once *)
(* for everybody, from before its first viewer is served until after the   *)
(* last one is gone, and never stops under a viewer.                       *)
(***************************************************************************)
CONSTANTS Ids, Cams

VARIABLES
  capturing,   \* camera -> is it captured?
  viewers      \* camera -> the viewers it is captured for

shared == <<capturing, viewers>>

Init ==
  /\ capturing = [c \in Cams |-> FALSE]
  /\ viewers = [c \in Cams |-> {}]

Start(c) ==
  /\ ~capturing[c]
  /\ capturing' = [capturing EXCEPT ![c] = TRUE]
  /\ UNCHANGED viewers

Join(c, i) ==
  /\ capturing[c]
  /\ viewers' = [viewers EXCEPT ![c] = @ \union {i}]
  /\ UNCHANGED capturing

Leave(c, i) ==
  /\ viewers' = [viewers EXCEPT ![c] = @ \ {i}]
  /\ UNCHANGED capturing

\* The camera is deleted: it is captured for nobody from now on.
Close(c) ==
  /\ viewers' = [viewers EXCEPT ![c] = {}]
  /\ UNCHANGED capturing

Stop(c) ==
  /\ capturing[c]
  /\ viewers[c] = {}
  /\ capturing' = [capturing EXCEPT ![c] = FALSE]
  /\ UNCHANGED viewers

Next ==
  \E c \in Cams :
    \/ Start(c) \/ Stop(c) \/ Close(c)
    \/ \E i \in Ids : Join(c, i) \/ Leave(c, i)

Spec == Init /\ [][Next]_shared
=============================================================================
