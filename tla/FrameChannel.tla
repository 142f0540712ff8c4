---------------------------- MODULE FrameChannel ----------------------------
(***************************************************************************)
(* What a websocket connection promises to who listens: whole frames, in   *)
(* the order they were sent, each at most once.  Frames may be given up,   *)
(* and then with everything that waits with them.                          *)
(***************************************************************************)
EXTENDS Integers

VARIABLES
  whole,   \* the frames that have arrived to their last byte
  passed,  \* the frames before this one were handed on or given up
  handed   \* the frames the listener got

vars == <<whole, passed, handed>>

Init ==
  /\ whole = {}
  /\ passed = 1
  /\ handed = {}

Arrive ==
  /\ whole \subseteq whole'
  /\ UNCHANGED <<passed, handed>>

Hand ==
  /\ passed \in whole
  /\ handed' = handed \union {passed}
  /\ passed' = passed + 1
  /\ UNCHANGED whole

\* The frames up to the one that waits next are given up.
GiveUp ==
  /\ passed' > passed
  /\ passed..(passed' - 1) \subseteq whole'
  /\ whole \subseteq whole'
  /\ UNCHANGED handed

Next == Arrive \/ Hand \/ GiveUp

Spec == Init /\ [][Next]_vars
=============================================================================
