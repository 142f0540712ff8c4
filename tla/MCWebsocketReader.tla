-------------------------- MODULE MCWebsocketReader --------------------------
(***************************************************************************)
(* WebsocketReader with every stream of two frames whose payloads are      *)
(* those at which readFrame behaves differently (none, one byte, payloads  *)
(* around the header buffer), one with an extended length, and some of     *)
(* three frames; all masked or none.                                       *)
(***************************************************************************)
EXTENDS WebsocketReader

At(at, k, masked) == [at |-> at, kind |-> k[1], len |-> k[2], masked |-> masked]

Shapes ==
  { << <<"data", 1>>, <<"data", 9>>, <<"data", 12>> >>,
    << <<"data", 12>>, <<"data", 1>>, <<"data", 1>> >>,
    << <<"data", 1>>, <<"data", 0>>, <<"data", 1>> >>,
    << <<"data", 0>>, <<"ping", 0>>, <<"close", 0>> >>,
    << <<"ping", 0>>, <<"data", 9>>, <<"data", 1>> >>,
    << <<"data", 9>>, <<"ping", 1>>, <<"data", 1>> >>,
    << <<"ping", 1>>, <<"ping", 0>>, <<"close", 0>> >>,
    << <<"data", 1>>, <<"close", 1>>, <<"data", 1>> >> }

Pairs == [1..2 -> {"data", "ping", "close"} \X {0, 1, 9, 12}]

MCStreams ==
  {LET f1 == At(0, s[1], masked)
       f2 == At(End(f1), s[2], masked)
       f3 == At(End(f2), s[3], masked)
   IN  <<f1, f2, f3>> : s \in Shapes, masked \in BOOLEAN}
  \union
  {LET f1 == At(0, s[1], masked)
   IN  <<f1, At(End(f1), s[2], masked)>> : s \in Pairs, masked \in BOOLEAN}
  \union
  {LET f1 == At(0, <<"data", 1>>, masked)
   IN  <<f1, At(End(f1), <<"data", 126>>, masked)>> : masked \in BOOLEAN}
=============================================================================
