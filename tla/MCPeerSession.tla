---------------------------- MODULE MCPeerSession ----------------------------
(* PeerSession on a few browsers and cameras.                               *)
EXTENDS PeerSession, TLC

Symmetry == Permutations(Ids) \union Permutations(Cams) \union Permutations(Workers)
=============================================================================
