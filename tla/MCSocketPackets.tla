--------------------------- MODULE MCSocketPackets ---------------------------
EXTENDS SocketPackets, TLC

CONSTANTS signaling, rest

MCEmits == (Loop :> 1) @@ (signaling :> 2) @@ (rest :> 1)
=============================================================================
