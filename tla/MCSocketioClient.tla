--------------------------- MODULE MCSocketioClient ---------------------------
(* SocketioClient with the intervals of a socket.io server, in seconds.     *)
EXTENDS SocketioClient
=============================================================================
